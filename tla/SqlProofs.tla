------------------------------ MODULE SqlProofs ------------------------------
(***************************************************************************)
(* Proofs about csvSql, for every set of files, every content, every       *)
(* command line and every database of Backends.                            *)
(***************************************************************************)
EXTENDS SqlProperties, AnySequence

-------------------------------------------------------------------------------
(* What the command line and the files determine does not change.            *)

LEMMA SameCommand ==
  ASSUME UNCHANGED Command
  PROVE  /\ Chosen' = Chosen
         /\ Slots' = Slots /\ (Autocommit' <=> Autocommit)
         /\ args' = args /\ keys' = keys
BY DEF Command, Chosen, Slots, Autocommit

LEMMA SameFile ==
  ASSUME UNCHANGED Command, NEW f
  PROVE  FileTypes(f)' = FileTypes(f) /\ BodyRows(f)' = BodyRows(f)
<1>1. args' = args /\ keys' = keys
  BY DEF Command
<1>2. BodyRows(f)' = BodyRows(f)
  BY <1>1 DEF BodyRows, RunRows, Reader, NLines, Body, Line, Width
<1>3. FileTypes(f)' = FileTypes(f)
  BY <1>1, <1>2 DEF FileTypes, NoBodyTypes, Typify, Width, TypeOf, Column, HasBlanks,
                    Absent, Value, Body
<1> QED BY <1>2, <1>3

LEMMA Constants ==
  /\ N \in Nat \ {0} /\ File = 1..N
<1>1. N \in Nat /\ File = 1..N
  BY TablesAssumption, SeqIsSeq DEF N, File
<1>2. N # 0
  BY TablesAssumption, EmptySeq DEF N
<1> QED BY <1>1, <1>2

LEMMA ChosenFacts ==
  ASSUME Chosen
  PROVE  /\ Slots \in Nat \ {0}
         /\ args.after \in Seq({"write", "read", "empty", "bad"})
         /\ args.before \in Seq({"write", "read", "empty", "bad"})
         /\ \A f \in File : Len(keys[f]) \in Nat
<1>1. /\ args.chunk \in Nat
      /\ {args.before, args.after, args.query} \subseteq Seq({"write", "read", "empty", "bad"})
      /\ \A f \in File : keys[f] \in Seq(KeyValue)
  BY InputsAssumption, SqlInputsAssumption DEF Chosen
<1>2. Slots \in Nat \ {0}
  BY <1>1 DEF Slots
<1>3. \A f \in File : Len(keys[f]) \in Nat
  BY <1>1, LenProperties
<1> QED BY <1>1, <1>2, <1>3

LEMMA SqlInvInit == Init => SqlInv
<1> SUFFICES ASSUME Init PROVE SqlInv
  OBVIOUS
<1>1. /\ at = "check" /\ file = 1 /\ file_no = 0 /\ row = 0 /\ offset = 0 /\ script = 0
      /\ tx = "none" /\ pending = <<>> /\ committed = <<>> /\ unwinding = FALSE
  BY DEF Init
<1>2. Chosen
  BY DEF Init, Chosen
<1>3. LogsOK
  BY <1>1, IsSeqEmpty DEF LogsOK
<1>4. SqlTypeOK
  <2>1. file \in 1..(N + 1) /\ file_no \in 0..file
    BY <1>1, Constants
  <2>2. at \in Phases /\ at # "rows"
    BY <1>1 DEF Phases
  <2> QED BY <1>1, <2>1, <2>2 DEF SqlTypeOK
<1>5. TurnOK /\ SessionOK /\ BufferHolds /\ TransactionsClosed
  BY <1>1 DEF TurnOK, SessionOK, BufferHolds, TransactionsClosed, WithFile
<1> QED BY <1>2, <1>3, <1>4, <1>5 DEF SqlInv

-------------------------------------------------------------------------------
(* Where a step may leave the command: at rest, with no transaction; in a    *)
(* list of statements; among the rows of a file.                             *)

Resting == {"compose", "create", "insert", "thrown", "query", "header"}

LEMMA AtRest ==
  ASSUME SqlInv, UNCHANGED Command,
         at' \in Resting \cup Ended,
         file' \in 1..(N + 1), file_no' \in 0..file',
         row' \in Nat, offset' \in Nat, script' \in Nat, unwinding' \in BOOLEAN,
         tx' = "none", pending' = <<>>, IsSeq(committed'),
         at' \in {"create", "insert"} => file' \in 1..N /\ (table.types = FileTypes(file).types)',
         at' = "compose" => file_no' < file'
  PROVE  SqlInv'
<1>1. at' \in Phases \cup Ended /\ at' \notin {"check", "before", "rows", "after"}
  BY DEF Resting, Ended, Phases
<1>2. Chosen' /\ LogsOK'
  BY SameCommand, IsSeqEmpty DEF SqlInv, LogsOK, IsSeq
<1>3. SqlTypeOK'
  BY <1>1 DEF SqlTypeOK
<1>4. TurnOK'
  BY <1>1 DEF TurnOK, WithFile
<1>5. SessionOK' /\ BufferHolds' /\ TransactionsClosed'
  BY <1>1 DEF SessionOK, BufferHolds, TransactionsClosed
<1> QED BY <1>2, <1>3, <1>4, <1>5 DEF SqlInv

LEMMA AmongStatements ==
  ASSUME SqlInv, UNCHANGED Command, UNCHANGED Position,
         at \in WithFile, at' \in {"before", "after"},
         row' \in Nat, offset' \in Nat, script' \in Nat, unwinding' \in BOOLEAN,
         tx' \in {"none", "open", "aborted"}, IsSeq(pending'), IsSeq(committed'),
         at' = "before" => ~Autocommit /\ (tx' = "none" <=> script' = 0),
         at' = "after" => args.after # <<>>,
         Autocommit => tx' = "none" /\ (pending' # <<>> => script' <= 1)
  PROVE  SqlInv'
<1>1. at' \in Phases /\ at' \notin {"check", "compose", "rows"}
  BY DEF Phases
<1>2. UNCHANGED <<file, file_no, table>> /\ Chosen' /\ LogsOK'
  BY SameCommand DEF SqlInv, LogsOK, IsSeq, Position
<1>3. SqlTypeOK'
  BY <1>1, <1>2 DEF SqlTypeOK, SqlInv
<1>4. TurnOK'
  <2>1. file \in 1..N /\ table.types = FileTypes(file).types
    BY DEF SqlInv, TurnOK
  <2>2. (table.types = FileTypes(file).types)'
    BY <1>2, <2>1, SameFile
  <2> QED BY <1>1, <1>2, <2>1, <2>2 DEF TurnOK
<1>5. SessionOK'
  BY <1>1, SameCommand DEF SessionOK
<1>6. BufferHolds' /\ TransactionsClosed'
  BY <1>1 DEF BufferHolds, TransactionsClosed
<1> QED BY <1>2, <1>3, <1>4, <1>5, <1>6 DEF SqlInv

\* What is asserted of the rows inserted so far, over the log they are in.
LEMMA AmongRows ==
  ASSUME SqlInv, UNCHANGED Command, UNCHANGED Position,
         at \in WithFile, at' = "rows",
         row' \in Nat, offset' \in Nat, script' \in Nat, unwinding' \in BOOLEAN,
         IsSeq(holder'), Len(holder') = Slots,
         tx' \in {"none", "open", "aborted"}, tx' = "none" <=> Autocommit,
         IsSeq(pending'), IsSeq(committed'), Autocommit => pending' = <<>>,
         BufferHolds'
  PROVE  SqlInv'
<1>1. at' \in Phases /\ at' \notin {"check", "compose", "before", "after"}
  BY DEF Phases
<1>2. UNCHANGED <<file, file_no, table>> /\ Chosen' /\ LogsOK'
  BY SameCommand DEF SqlInv, LogsOK, IsSeq, Position
<1>3. SqlTypeOK'
  <2>1. DOMAIN holder' = 1..Slots'
    BY IsSeqFacts, SameCommand
  <2> QED BY <1>1, <1>2, <2>1 DEF SqlTypeOK, SqlInv
<1>4. TurnOK'
  <2>1. file \in 1..N /\ table.types = FileTypes(file).types
    BY DEF SqlInv, TurnOK
  <2>2. (table.types = FileTypes(file).types)'
    BY <1>2, <2>1, SameFile
  <2>3. IsSeq(holder)' /\ Len(holder') = Slots'
    BY SameCommand DEF IsSeq
  <2> QED BY <1>1, <1>2, <2>1, <2>2, <2>3 DEF TurnOK
<1>5. SessionOK' /\ TransactionsClosed'
  BY <1>1, SameCommand DEF SessionOK, TransactionsClosed
<1> QED BY <1>2, <1>3, <1>4, <1>5 DEF SqlInv

-------------------------------------------------------------------------------
(* The steps, an action or a few that end alike at a time.                   *)

LEMMA Types ==
  ASSUME SqlInv
  PROVE  /\ file \in 1..(N + 1) /\ file_no \in 0..file
         /\ row \in Nat /\ offset \in Nat /\ script \in Nat /\ unwinding \in BOOLEAN
         /\ tx \in {"none", "open", "aborted"}
         /\ IsSeq(pending) /\ IsSeq(committed) /\ IsSeq(View)
         /\ file \in Nat /\ file_no \in Nat /\ file_no <= file
<1>1. file \in 1..(N + 1) /\ file_no \in 0..file
  BY DEF SqlInv, SqlTypeOK
<1>2. file \in Nat /\ file_no \in Nat /\ file_no <= file
  BY <1>1, Constants
<1>3. IsSeq(View)
  BY IsSeqConcat DEF SqlInv, LogsOK, View
<1> QED BY <1>1, <1>2, <1>3 DEF SqlInv, SqlTypeOK, LogsOK

\* Whatever closes the session leaves nothing behind.
LEMMA CloseStep ==
  ASSUME SqlInv, UNCHANGED Command, UNCHANGED Position, UNCHANGED Buffer,
         NEW end \in Ended, Close(end), script' \in Nat, unwinding' \in BOOLEAN
  PROVE  SqlInv'
<1>1. at' \in Ended /\ tx' = "none" /\ pending' = <<>> /\ IsSeq(committed')
  BY Types DEF Close
<1>2. file' = file /\ file_no' = file_no /\ row' = row /\ offset' = offset
  BY DEF Position, Buffer
<1>3. at' \notin {"compose", "create", "insert"}
  BY <1>1 DEF Ended
<1> QED BY <1>1, <1>2, <1>3, Types, AtRest

LEMMA FailStep ==
  ASSUME SqlInv,
         ComposeFails \/ CreateFails \/ Rethrow \/ QueryFails \/ Crash
  PROVE  SqlInv'
<1>1. \/ Close("failed") /\ OnlySession
      \/ Close("crashed") /\ OnlySession
  BY DEF ComposeFails, CreateFails, Rethrow, QueryFails, Crash
<1>2. /\ UNCHANGED Command /\ UNCHANGED Position /\ UNCHANGED Buffer
      /\ script' = script /\ unwinding' = unwinding
  BY <1>1 DEF OnlySession, Loading
<1>3. "failed" \in Ended /\ "crashed" \in Ended
  BY DEF Ended
<1>4. script' \in Nat /\ unwinding' \in BOOLEAN
  BY <1>2, Types
<1> QED BY <1>1, <1>2, <1>3, <1>4, CloseStep

\* What is neither a transaction nor a position among the rows.
LEMMA NoTransaction ==
  ASSUME SqlInv, at \notin {"before", "rows", "after"}
  PROVE  tx = "none" /\ pending = <<>>
BY DEF SqlInv, TransactionsClosed

LEMMA CheckStep ==
  ASSUME SqlInv, Check
  PROVE  SqlInv'
<1>1. /\ at = "check" /\ at' \in {"compose", "failed"}
      /\ UNCHANGED <<script, unwinding>> /\ UNCHANGED Command
      /\ UNCHANGED Position /\ UNCHANGED Buffer /\ UNCHANGED Session
  BY DEF Check, OnlySession, Loading
<1>2. tx = "none" /\ pending = <<>>
  BY <1>1, NoTransaction
<1>3. file_no < file
  BY <1>1 DEF SqlInv, TurnOK
<1>4. /\ UNCHANGED <<script, unwinding, file, file_no, row, offset, tx, pending, committed>>
  BY <1>1 DEF Position, Buffer, Session
<1>5. at' \in Resting \cup Ended
  BY <1>1 DEF Resting, Ended
<1> QED BY <1>1, <1>2, <1>3, <1>4, <1>5, Types, AtRest

LEMMA ComposeNoBodyStep ==
  ASSUME SqlInv, ComposeNoBody
  PROVE  SqlInv'
<1>1. /\ at = "compose" /\ file <= N
      /\ UNCHANGED <<file_no, table, script, unwinding, row, offset>>
      /\ UNCHANGED Command /\ UNCHANGED Buffer
  BY DEF ComposeNoBody, Buffer
<1>2. tx = "none" /\ pending = <<>> /\ file_no < file
  BY <1>1, NoTransaction DEF SqlInv, TurnOK
<1>3. CASE Close("failed") /\ UNCHANGED file
  <2>1. UNCHANGED Position /\ "failed" \in Ended
    BY <1>1, <1>3 DEF Position, Ended
  <2> QED BY <1>1, <1>3, <2>1, Types, CloseStep
<1>4. CASE NextReader /\ UNCHANGED at /\ UNCHANGED Session
  <2>1. file' = file + 1 /\ at' = "compose" /\ UNCHANGED <<tx, pending, committed>>
    BY <1>1, <1>4 DEF NextReader, Session
  <2>2. file' \in 1..(N + 1) /\ file_no' \in 0..file' /\ file_no' < file'
    BY <1>1, <1>2, <2>1, Types, Constants
  <2>3. at' \in Resting \cup Ended
    BY <2>1 DEF Resting
  <2> QED BY <1>1, <1>2, <2>1, <2>2, <2>3, Types, AtRest
<1> QED BY <1>3, <1>4 DEF ComposeNoBody

LEMMA ComposeStep ==
  ASSUME SqlInv, Compose
  PROVE  SqlInv'
<1>1. /\ at = "compose" /\ file <= N
      /\ UNCHANGED <<script, unwinding, row, offset>>
      /\ UNCHANGED Command /\ UNCHANGED Buffer
      /\ file_no' = file_no + 1 /\ table'.types = FileTypes(file).types
  BY DEF Compose, Buffer, Composed
<1>2. tx = "none" /\ pending = <<>> /\ file_no < file
  BY <1>1, NoTransaction DEF SqlInv, TurnOK
<1>3. CASE /\ file' = file + 1 /\ UNCHANGED at /\ UNCHANGED <<tx, pending>>
           /\ committed' = Append(committed, Created(file, table'.name))
  <2>1. IsSeq(committed')
    BY <1>3, Types, IsSeqAppend
  <2>2. file' \in 1..(N + 1) /\ file_no' \in 0..file' /\ file_no' < file'
    BY <1>1, <1>2, <1>3, Types, Constants
  <2>3. at' = "compose" /\ at' \in Resting \cup Ended
    BY <1>1, <1>3 DEF Resting
  <2> QED BY <1>1, <1>2, <1>3, <2>1, <2>2, <2>3, Types, AtRest
<1>4. CASE at' = "create" /\ UNCHANGED file /\ UNCHANGED Session
  <2>1. UNCHANGED <<tx, pending, committed>>
    BY <1>4 DEF Session
  <2>2. file' \in 1..N /\ file' \in 1..(N + 1) /\ file_no' \in 0..file'
    BY <1>1, <1>2, <1>4, Types, Constants
  <2>3. (table.types = FileTypes(file).types)'
    BY <1>1, <1>4, SameFile
  <2>4. at' \in Resting \cup Ended
    BY <1>4 DEF Resting
  <2> QED BY <1>1, <1>2, <1>4, <2>1, <2>2, <2>3, <2>4, Types, AtRest
<1> QED BY <1>3, <1>4 DEF Compose

\* What a statement of the user's leaves in the log.
LEMMA ResultIsSeq ==
  ASSUME NEW s
  PROVE  IsSeq(Result(s))
<1>1. \A e : IsSeq(<<e>>)
  BY DEF IsSeq
<1> QED BY <1>1, IsSeqEmpty DEF Result

LEMMA QueryStep ==
  ASSUME SqlInv, ComposedAll \/ Query \/ QueryHeader \/ NoQuery
  PROVE  SqlInv'
<1>1. at \in {"compose", "query", "header"} /\ at' \in {"query", "header", "done"}
  BY DEF ComposedAll, Query, QueryHeader, NoQuery, Asking
<1>2. tx = "none" /\ pending = <<>>
  BY <1>1, NoTransaction
<1>3. /\ UNCHANGED <<tx, pending, unwinding, file, file_no, row, offset>>
      /\ UNCHANGED Command
      /\ script' \in {1, script, script + 1}
  BY DEF ComposedAll, Query, QueryHeader, NoQuery, Loading, OnlySession, Session,
         Position, Buffer
<1>4. IsSeq(committed')
  <2>1. \A s : IsSeq(Result(s))
    BY ResultIsSeq
  <2>2. committed' = committed \/ \E s : committed' = committed \o Result(s)
    BY DEF ComposedAll, Query, QueryHeader, NoQuery, OnlySession, Session
  <2> QED BY <2>1, <2>2, Types, IsSeqConcat
<1>5. at' \in Resting \cup Ended /\ at' \notin {"compose", "create", "insert"}
  BY <1>1 DEF Resting, Ended
<1>6. script' \in Nat
  BY <1>3, Types
<1> QED BY <1>2, <1>3, <1>4, <1>5, <1>6, Types, AtRest

LEMMA WithFileFacts ==
  ASSUME SqlInv, at \in WithFile
  PROVE  /\ file \in 1..N /\ table.types = FileTypes(file).types
         /\ file \in File /\ Len(keys[file]) \in Nat
         /\ Slots \in Nat \ {0}
         /\ file + 1 \in 1..(N + 1) /\ file_no \in 0..(file + 1) /\ file_no < file + 1
<1>1. file \in 1..N /\ table.types = FileTypes(file).types
  BY DEF SqlInv, TurnOK
<1>2. file + 1 \in 1..(N + 1) /\ file_no \in 0..(file + 1) /\ file_no < file + 1
  BY <1>1, Types, Constants
<1> QED BY <1>1, <1>2, Constants, ChosenFacts DEF SqlInv

\* On to the next file, from the end of a transaction.
LEMMA NextFileStep ==
  ASSUME SqlInv, at \in WithFile, UNCHANGED Command, UNCHANGED file_no, NextFile,
         row' \in Nat, offset' \in Nat, script' \in Nat, unwinding' \in BOOLEAN,
         tx' = "none", pending' = <<>>, IsSeq(committed')
  PROVE  SqlInv'
<1>1. at' = "compose" /\ file' = file + 1
  BY DEF NextFile
<1>2. file' \in 1..(N + 1) /\ file_no' \in 0..file' /\ file_no' < file'
  BY <1>1, WithFileFacts
<1>3. at' \in Resting \cup Ended
  BY <1>1 DEF Resting
<1> QED BY <1>1, <1>2, <1>3, AtRest

\* On to a phase of the same file, from the end of a transaction.
LEMMA SameFileStep ==
  ASSUME SqlInv, at \in WithFile, UNCHANGED Command, UNCHANGED Position,
         at' \in {"insert", "thrown"},
         row' \in Nat, offset' \in Nat, script' \in Nat, unwinding' \in BOOLEAN,
         tx' = "none", pending' = <<>>, IsSeq(committed')
  PROVE  SqlInv'
<1>1. UNCHANGED <<file, file_no, table>>
  BY DEF Position
<1>2. file' \in 1..N /\ file' \in 1..(N + 1) /\ file_no' \in 0..file'
  BY <1>1, WithFileFacts, Types
<1>3. (table.types = FileTypes(file).types)'
  BY <1>1, WithFileFacts, SameFile
<1>4. at' \in Resting \cup Ended /\ at' # "compose"
  BY DEF Resting
<1> QED BY <1>2, <1>3, <1>4, AtRest

LEMMA CreateStep ==
  ASSUME SqlInv, Create
  PROVE  SqlInv'
<1>1. /\ at = "create" /\ at \in WithFile
      /\ UNCHANGED <<file_no, table, tx, pending, unwinding, row, offset>>
      /\ UNCHANGED Command /\ script' = 0 /\ script' \in Nat
  BY DEF Create, Buffer, WithFile
<1>2. tx = "none" /\ pending = <<>>
  BY <1>1, NoTransaction
<1>3. IsSeq(committed')
  BY Types, IsSeqAppend DEF Create
<1>4. CASE NextFile
  BY <1>1, <1>2, <1>3, <1>4, Types, NextFileStep
<1>5. CASE UNCHANGED file /\ at' = "insert"
  BY <1>1, <1>2, <1>3, <1>5, Types, SameFileStep DEF Position
<1>6. CASE UNCHANGED file /\ at' = "before" /\ ~Autocommit
  BY <1>1, <1>2, <1>3, <1>6, Types, IsSeqEmpty, AmongStatements DEF Position
<1> QED BY <1>4, <1>5, <1>6 DEF Create, AfterCreate

LEMMA BeginTypes ==
  ASSUME SqlInv, Begin
  PROVE  /\ tx' \in {"none", "open", "aborted"}
         /\ IsSeq(pending') /\ IsSeq(committed')
         /\ Autocommit => UNCHANGED <<tx, pending, committed>>
         /\ ~Autocommit => tx' = "open" /\ (pending' = pending \/ pending' = <<>>)
<1>1. \/ Autocommit /\ UNCHANGED Session
      \/ ~Autocommit /\ tx' = "open" /\ committed' = View /\ pending' = <<>>
      \/ ~Autocommit /\ tx' = "open" /\ UNCHANGED <<committed, pending>>
  BY DEF Begin, Autocommit
<1> QED BY <1>1, Types, IsSeqEmpty DEF Session

LEMMA WriteTypes ==
  ASSUME SqlInv, NEW effects, IsSeq(effects), Write(effects)
  PROVE  /\ tx' = tx /\ IsSeq(pending') /\ IsSeq(committed')
         /\ Autocommit => pending' = <<>> /\ committed' = View \o effects
         /\ ~Autocommit => pending' = pending \o effects /\ committed' = committed
BY Types, IsSeqConcat, IsSeqEmpty DEF Write

LEMMA BeginScriptStep ==
  ASSUME SqlInv, BeginScript
  PROVE  SqlInv'
<1>1. /\ at \in {"before", "after"} /\ at \in WithFile /\ script = 0
      /\ UNCHANGED unwinding /\ UNCHANGED Command /\ UNCHANGED Position /\ UNCHANGED Buffer
      /\ UNCHANGED <<row, offset>>
  BY DEF BeginScript, InScript, Loading, WithFile, Buffer
<1>2. CASE Begin /\ script' = 1 /\ UNCHANGED at
  <2>1. /\ Autocommit => tx = "none"
        /\ at = "before" => ~Autocommit
        /\ at = "after" => args.after # <<>>
    BY DEF SqlInv, SessionOK
  <2>2. at' = "before" => ~Autocommit /\ (tx' = "none" <=> script' = 0)
    BY <1>2, <2>1, BeginTypes
  <2>3. Autocommit => tx' = "none" /\ (pending' # <<>> => script' <= 1)
    BY <1>2, <2>1, BeginTypes
  <2> QED BY <1>1, <1>2, <2>1, <2>2, <2>3, Types, BeginTypes, AmongStatements
<1>3. CASE Thrown /\ UNCHANGED script
  <2>1. PICK end \in Ended : Close(end)
    BY <1>3 DEF Thrown, Ended
  <2> QED BY <1>1, <1>3, <2>1, Types, CloseStep
<1> QED BY <1>2, <1>3 DEF BeginScript

LEMMA ScriptStepStep ==
  ASSUME SqlInv, ScriptStep
  PROVE  SqlInv'
<1>1. /\ at \in {"before", "after"} /\ at \in WithFile /\ script \in DOMAIN Script
      /\ UNCHANGED unwinding /\ UNCHANGED Command /\ UNCHANGED Position /\ UNCHANGED Buffer
      /\ UNCHANGED <<row, offset>>
  BY DEF ScriptStep, InScript, Loading, WithFile, Buffer
<1> DEFINE effects == Result(Script[script])
<1>2. CASE Write(effects) /\ script' = script + 1 /\ UNCHANGED at
  <2>1. /\ Autocommit => tx = "none"
        /\ at = "before" => ~Autocommit
        /\ at = "after" => args.after # <<>>
    BY DEF SqlInv, SessionOK
  <2>2. IsSeq(effects)
    BY ResultIsSeq
  <2> HIDE DEF effects
  <2>3. script # 0 /\ script' # 0 /\ script' \in Nat
    <3>1. Script \in Seq({"write", "read", "empty", "bad"})
      BY ChosenFacts DEF Script, SqlInv
    <3>2. script \in 1..Len(Script) /\ Len(Script) \in Nat
      BY <1>1, <3>1, SeqIsSeq
    <3> QED BY <1>2, <3>2
  <2>4. /\ tx' = tx /\ IsSeq(pending') /\ IsSeq(committed')
        /\ Autocommit => pending' = <<>>
    BY <1>2, <2>2, WriteTypes
  <2>5. at = "before" => tx # "none"
    BY <2>3 DEF SqlInv, TransactionsClosed
  <2> QED BY <1>1, <1>2, <2>1, <2>3, <2>4, <2>5, Types, AmongStatements
<1>3. CASE Thrown /\ UNCHANGED script
  <2>1. PICK end \in Ended : Close(end)
    BY <1>3 DEF Thrown, Ended
  <2> QED BY <1>1, <1>3, <2>1, Types, CloseStep
<1> QED BY <1>2, <1>3 DEF ScriptStep

LEMMA EndBeforeStep ==
  ASSUME SqlInv, EndBefore
  PROVE  SqlInv'
<1>1. /\ at = "before" /\ at \in WithFile /\ at' = "insert"
      /\ UNCHANGED <<script, unwinding, row, offset>>
      /\ UNCHANGED Command /\ UNCHANGED Position
      /\ tx' = "none" /\ committed' = View /\ pending' = <<>>
  BY DEF EndBefore, OnlySession, Loading, WithFile, Buffer, Commit
<1> QED BY <1>1, Types, SameFileStep

LEMMA EndAfterStep ==
  ASSUME SqlInv, EndAfter
  PROVE  SqlInv'
<1>1. /\ at = "after" /\ at \in WithFile /\ script > Len(args.after)
      /\ UNCHANGED <<file_no, table, script, unwinding, row, offset>> /\ UNCHANGED Command
  BY DEF EndAfter, WithFile, Buffer
<1>2. script > 1
  <2>1. args.after # <<>> /\ args.after \in Seq({"write", "read", "empty", "bad"})
    BY <1>1, ChosenFacts DEF SqlInv, SessionOK
  <2>2. Len(args.after) \in Nat /\ Len(args.after) # 0
    BY <2>1, EmptySeq, LenProperties
  <2> QED BY <1>1, <2>2, Types
<1>3. tx' = "none" /\ pending' = <<>> /\ IsSeq(committed')
  <2>1. CASE Autocommit
    <3>1. tx = "none" /\ pending = <<>>
      <4>1. ~(script <= 1)
        BY <1>2, Types
      <4> QED BY <2>1, <4>1 DEF SqlInv, SessionOK
    <3>2. UNCHANGED <<tx, pending, committed>>
      BY <2>1 DEF EndAfter, Session
    <3> QED BY <3>1, <3>2, Types
  <2>2. CASE ~Autocommit
    BY <2>2, Types DEF EndAfter, Commit
  <2> QED BY <2>1, <2>2
<1>4. CASE at' = "thrown" /\ UNCHANGED file
  BY <1>1, <1>3, <1>4, Types, SameFileStep DEF Position
<1>5. CASE NextFile
  BY <1>1, <1>3, <1>5, Types, NextFileStep
<1> QED BY <1>4, <1>5 DEF EndAfter

-------------------------------------------------------------------------------
(* The insertion.                                                            *)

\* What an exception leaves to the statements after.
LEMMA ToAfter ==
  ASSUME SqlInv, at \in {"insert", "rows"}, UNCHANGED Command, UNCHANGED Position,
         at' = "after", args.after # <<>>, script' = 0,
         row' \in Nat, offset' \in Nat, unwinding' \in BOOLEAN,
         tx' \in {"none", "open", "aborted"}, Autocommit => tx' = "none",
         IsSeq(pending'), IsSeq(committed')
  PROVE  SqlInv'
BY AmongStatements DEF WithFile

LEMMA UnwindStep ==
  ASSUME SqlInv, at = "rows", UNCHANGED Command, UNCHANGED Position,
         NEW effects, IsSeq(effects), Unwind(effects),
         row' \in Nat, offset' \in Nat
  PROVE  SqlInv'
<1>1. /\ unwinding' \in BOOLEAN /\ script' = 0
      /\ IsSeq(View \o effects) /\ IsSeq(pending \o effects)
  BY Types, IsSeqConcat DEF Unwind
<1>2. CASE args.after = <<>>
  <2>1. /\ at' = "failed" /\ tx' = "none" /\ pending' = <<>> /\ IsSeq(committed')
    BY <1>1, <1>2, Types DEF Unwind
  <2>2. file' = file /\ file_no' = file_no /\ at' \in Resting \cup Ended
    BY <2>1 DEF Position, Ended
  <2> QED BY <1>1, <2>1, <2>2, Types, AtRest
<1>3. CASE args.after # <<>>
  <2>1. at' = "after" /\ Refuse(effects)
    BY <1>3 DEF Unwind
  <2>2. /\ tx' \in {"none", "open", "aborted"} /\ (Autocommit => tx' = "none")
        /\ IsSeq(pending') /\ IsSeq(committed')
    <3>1. Autocommit => tx = "none" /\ args.db # "postgresql"
      BY DEF SqlInv, SessionOK, Autocommit
    <3> QED BY <1>1, <2>1, <3>1, Types DEF Refuse
  <2> QED BY <1>1, <1>3, <2>1, <2>2, ToAfter
<1> QED BY <1>2, <1>3

LEMMA FailedInsertStep ==
  ASSUME SqlInv, InsertFails \/ ReadFails
  PROVE  SqlInv'
<1>1. /\ at \in {"insert", "rows"}
      /\ UNCHANGED Command /\ UNCHANGED Position /\ UNCHANGED Buffer
      /\ UNCHANGED <<row, offset>> /\ unwinding' = TRUE /\ script' = 0
  BY DEF InsertFails, ReadFails, Loading, Buffer
<1>2. CASE args.after = <<>>
  <2>1. Close("failed") /\ "failed" \in Ended
    BY <1>2 DEF InsertFails, ReadFails, Ended
  <2> QED BY <1>1, <2>1, CloseStep
<1>3. CASE args.after # <<>>
  <2>1. Autocommit => tx = "none" /\ args.db # "postgresql"
    BY DEF SqlInv, SessionOK, Autocommit
  <2>2. /\ at' = "after" /\ UNCHANGED <<pending, committed>>
        /\ tx' \in {tx, "aborted", "open"} /\ (Autocommit => tx' = tx)
    <3>1. CASE InsertFails
      <4>1. /\ at' = "after" /\ UNCHANGED <<pending, committed>>
            /\ tx' = CASE Autocommit -> tx
                       [] args.db = "postgresql" -> "aborted"
                       [] OTHER -> "open"
        BY <1>3, <3>1 DEF InsertFails
      <4>2. Autocommit \/ (~Autocommit /\ args.db = "postgresql")
              \/ (~Autocommit /\ args.db # "postgresql")
        OBVIOUS
      <4> QED BY <2>1, <4>1, <4>2
    <3>2. CASE ReadFails
      BY <1>3, <3>2 DEF ReadFails, Session
    <3> QED BY <3>1, <3>2
  <2> QED BY <1>1, <1>3, <2>1, <2>2, Types, ToAfter
<1> QED BY <1>2, <1>3

LEMMA InsertStep ==
  ASSUME SqlInv, Insert
  PROVE  SqlInv'
<1>1. /\ at = "insert" /\ at \in WithFile /\ at' = "rows" /\ Begin
      /\ row' = 0 /\ offset' = 0 /\ holder' = [i \in 1..Slots |-> <<>>]
      /\ UNCHANGED <<script, unwinding>> /\ UNCHANGED Command /\ UNCHANGED Position
  BY DEF Insert, WithFile
<1>2. tx = "none" /\ pending = <<>>
  BY <1>1, NoTransaction
<1>3. IsSeq(holder') /\ Len(holder') = Slots
  BY <1>1, WithFileFacts, IsSeqFunction
<1>4. /\ tx' \in {"none", "open", "aborted"} /\ (tx' = "none" <=> Autocommit)
      /\ IsSeq(pending') /\ IsSeq(committed') /\ pending' = <<>>
  BY <1>1, <1>2, BeginTypes
<1>5. BufferHolds'
  <2>1. 0 < Slots' /\ 0 <= Len(keys[file])'
    <3>1. 0 < Slots /\ 0 <= Len(keys[file])
      BY <1>1, WithFileFacts
    <3> QED BY <1>1, <3>1, SameCommand DEF Position
  <2>2. Sent' = 0
    BY <1>1 DEF Sent
  <2>3. Len(LogOfRows') >= 0 /\ Len(pending') = 0
    BY <1>4, IsSeqFacts, IsSeqEmpty DEF LogOfRows
  <2> QED BY <1>1, <2>1, <2>2, <2>3 DEF BufferHolds
<1> QED BY <1>1, <1>3, <1>4, <1>5, Types, AmongRows

LEMMA EffectsFacts ==
  ASSUME NEW batch, IsSeq(batch)
  PROVE  /\ IsSeq(Effects(batch)) /\ Len(Effects(batch)) = Len(batch)
         /\ \A i \in 1..Len(batch) : Effects(batch)[i] = Effect("row", table.name, batch[i])
<1>1. Len(batch) \in Nat /\ DOMAIN batch = 1..Len(batch)
  BY IsSeqFacts
<1>2. Effects(batch) = [i \in 1..Len(batch) |-> Effect("row", table.name, batch[i])]
  BY <1>1 DEF Effects
<1>3. Effects(batch) = [i \in 1..Len(batch) |-> Effects(batch)[i]]
  BY <1>2
<1> QED BY <1>1, <1>2, <1>3, IsSeqFunction

\* A batch the database refuses a row of destroys the inserter.
LEMMA RefusedStep ==
  ASSUME SqlInv, at = "rows", UNCHANGED Command, UNCHANGED Position,
         NEW batch, IsSeq(batch), Refused(batch) # {}, Execute(batch),
         row' \in Nat, offset' \in Nat
  PROVE  SqlInv'
<1>1. PICK first \in Refused(batch) : Unwind(Effects(SubSeq(batch, 1, first - 1)))
  BY DEF Execute
<1>2. IsSeq(SubSeq(batch, 1, first - 1))
  <2>1. first \in 1..Len(batch) /\ Len(batch) \in Nat
    BY IsSeqFacts DEF Refused
  <2>2. first - 1 \in 0..Len(batch)
    BY <2>1
  <2> QED BY <2>2, IsSeqPrefix
<1> QED BY <1>1, <1>2, EffectsFacts, UnwindStep

\* What BufferHolds says of the log, for n rows of the file sent.
Logged(log, n) ==
  /\ Len(log) >= n
  /\ \A i \in 1..n : log[Len(log) - n + i] = Inserted(file, table.name, BodyRows(file)[i])

LEMMA LoggedMore ==
  ASSUME NEW log, IsSeq(log), NEW n \in Nat, Logged(log, n),
         NEW effects, IsSeq(effects),
         \A i \in 1..Len(effects) :
           effects[i] = Inserted(file, table.name, BodyRows(file)[n + i])
  PROVE  /\ Len(log \o effects) = Len(log) + Len(effects)
         /\ Logged(log \o effects, n + Len(effects))
<1> DEFINE k == Len(effects)
           more == log \o effects
<1>1. Len(log) \in Nat /\ k \in Nat /\ Len(log) >= n
  BY IsSeqFacts DEF Logged
<1>2. /\ Len(more) = Len(log) + k
      /\ \A i \in 1..Len(log) : more[i] = log[i]
      /\ \A i \in 1..k : more[Len(log) + i] = effects[i]
  BY IsSeqConcat
<1> HIDE DEF more
<1>3. ASSUME NEW i \in 1..(n + k)
      PROVE  more[Len(more) - (n + k) + i] = Inserted(file, table.name, BodyRows(file)[i])
  <2>1. CASE i <= n
    <3>1. /\ i \in 1..n /\ Len(log) - n + i \in 1..Len(log)
          /\ Len(more) - (n + k) + i = Len(log) - n + i
      BY <1>1, <1>2, <2>1
    <3>2. log[Len(log) - n + i] = Inserted(file, table.name, BodyRows(file)[i])
      BY <3>1 DEF Logged
    <3>3. more[Len(log) - n + i] = log[Len(log) - n + i]
      BY <1>2, <3>1
    <3> QED BY <3>1, <3>2, <3>3
  <2>2. CASE i > n
    <3>1. /\ i - n \in 1..k /\ n + (i - n) = i
          /\ Len(more) - (n + k) + i = Len(log) + (i - n)
      BY <1>1, <1>2, <2>2
    <3>2. more[Len(log) + (i - n)] = effects[i - n]
      BY <1>2, <3>1
    <3>3. effects[i - n] = Inserted(file, table.name, BodyRows(file)[n + (i - n)])
      BY <3>1
    <3> QED BY <3>1, <3>2, <3>3
  <2> QED BY <1>1, <2>1, <2>2
<1>4. Len(more) >= n + k
  BY <1>1, <1>2
<1> QED BY <1>2, <1>3, <1>4 DEF Logged, more

LEMMA BufferFacts ==
  ASSUME SqlInv, at = "rows"
  PROVE  /\ offset < Slots /\ offset <= row /\ row <= Len(keys[file])
         /\ Sent \in Nat /\ Sent + offset = row
         /\ \A i \in 1..offset :
              holder[i] = BoundRow(file, table.types, BodyRows(file)[Sent + i])
         /\ Logged(LogOfRows, Sent) /\ (~Autocommit => Len(pending) = Sent)
         /\ IsSeq(holder) /\ DOMAIN holder = 1..Slots /\ Len(holder) = Slots
         /\ (tx = "none" <=> Autocommit)
         /\ Autocommit => pending = <<>>
<1>1. IsSeq(holder) /\ DOMAIN holder = 1..Slots /\ Len(holder) = Slots
  BY IsSeqFacts DEF SqlInv, TurnOK
<1>2. /\ (tx = "none" <=> Autocommit)
      /\ Autocommit => pending = <<>>
  BY DEF SqlInv, TransactionsClosed, SessionOK
<1>3. BufferHolds
  BY DEF SqlInv
<1>4. Sent \in Nat /\ Sent + offset = row
  BY <1>3, Types DEF BufferHolds, Sent
<1> QED BY <1>1, <1>2, <1>3, <1>4 DEF BufferHolds, Logged

\* The same of the state after a step that keeps the command and the file.
LEMMA BufferAfter ==
  ASSUME UNCHANGED Command, UNCHANGED Position,
         NEW sent \in Nat, row' - offset' = sent,
         offset' < Slots, offset' <= row', row' <= Len(keys[file]),
         \A i \in 1..offset' :
           holder'[i] = BoundRow(file, table.types, BodyRows(file)[sent + i]),
         Logged(LogOfRows', sent), ~Autocommit => Len(pending') = sent
  PROVE  BufferHolds'
<1>1. file' = file /\ table' = table /\ args' = args /\ keys' = keys /\ Slots' = Slots
      /\ (Autocommit' <=> Autocommit)
  BY SameCommand DEF Position
<1>2. BodyRows(file)' = BodyRows(file)
  BY <1>1, SameFile
<1>3. Sent' = sent
  BY DEF Sent
<1>4. ASSUME NEW r
      PROVE  /\ BoundRow(file, table.types, r)' = BoundRow(file, table.types, r)
             /\ Inserted(file, table.name, r)' = Inserted(file, table.name, r)
  <2>1. FileTypes(file)' = FileTypes(file)
    BY <1>1, SameFile
  <2>2. ASSUME NEW types
        PROVE  BoundRow(file, types, r)' = BoundRow(file, types, r)
    <3>1. \A cell : Value(cell)' = Value(cell)
      BY <1>1 DEF Value, Body
    <3>2. \A type, cell : Bound(type, cell)' = Bound(type, cell)
      BY <3>1 DEF Bound, IsNullCell, NotNumeric
    <3> QED BY <1>1, <3>2 DEF BoundRow
  <2> QED BY <1>1, <2>1, <2>2 DEF Inserted, Effect
<1>5. /\ offset' < Slots' /\ offset' <= row' /\ row' <= Len(keys[file])'
      /\ (~Autocommit => Len(pending) = Sent)'
      /\ Len(LogOfRows') >= Sent'
  <2>1. (~Autocommit => Len(pending) = Sent)'
    BY <1>1, <1>3
  <2>2. Len(LogOfRows') >= Sent'
    BY <1>3 DEF Logged
  <2>3. row' <= Len(keys[file])'
    BY <1>1
  <2> QED BY <1>1, <2>1, <2>2, <2>3
<1>6. (\A i \in 1..offset :
        holder[i] = BoundRow(file, table.types, BodyRows(file)[Sent + i]))'
  BY <1>1, <1>2, <1>3, <1>4
<1>7. (\A i \in 1..Sent :
         LogOfRows[Len(LogOfRows) - Sent + i] = Inserted(file, table.name, BodyRows(file)[i]))'
  BY <1>1, <1>2, <1>3, <1>4 DEF Logged
<1> QED BY <1>5, <1>6, <1>7 DEF BufferHolds

\* The row is in its slot.
LEMMA RowRead ==
  ASSUME SqlInv, ReadRow
  PROVE  /\ at = "rows" /\ at \in WithFile /\ row < Len(keys[file]) /\ row' = row + 1
         /\ UNCHANGED Command /\ UNCHANGED Position
         /\ Slots \in Nat \ {0} /\ offset \in Nat /\ row \in Nat /\ Len(keys[file]) \in Nat
         /\ Sent \in Nat /\ Sent + offset = row /\ offset + 1 \in 1..Slots
         /\ row' \in Nat /\ row' <= Len(keys[file])
         /\ IsSeq(holder') /\ Len(holder') = Slots
         /\ \A i \in 1..(offset + 1) :
              holder'[i] = BoundRow(file, table.types, BodyRows(file)[Sent + i])
<1>1. /\ at = "rows" /\ at \in WithFile /\ row < Len(keys[file]) /\ row' = row + 1
      /\ holder' = [holder EXCEPT ![offset + 1] = BoundRow(file, table.types, Current)]
      /\ UNCHANGED Command /\ UNCHANGED Position
  BY DEF ReadRow, WithFile
<1>2. /\ Slots \in Nat \ {0} /\ offset \in Nat /\ row \in Nat /\ Len(keys[file]) \in Nat
      /\ Sent \in Nat /\ Sent + offset = row /\ offset + 1 \in 1..Slots
      /\ row' \in Nat /\ row' <= Len(keys[file])
  BY <1>1, WithFileFacts, BufferFacts, Types
<1>3. /\ IsSeq(holder') /\ Len(holder') = Slots
      /\ \A i \in 1..(offset + 1) :
           holder'[i] = BoundRow(file, table.types, BodyRows(file)[Sent + i])
  <2>1. IsSeq(holder) /\ DOMAIN holder = 1..Slots /\ Len(holder) = Slots
    BY <1>1, BufferFacts
  <2>2. /\ IsSeq(holder') /\ Len(holder') = Slots
        /\ \A i \in 1..Slots :
             holder'[i] = IF i = offset + 1 THEN BoundRow(file, table.types, Current) ELSE holder[i]
    <3> DEFINE bound == BoundRow(file, table.types, Current)
               slots == [holder EXCEPT ![offset + 1] = bound]
    <3>1. slots = holder'
      BY <1>1
    <3> HIDE DEF bound
    <3>2. /\ IsSeq(slots) /\ Len(slots) = Len(holder)
          /\ \A i \in DOMAIN holder : slots[i] = IF i = offset + 1 THEN bound ELSE holder[i]
      BY <1>2, <2>1, IsSeqExcept
    <3> HIDE DEF slots
    <3> QED BY <2>1, <3>1, <3>2 DEF bound
  <2>3. Current = BodyRows(file)[Sent + (offset + 1)]
    <3>1. Sent + (offset + 1) = row + 1
      BY <1>2
    <3> QED BY <3>1 DEF Current
  <2>4. ASSUME NEW i \in 1..(offset + 1)
        PROVE  holder'[i] = BoundRow(file, table.types, BodyRows(file)[Sent + i])
    <3>1. i \in 1..Slots
      BY <1>2
    <3>2. CASE i = offset + 1
      BY <2>2, <2>3, <3>1, <3>2
    <3>3. CASE i # offset + 1
      <4>1. i \in 1..offset
        BY <1>2, <3>3
      <4> QED BY <1>1, <2>2, <3>1, <3>3, <4>1, BufferFacts
    <3> QED BY <3>2, <3>3
  <2> QED BY <2>2, <2>4
<1> QED BY <1>1, <1>2, <1>3

LEMMA ReadRowStep ==
  ASSUME SqlInv, ReadRow
  PROVE  SqlInv'
<1>1. /\ at = "rows" /\ at \in WithFile /\ row < Len(keys[file]) /\ row' = row + 1
      /\ UNCHANGED Command /\ UNCHANGED Position
  BY RowRead
<1>2. /\ Slots \in Nat \ {0} /\ offset \in Nat /\ row \in Nat /\ Len(keys[file]) \in Nat
      /\ Sent \in Nat /\ Sent + offset = row /\ offset + 1 \in 1..Slots
      /\ row' \in Nat /\ row' <= Len(keys[file])
  BY RowRead
<1>3. /\ IsSeq(holder') /\ Len(holder') = Slots
      /\ \A i \in 1..(offset + 1) :
           holder'[i] = BoundRow(file, table.types, BodyRows(file)[Sent + i])
  BY RowRead
<1>4. CASE ~Full(offset + 1)
  <2>1. /\ offset' = offset + 1
        /\ UNCHANGED <<at, script, unwinding, tx, pending, committed>>
    BY <1>4 DEF ReadRow, Session
  <2>2. offset' < Slots /\ offset' <= row' /\ row' - offset' = Sent /\ offset' \in Nat
    BY <1>1, <1>2, <1>4, <2>1 DEF Full
  <2>3. Logged(LogOfRows, Sent) /\ (~Autocommit => Len(pending') = Sent)
    BY <1>1, <2>1, BufferFacts
  <2>4. LogOfRows' = LogOfRows
    BY <1>1, <2>1, SameCommand DEF LogOfRows
  <2>5. BufferHolds'
    BY <1>1, <1>2, <1>3, <2>1, <2>2, <2>3, <2>4, BufferAfter
  <2>6. (tx' = "none" <=> Autocommit) /\ (Autocommit => pending' = <<>>)
    BY <1>1, <2>1, BufferFacts
  <2> QED BY <1>1, <1>2, <1>3, <2>1, <2>2, <2>5, <2>6, Types, AmongRows
<1>5. CASE Full(offset + 1)
  <2> DEFINE batch == Batch(holder', Slots)
             effects == Effects(batch)
  <2>1. /\ IsSeq(batch) /\ Len(batch) = Slots
        /\ \A i \in 1..Slots : batch[i] = holder'[i]
    <3>1. Slots \in 0..Len(holder')
      BY <1>2, <1>3
    <3> QED BY <1>3, <3>1, IsSeqPrefix DEF Batch
  <2>2. /\ offset' = 0 /\ Execute(batch)
        /\ Refused(batch) = {} => UNCHANGED at
    BY <1>5 DEF ReadRow
  <2> HIDE DEF batch
  <2>3. CASE Refused(batch) # {}
    BY <1>1, <1>2, <2>1, <2>2, <2>3, RefusedStep
  <2>4. CASE Refused(batch) = {}
    <3>1. Write(effects) /\ UNCHANGED <<unwinding, script>> /\ at' = "rows"
      BY <1>1, <2>2, <2>4 DEF Execute
    <3>2. /\ IsSeq(effects) /\ Len(effects) = Slots
          /\ \A i \in 1..Slots : effects[i] = Effect("row", table.name, batch[i])
      BY <2>1, EffectsFacts
    <3> HIDE DEF effects
    <3>3. /\ tx' = tx /\ IsSeq(pending') /\ IsSeq(committed')
          /\ Autocommit => pending' = <<>> /\ committed' = View \o effects
          /\ ~Autocommit => pending' = pending \o effects /\ committed' = committed
      BY <3>1, <3>2, WriteTypes
    <3>4. IsSeq(LogOfRows) /\ LogOfRows' = LogOfRows \o effects
      <4>1. Autocommit => View = committed
        <5>1. committed \o <<>> = committed
          BY Types, ConcatEmptySeq DEF IsSeq
        <5> QED BY <1>1, <5>1, BufferFacts DEF View
      <4> QED BY <1>1, <3>3, <4>1, Types, SameCommand DEF LogOfRows
    <3>5. \A i \in 1..Len(effects) :
            effects[i] = Inserted(file, table.name, BodyRows(file)[Sent + i])
      <4>1. \A i \in 1..Slots : i \in 1..(offset + 1)
        BY <1>2, <1>5 DEF Full
      <4>2. table.types = FileTypes(file).types
        BY <1>1, WithFileFacts
      <4> QED BY <1>3, <2>1, <3>2, <4>1, <4>2 DEF Inserted
    <3>6. Logged(LogOfRows', Sent + Slots)
      BY <1>1, <1>2, <3>2, <3>4, <3>5, BufferFacts, LoggedMore
    <3>7. ~Autocommit => Len(pending') = Sent + Slots
      BY <1>1, <3>2, <3>3, Types, IsSeqConcat, BufferFacts
    <3>8. /\ Sent + Slots \in Nat /\ row' - offset' = Sent + Slots
          /\ offset' < Slots /\ offset' <= row' /\ offset' \in Nat
      BY <1>1, <1>2, <1>5, <2>2 DEF Full
    <3>9. \A i \in 1..offset' : FALSE
      BY <2>2
    <3>10. BufferHolds'
      BY <1>1, <1>2, <3>6, <3>7, <3>8, <3>9, BufferAfter
    <3>11. tx' = "none" <=> Autocommit
      BY <1>1, <3>3, BufferFacts
    <3> QED BY <1>1, <1>2, <1>3, <3>1, <3>3, <3>8, <3>10, <3>11, Types, AmongRows
  <2> QED BY <2>3, <2>4
<1> QED BY <1>4, <1>5

LEMMA EndRowsStep ==
  ASSUME SqlInv, EndRows
  PROVE  SqlInv'
<1>1. /\ at = "rows" /\ at \in WithFile
      /\ offset' = 0 /\ UNCHANGED <<row, holder>> /\ UNCHANGED Command
  BY DEF EndRows, WithFile
<1> DEFINE batch == Batch(holder, offset)
<1>2. IsSeq(batch)
  <2>1. IsSeq(holder) /\ offset \in 0..Len(holder)
    BY <1>1, WithFileFacts, BufferFacts, Types
  <2> QED BY <2>1, IsSeqPrefix DEF Batch
<1>3. CASE offset > 0 /\ Refused(batch) # {}
  <2>1. Execute(batch) /\ UNCHANGED Position
    BY <1>3 DEF EndRows
  <2> HIDE DEF batch
  <2> QED BY <1>1, <1>2, <1>3, <2>1, Types, RefusedStep
<1>4. CASE ~(offset > 0 /\ Refused(batch) # {})
  <2> DEFINE rest == IF offset > 0 THEN Effects(batch) ELSE <<>>
  <2>1. /\ tx' = "none" /\ committed' = View \o rest /\ pending' = <<>>
        /\ script' = 0 /\ UNCHANGED <<unwinding, file_no, table>>
        /\ IF args.after = <<>> THEN NextFile ELSE at' = "after" /\ UNCHANGED file
    BY <1>4 DEF EndRows
  <2> HIDE DEF batch
  <2>2. IsSeq(rest)
    BY <1>2, EffectsFacts, IsSeqEmpty
  <2> HIDE DEF rest
  <2>3. IsSeq(committed') /\ IsSeq(pending')
    BY <2>1, <2>2, Types, IsSeqConcat, IsSeqEmpty
  <2>4. CASE args.after = <<>>
    BY <1>1, <2>1, <2>3, <2>4, Types, NextFileStep
  <2>5. CASE args.after # <<>>
    BY <1>1, <2>1, <2>3, <2>5, Types, ToAfter DEF Position
  <2> QED BY <2>4, <2>5
<1> QED BY <1>3, <1>4

-------------------------------------------------------------------------------

LEMMA SqlInvStep == SqlInv /\ [Next]_vars => SqlInv'
<1> SUFFICES ASSUME SqlInv, [Next]_vars PROVE SqlInv'
  OBVIOUS
<1>1. CASE Step
  BY <1>1, CheckStep, ComposeNoBodyStep, FailStep, ComposeStep, QueryStep, CreateStep,
     BeginScriptStep, ScriptStepStep, EndBeforeStep, EndAfterStep, InsertStep,
     FailedInsertStep, ReadRowStep, EndRowsStep DEF Step
<1>2. CASE Crash
  BY <1>2, FailStep
<1>3. CASE UNCHANGED vars
  <2>1. /\ UNCHANGED <<args, keys, at, file, file_no, table, row, holder, offset, script,
                       tx, pending, committed, unwinding>>
        /\ UNCHANGED Command
    BY <1>3 DEF vars, Command
  <2>2. LogsOK' /\ Chosen' /\ SessionOK' /\ SqlTypeOK' /\ TransactionsClosed'
    BY <2>1, SameCommand DEF SqlInv, LogsOK, IsSeq, SessionOK, SqlTypeOK, TransactionsClosed
  <2>3. TurnOK'
    <3>1. FileTypes(file)' = FileTypes(file)
      BY <2>1, SameFile
    <3> QED BY <2>1, <3>1, SameCommand DEF SqlInv, TurnOK, IsSeq
  <2>4. BufferHolds'
    <3>1. CASE at = "rows"
      <4>1. LogOfRows' = LogOfRows /\ row' - offset' = Sent
        BY <2>1, SameCommand DEF LogOfRows, Sent
      <4>2. UNCHANGED Position
        BY <2>1 DEF Position
      <4> QED BY <2>1, <3>1, <4>1, <4>2, BufferFacts, BufferAfter
    <3>2. CASE at # "rows"
      BY <2>1, <3>2 DEF BufferHolds
    <3> QED BY <3>1, <3>2
  <2> QED BY <2>2, <2>3, <2>4 DEF SqlInv
<1> QED BY <1>1, <1>2, <1>3 DEF Next, Finished

LEMMA SqlInvHolds == Spec => []SqlInv
BY SqlInvInit, SqlInvStep, PTL DEF Spec

\* The types of the command's state (csvSql.cpp:479-491, csvsql_soci.cpp:208-309).
THEOREM SqlTypeCorrect == Spec => []SqlTypeOK
<1>1. SqlInv => SqlTypeOK
  BY DEF SqlInv
<1> QED BY <1>1, SqlInvHolds, PTL

\* No row is lost, doubled or reordered between the reader, the slots of the chunk
\* and the log, for every size of a chunk (csvsql_soci.cpp:280-308).
THEOREM BufferAlwaysHolds == Spec => []BufferHolds
<1>1. SqlInv => BufferHolds
  BY DEF SqlInv
<1> QED BY <1>1, SqlInvHolds, PTL

\* No transaction outlives its insertion or its list of statements, whatever fails
\* in it (csvsql_soci.cpp:179-184, 360-378).
THEOREM TransactionsAlwaysClosed == Spec => []TransactionsClosed
<1>1. SqlInv => TransactionsClosed
  BY DEF SqlInv
<1> QED BY <1>1, SqlInvHolds, PTL

-------------------------------------------------------------------------------
(* The abstract specification, AtomicLoad, over the same effects.            *)

\* The abstract specification means the same effects.
LEMMA SameEffects ==
  /\ Atomic!N = N
  /\ (Atomic!Autocommit <=> Autocommit) /\ (Atomic!Inserting <=> Inserting)
  /\ \A f : Atomic!HasBody(f) <=> HasBody(f)
  /\ \A n : Atomic!TableName(n) = TableName(n)
  /\ \A s : Atomic!Result(s) = Result(s)
<1>1. Atomic!N = N
  BY DEF N, Atomic!N
<1>2. (Atomic!Autocommit <=> Autocommit) /\ (Atomic!InMemory <=> InMemory)
  BY DEF Autocommit, Atomic!Autocommit, InMemory, Atomic!InMemory
<1>3. (Atomic!Inserting <=> Inserting)
  BY <1>2 DEF Inserting, Atomic!Inserting
<1>4. \A f : Atomic!HasBody(f) <=> HasBody(f)
  BY DEF HasBody, Atomic!HasBody
<1>5. \A n : Atomic!TableName(n) = TableName(n)
  BY DEF TableName, Atomic!TableName
<1>6. \A s : Atomic!Result(s) = Result(s)
  BY DEF Result, Atomic!Result, Written, Atomic!Written, Effect, Atomic!Effect
<1> QED BY <1>1, <1>2, <1>3, <1>4, <1>5, <1>6

LEMMA SameSequences ==
  /\ \A s : Atomic!FlattenSeq(s) = FlattenSeq(s)
  /\ \A s, t : Atomic!IsPrefix(s, t) <=> IsPrefix(s, t)
  /\ \A s : Atomic!Last(s) = Last(s)
<1>1. \A s : Atomic!FlattenSeq(s) = FlattenSeq(s)
  BY DEF FlattenSeq, Atomic!FlattenSeq
<1>2. \A s, t : Atomic!IsPrefix(s, t) <=> IsPrefix(s, t)
  BY DEF IsPrefix, Atomic!IsPrefix
<1>3. \A s : Atomic!Last(s) = Last(s)
  BY DEF Last, Atomic!Last
<1> QED BY <1>1, <1>2, <1>3

LEMMA SameRows ==
  /\ \A f : Atomic!BodyRows(f) = BodyRows(f)
  /\ \A f, name, r : Atomic!Inserted(f, name, r) = Inserted(f, name, r)
  /\ \A f, name : Atomic!Created(f, name) = Created(f, name)
<1>1. \A f : Atomic!BodyRows(f) = BodyRows(f) /\ Atomic!Width(f) = Width(f)
  BY DEF BodyRows, Atomic!BodyRows, RunRows, Atomic!RunRows, Reader, Atomic!Reader,
         NLines, Atomic!NLines, Line, Atomic!Line, Width, Atomic!Width, Body, Atomic!Body
<1>2. \A cell : Atomic!Value(cell) = Value(cell)
  BY DEF Value, Atomic!Value, Body, Atomic!Body, Pad, Atomic!Pad
<1>3. \A f : Atomic!FileTypes(f) = FileTypes(f)
  <2>1. \A rows, c : Atomic!Column(rows, c) = Column(rows, c)
    BY <1>2 DEF Column, Atomic!Column
  <2>2. \A v : Atomic!Absent(v) <=> Absent(v)
    BY DEF Absent, Atomic!Absent
  <2>3. \A vals : Atomic!TypeOf(vals) = TypeOf(vals)
    BY <2>2 DEF TypeOf, Atomic!TypeOf, Numerals, Atomic!Numerals
  <2>4. \A vals : Atomic!HasBlanks(vals) = HasBlanks(vals)
    BY <2>2 DEF HasBlanks, Atomic!HasBlanks
  <2>5. \A rows, w : Atomic!Typify(rows, w) = Typify(rows, w)
    BY <2>1, <2>3, <2>4 DEF Typify, Atomic!Typify
  <2>6. \A w : Atomic!NoBodyTypes(w) = NoBodyTypes(w)
    BY DEF NoBodyTypes, Atomic!NoBodyTypes
  <2> QED BY <1>1, <2>5, <2>6 DEF FileTypes, Atomic!FileTypes
<1>4. \A f, name, r : Atomic!Inserted(f, name, r) = Inserted(f, name, r)
  <2>1. \A cell : Atomic!IsNullCell(cell) <=> IsNullCell(cell)
    BY <1>2 DEF IsNullCell, Atomic!IsNullCell
  <2>2. \A type, cell : Atomic!Bound(type, cell) = Bound(type, cell)
    BY <1>2, <2>1 DEF Bound, Atomic!Bound, NotNumeric, Atomic!NotNumeric, NULL, Atomic!NULL,
                      Numerals, Atomic!Numerals
  <2>3. \A f, types, r : Atomic!BoundRow(f, types, r) = BoundRow(f, types, r)
    BY <2>2 DEF BoundRow, Atomic!BoundRow
  <2> QED BY <1>3, <2>3 DEF Inserted, Atomic!Inserted, Effect, Atomic!Effect
<1>5. \A f, name : Atomic!Created(f, name) = Created(f, name)
  BY <1>1, <1>3 DEF Created, Atomic!Created, TableColumns, Atomic!TableColumns, Effect, Atomic!Effect
<1> QED BY <1>1, <1>4, <1>5

LEMMA BodyFacts ==
  ASSUME NEW f \in File, Len(keys[f]) \in Nat
  PROVE  IsSeq(BodyRows(f)) /\ Len(BodyRows(f)) = Len(keys[f])
<1>1. SkipLines \in Nat /\ Header \in Nat
  BY TablesAssumption
<1>2. NLines(f) - Body = Len(keys[f])
  BY <1>1 DEF NLines, Body
<1> PICK rows : rows = BodyRows(f)
  OBVIOUS
<1>3. rows = [i \in 1..Len(keys[f]) |-> Line(f, Body + i)]
  BY <1>2 DEF BodyRows, RunRows, Reader
<1>4. rows = [i \in 1..Len(keys[f]) |-> rows[i]]
  BY <1>3
<1> QED BY <1>4, IsSeqFunction

\* The statements of a list that write, one by one.
LEMMA StatementsFacts ==
  ASSUME NEW script_, IsSeq(script_), NEW n \in 0..Len(script_)
  PROVE  /\ IsSeq(Atomic!Statements(SubSeq(script_, 1, n)))
         /\ n = 0 => Atomic!Statements(SubSeq(script_, 1, n)) = <<>>
         /\ n < Len(script_) =>
              Atomic!Statements(SubSeq(script_, 1, n + 1)) =
                Atomic!Statements(SubSeq(script_, 1, n)) \o Result(script_[n + 1])
         /\ IsPrefix(Atomic!Statements(SubSeq(script_, 1, n)), Atomic!Statements(script_))
<1> DEFINE k == Len(script_)
           all == [i \in 1..k |-> Result(script_[i])]
<1>1. k \in Nat /\ DOMAIN script_ = 1..k /\ n \in Nat
  BY IsSeqFacts
<1>2. IsSeq(all) /\ Len(all) = k
  <2>1. all = [i \in 1..k |-> all[i]]
    OBVIOUS
  <2> HIDE DEF all
  <2> QED BY <1>1, <2>1, IsSeqFunction
<1>3. DOMAIN all = 1..k /\ \A i \in 1..k : all[i] = Result(script_[i])
  OBVIOUS
<1>4. \A i \in DOMAIN all : IsSeq(all[i])
  BY <1>3, ResultIsSeq
<1> HIDE DEF all
<1>5. ASSUME NEW m \in 0..k
      PROVE  Atomic!Statements(SubSeq(script_, 1, m)) = FlattenSeq(SubSeq(all, 1, m))
  <2> PICK s : s = SubSeq(script_, 1, m)
    OBVIOUS
  <2>1. IsSeq(s) /\ Len(s) = m /\ (\A i \in 1..m : s[i] = script_[i]) /\ DOMAIN s = 1..m
    BY IsSeqPrefix, IsSeqFacts
  <2>2. m \in Nat /\ \A i \in 1..m : i \in 1..k
    BY <1>1
  <2> DEFINE f == [i \in 1..m |-> Result(s[i])]
  <2>3. f = [i \in DOMAIN s |-> Atomic!Result(s[i])]
    BY <2>1, SameEffects
  <2>4. IsSeq(f) /\ Len(f) = m
    <3>1. f = [i \in 1..m |-> f[i]]
      OBVIOUS
    <3> HIDE DEF f
    <3> QED BY <2>2, <3>1, IsSeqFunction
  <2>5. \A i \in 1..m : f[i] = all[i]
    BY <1>3, <2>1, <2>2
  <2> HIDE DEF f
  <2>6. f = SubSeq(all, 1, m)
    <3>1. /\ IsSeq(SubSeq(all, 1, m)) /\ Len(SubSeq(all, 1, m)) = m
          /\ \A i \in 1..m : SubSeq(all, 1, m)[i] = all[i]
      BY <1>2, IsSeqPrefix
    <3> QED BY <2>4, <2>5, <3>1, IsSeqSame
  <2>7. Atomic!Statements(s) = FlattenSeq(f)
    BY <2>3, SameSequences DEF Atomic!Statements
  <2> QED BY <2>6, <2>7
<1>6. k \in 0..k /\ SubSeq(script_, 1, k) = script_ /\ (n < k => n + 1 \in 0..k /\ n + 1 \in 1..k)
  BY <1>1, WholeIsSubSeq
<1>7. Atomic!Statements(script_) = FlattenSeq(SubSeq(all, 1, k))
  BY <1>5, <1>6
<1>8. /\ IsSeq(FlattenSeq(SubSeq(all, 1, n)))
      /\ n = 0 => FlattenSeq(SubSeq(all, 1, n)) = <<>>
      /\ n < k => FlattenSeq(SubSeq(all, 1, n + 1)) = FlattenSeq(SubSeq(all, 1, n)) \o all[n + 1]
  BY <1>2, <1>4, FlattenFirst
<1>9. IsPrefix(FlattenSeq(SubSeq(all, 1, n)), FlattenSeq(SubSeq(all, 1, k)))
  <2>1. n \in 0..Len(all) /\ k \in 0..Len(all) /\ n <= k
    BY <1>1, <1>2
  <2> QED BY <1>2, <1>4, <2>1, FlattenGrows
<1> QED BY <1>3, <1>5, <1>6, <1>7, <1>8, <1>9

-------------------------------------------------------------------------------
(* The plan: the files loaded, the units of each, the queries.               *)

\* The files with something under their header, in their order.
Body1(f) == IF HasBody(f) THEN <<f>> ELSE <<>>

LEMMA LoadedFacts ==
  ASSUME NEW n \in 0..N
  PROVE  /\ IsSeq(Atomic!LoadedUpto(n))
         /\ n = 0 => Atomic!LoadedUpto(n) = <<>>
         /\ n < N => Atomic!LoadedUpto(n + 1) = Atomic!LoadedUpto(n) \o Body1(n + 1)
         /\ IsPrefix(Atomic!LoadedUpto(n), Atomic!Loaded)
         /\ Atomic!Loaded = Atomic!LoadedUpto(N)
<1> DEFINE all == [f \in 1..N |-> Body1(f)]
<1>1. N \in Nat /\ n \in Nat /\ n <= N
  BY Constants
<1>2. IsSeq(all) /\ Len(all) = N
  <2>1. all = [f \in 1..N |-> all[f]]
    OBVIOUS
  <2> HIDE DEF all
  <2> QED BY <1>1, <2>1, IsSeqFunction
<1>3. DOMAIN all = 1..N /\ \A f \in 1..N : all[f] = Body1(f)
  OBVIOUS
<1>4. \A f \in DOMAIN all : IsSeq(all[f])
  <2>1. \A f : IsSeq(<<f>>)
    BY DEF IsSeq
  <2> QED BY <1>3, <2>1, IsSeqEmpty DEF Body1
<1> HIDE DEF all
<1>5. ASSUME NEW m \in 0..N
      PROVE  Atomic!LoadedUpto(m) = FlattenSeq(SubSeq(all, 1, m))
  <2> DEFINE g == [f \in 1..m |-> Body1(f)]
  <2>1. m \in Nat /\ \A f \in 1..m : f \in 1..N
    BY <1>1
  <2>2. IsSeq(g) /\ Len(g) = m
    <3>1. g = [f \in 1..m |-> g[f]]
      OBVIOUS
    <3> HIDE DEF g
    <3> QED BY <2>1, <3>1, IsSeqFunction
  <2>3. \A f \in 1..m : g[f] = all[f]
    BY <1>3, <2>1
  <2>4. Atomic!LoadedUpto(m) = FlattenSeq(g)
    BY SameSequences, SameEffects DEF Atomic!LoadedUpto, Body1
  <2> HIDE DEF g
  <2>5. g = SubSeq(all, 1, m)
    <3>1. /\ IsSeq(SubSeq(all, 1, m)) /\ Len(SubSeq(all, 1, m)) = m
          /\ \A f \in 1..m : SubSeq(all, 1, m)[f] = all[f]
      BY <1>2, IsSeqPrefix
    <3> QED BY <2>2, <2>3, <3>1, IsSeqSame
  <2> QED BY <2>4, <2>5
<1>6. N \in 0..N /\ (n < N => n + 1 \in 0..N /\ n + 1 \in 1..N)
  BY <1>1
<1>7. /\ IsSeq(FlattenSeq(SubSeq(all, 1, n)))
      /\ n = 0 => FlattenSeq(SubSeq(all, 1, n)) = <<>>
      /\ n < N => FlattenSeq(SubSeq(all, 1, n + 1)) = FlattenSeq(SubSeq(all, 1, n)) \o all[n + 1]
  BY <1>2, <1>4, FlattenFirst
<1>8. IsPrefix(FlattenSeq(SubSeq(all, 1, n)), FlattenSeq(SubSeq(all, 1, N)))
  <2>1. n \in 0..Len(all) /\ N \in 0..Len(all) /\ n <= N
    BY <1>1, <1>2
  <2> QED BY <1>2, <1>4, <2>1, FlattenGrows
<1>9. Atomic!Loaded = Atomic!LoadedUpto(N)
  BY SameEffects DEF Atomic!Loaded
<1> QED BY <1>3, <1>5, <1>6, <1>7, <1>8, <1>9

LEMMA LoadedTypes ==
  /\ IsSeq(Atomic!Loaded) /\ Len(Atomic!Loaded) \in Nat
  /\ DOMAIN Atomic!Loaded = 1..Len(Atomic!Loaded)
  /\ \A n \in DOMAIN Atomic!Loaded : Atomic!Loaded[n] \in File
<1>1. N \in 0..N
  BY Constants
<1>2. IsSeq(Atomic!Loaded) /\ Atomic!Loaded = Atomic!LoadedUpto(N)
  BY <1>1, LoadedFacts
<1> DEFINE S == {m \in Nat : m \in 0..N =>
                    \A i \in DOMAIN Atomic!LoadedUpto(m) : Atomic!LoadedUpto(m)[i] \in File}
<1>3. 0 \in S
  <2>1. 0 \in 0..N
    BY Constants
  <2>2. Atomic!LoadedUpto(0) = <<>>
    BY <2>1, LoadedFacts
  <2> QED BY <2>2
<1>4. ASSUME NEW m \in Nat, m \in S PROVE m + 1 \in S
  <2> SUFFICES ASSUME m + 1 \in 0..N
               PROVE  \A i \in DOMAIN Atomic!LoadedUpto(m + 1) : Atomic!LoadedUpto(m + 1)[i] \in File
    OBVIOUS
  <2>1. m \in 0..N /\ m < N /\ m + 1 \in File
    BY Constants
  <2> PICK a : a = Atomic!LoadedUpto(m)
    OBVIOUS
  <2> PICK g : g = Body1(m + 1)
    OBVIOUS
  <2> PICK b : b = Atomic!LoadedUpto(m + 1)
    OBVIOUS
  <2>2. IsSeq(a) /\ b = a \o g
    BY <2>1, LoadedFacts
  <2>3. \A i \in DOMAIN a : a[i] \in File
    BY <1>4, <2>1
  <2>4. a \in Seq(File)
    BY <2>2, <2>3, IsSeqIn
  <2>5. g \in Seq(File)
    BY <2>1 DEF Body1
  <2>6. b \in Seq(File)
    BY <2>2, <2>4, <2>5, ConcatProperties
  <2>7. \A i \in DOMAIN b : b[i] \in File
    BY <2>6
  <2> QED BY <2>7
<1> HIDE DEF S
<1>5. N \in S
  BY <1>3, <1>4, Constants, Induction
<1>6. \A n \in DOMAIN Atomic!Loaded : Atomic!Loaded[n] \in File
  BY <1>1, <1>2, <1>5 DEF S
<1> QED BY <1>2, <1>6, IsSeqFacts

LEMMA LoadedAt ==
  ASSUME NEW f \in 1..N, HasBody(f)
  PROVE  /\ Len(Atomic!LoadedUpto(f)) = Len(Atomic!LoadedUpto(f - 1)) + 1
         /\ Len(Atomic!LoadedUpto(f)) \in DOMAIN Atomic!Loaded
         /\ Atomic!Loaded[Len(Atomic!LoadedUpto(f))] = f
<1>1. f - 1 \in 0..N /\ f \in 0..N /\ f - 1 < N /\ (f - 1) + 1 = f
  BY Constants
<1> PICK a : a = Atomic!LoadedUpto(f - 1)
  OBVIOUS
<1> PICK b : b = Atomic!LoadedUpto(f)
  OBVIOUS
<1> PICK l : l = Atomic!Loaded
  OBVIOUS
<1>2. IsSeq(a) /\ Atomic!LoadedUpto((f - 1) + 1) = a \o Body1((f - 1) + 1)
  BY <1>1, LoadedFacts
<1>3. IsSeq(b) /\ IsPrefix(b, l) /\ IsSeq(l) /\ DOMAIN l = 1..Len(l)
  BY <1>1, LoadedFacts, LoadedTypes
<1>4. b = a \o <<f>>
  BY <1>1, <1>2 DEF Body1
<1>5. IsSeq(<<f>>) /\ Len(<<f>>) = 1
  BY DEF IsSeq
<1>6. Len(b) = Len(a) + 1 /\ b[Len(a) + 1] = f /\ Len(a) \in Nat
  <2>1. /\ Len(b) = Len(a) + 1 /\ \A i \in 1..1 : b[Len(a) + i] = <<f>>[i]
    BY <1>2, <1>4, <1>5, IsSeqConcat
  <2> QED BY <1>2, <2>1, IsSeqFacts
<1>7. Len(b) <= Len(l) /\ \A i \in 1..Len(b) : b[i] = l[i]
  BY <1>3, PrefixFacts
<1>8. Len(b) \in 1..Len(b) /\ Len(b) \in 1..Len(l)
  BY <1>3, <1>6, <1>7, IsSeqFacts
<1> QED BY <1>3, <1>6, <1>7, <1>8

LEMMA LoadedNot ==
  ASSUME NEW f \in 1..N, ~HasBody(f)
  PROVE  Len(Atomic!LoadedUpto(f)) = Len(Atomic!LoadedUpto(f - 1))
<1>1. f - 1 \in 0..N /\ f - 1 < N /\ (f - 1) + 1 = f
  BY Constants
<1>2. IsSeq(Atomic!LoadedUpto(f - 1))
      /\ Atomic!LoadedUpto((f - 1) + 1) = Atomic!LoadedUpto(f - 1) \o Body1((f - 1) + 1)
  BY <1>1, LoadedFacts
<1>3. Body1((f - 1) + 1) = <<>>
  BY <1>1 DEF Body1
<1> QED BY <1>1, <1>2, <1>3, ConcatEmpty

\* The units of a table.
UnitOf(n, j) ==
  IF j = 1 THEN Atomic!TableOf(n)
  ELSE IF j = 2 THEN Atomic!Before
  ELSE IF j = 3 THEN Atomic!RowsOf(n) ELSE Atomic!After

LEMMA RowsOfFacts ==
  ASSUME Chosen, NEW n \in DOMAIN Atomic!Loaded
  PROVE  /\ IsSeq(Atomic!RowsOf(n)) /\ Len(Atomic!RowsOf(n)) = Len(keys[Atomic!Loaded[n]])
         /\ \A i \in 1..Len(Atomic!RowsOf(n)) :
              Atomic!RowsOf(n)[i] =
                Inserted(Atomic!Loaded[n], TableName(n), BodyRows(Atomic!Loaded[n])[i])
<1> PICK f : f = Atomic!Loaded[n]
  OBVIOUS
<1> PICK rows : rows = BodyRows(f)
  OBVIOUS
<1>1. f \in File /\ Len(keys[f]) \in Nat
  BY LoadedTypes, ChosenFacts
<1>2. IsSeq(rows) /\ Len(rows) = Len(keys[f]) /\ DOMAIN rows = 1..Len(keys[f])
  BY <1>1, BodyFacts, IsSeqFacts
<1> DEFINE r == [i \in 1..Len(keys[f]) |-> Inserted(f, TableName(n), rows[i])]
<1>3. Atomic!RowsOf(n) = r
  BY <1>2, SameRows, SameEffects DEF Atomic!RowsOf
<1>4. r = [i \in 1..Len(keys[f]) |-> r[i]]
  OBVIOUS
<1>5. \A i \in 1..Len(keys[f]) : r[i] = Inserted(f, TableName(n), rows[i])
  OBVIOUS
<1> HIDE DEF r
<1>6. IsSeq(r) /\ Len(r) = Len(keys[f])
  BY <1>1, <1>4, IsSeqFunction
<1> QED BY <1>3, <1>5, <1>6

LEMMA UnitsFacts ==
  ASSUME Chosen, NEW n \in DOMAIN Atomic!Loaded
  PROVE  /\ IsSeq(Atomic!UnitsOf(n)) /\ Len(Atomic!UnitsOf(n)) = Units
         /\ \A j \in 1..Units : Atomic!UnitsOf(n)[j] = UnitOf(n, j) /\ IsSeq(UnitOf(n, j))
<1>1. IsSeq(args.before) /\ IsSeq(args.after)
  BY ChosenFacts, SeqIsSeq
<1>2. IsSeq(Atomic!After) /\ IsSeq(Atomic!Before)
  <2>1. ASSUME NEW s, IsSeq(s)
        PROVE  IsSeq(Atomic!Statements(s))
    <3>1. Len(s) \in 0..Len(s) /\ SubSeq(s, 1, Len(s)) = s
      BY <2>1, IsSeqFacts, WholeIsSubSeq
    <3> QED BY <2>1, <3>1, StatementsFacts
  <2> QED BY <1>1, <2>1, IsSeqEmpty DEF Atomic!After, Atomic!Before
<1>3. IsSeq(Atomic!TableOf(n))
  <2>1. \A e : IsSeq(<<e>>)
    BY DEF IsSeq
  <2> QED BY <2>1, IsSeqEmpty DEF Atomic!TableOf
<1>4. IsSeq(Atomic!RowsOf(n))
  BY RowsOfFacts
<1>5. \A j : IsSeq(UnitOf(n, j))
  BY <1>2, <1>3, <1>4 DEF UnitOf
<1> PICK a : a = Atomic!TableOf(n)
  OBVIOUS
<1> PICK b : b = Atomic!Before
  OBVIOUS
<1> PICK c : c = Atomic!RowsOf(n)
  OBVIOUS
<1> PICK d : d = Atomic!After
  OBVIOUS
<1>6. \A j : UnitOf(n, j) = IF j = 1 THEN a ELSE IF j = 2 THEN b ELSE IF j = 3 THEN c ELSE d
  BY DEF UnitOf
<1>7. CASE Inserting
  <2>1. Atomic!UnitsOf(n) = <<a, b, c, d>> /\ Units = 4
    BY <1>7, SameEffects DEF Atomic!UnitsOf, Units
  <2>2. IsSeq(<<a, b, c, d>>) /\ Len(<<a, b, c, d>>) = 4
    BY DEF IsSeq
  <2>3. \A j \in 1..4 : <<a, b, c, d>>[j] = IF j = 1 THEN a ELSE IF j = 2 THEN b ELSE IF j = 3 THEN c ELSE d
    OBVIOUS
  <2> QED BY <1>5, <1>6, <2>1, <2>2, <2>3
<1>8. CASE ~Inserting
  <2>1. Atomic!UnitsOf(n) = <<a>> /\ Units = 1
    BY <1>8, SameEffects DEF Atomic!UnitsOf, Units
  <2>2. IsSeq(<<a>>) /\ Len(<<a>>) = 1
    BY DEF IsSeq
  <2>3. \A j \in 1..1 : <<a>>[j] = IF j = 1 THEN a ELSE IF j = 2 THEN b ELSE IF j = 3 THEN c ELSE d
    OBVIOUS
  <2> QED BY <1>5, <1>6, <2>1, <2>2, <2>3
<1> QED BY <1>7, <1>8

LEMMA StatementFacts ==
  ASSUME NEW s
  PROVE  Atomic!Statements(<<s>>) = Result(s)
<1> PICK t : t = <<s>>
  OBVIOUS
<1>1. IsSeq(t) /\ Len(t) = 1 /\ t[1] = s
  BY DEF IsSeq
<1>2. 0 \in 0..Len(t) /\ 0 < Len(t)
  BY <1>1
<1>0. SubSeq(t, 1, 1) = t
  <2>1. SubSeq(t, 1, Len(t)) = t
    BY <1>1, WholeIsSubSeq
  <2> QED BY <1>1, <2>1
<1>3. /\ Atomic!Statements(SubSeq(t, 1, 0)) = <<>>
      /\ Atomic!Statements(SubSeq(t, 1, 0 + 1)) = Atomic!Statements(SubSeq(t, 1, 0)) \o Result(t[0 + 1])
  BY <1>1, <1>2, StatementsFacts
<1>4. 0 + 1 = 1
  OBVIOUS
<1>5. Atomic!Statements(t) = <<>> \o Result(s)
  BY <1>0, <1>1, <1>3, <1>4
<1> QED BY <1>5, ResultIsSeq, ConcatEmpty

\* The queries, and the last of them again.
Again == args.query # <<>> /\ Header = 1 /\ ~Autocommit
Asked == Len(args.query) + (IF Again THEN 1 ELSE 0)

LEMMA QueryFacts ==
  ASSUME Chosen
  PROVE  /\ IsSeq(args.query) /\ Len(args.query) \in Nat /\ (args.query = <<>> <=> Len(args.query) = 0)
         /\ IsSeq(Atomic!QueryUnits) /\ Len(Atomic!QueryUnits) = Asked
         /\ \A i \in 1..Asked :
              Atomic!QueryUnits[i] = Result(args.query[IF i <= Len(args.query) THEN i ELSE Len(args.query)])
<1> PICK q : q = args.query
  OBVIOUS
<1>1. IsSeq(q) /\ Len(q) \in Nat /\ DOMAIN q = 1..Len(q)
  <2>1. q \in Seq({"write", "read", "empty", "bad"})
    BY InputsAssumption, SqlInputsAssumption DEF Chosen
  <2> QED BY <2>1, SeqIsSeq
<1>2. q = <<>> <=> Len(q) = 0
  BY <1>1, IsSeqEmpty, IsSeqSame
<1> DEFINE all == [i \in 1..Len(q) |-> Result(q[i])]
<1>3. IsSeq(all) /\ Len(all) = Len(q)
  <2>1. all = [i \in 1..Len(q) |-> all[i]]
    OBVIOUS
  <2> HIDE DEF all
  <2> QED BY <1>1, <2>1, IsSeqFunction
<1>4. \A i \in 1..Len(q) : all[i] = Result(q[i])
  OBVIOUS
<1>5. [i \in DOMAIN q |-> Atomic!Statements(<<q[i]>>)] = all
  BY <1>1, StatementFacts
<1> HIDE DEF all
<1>6. all = <<>> <=> q = <<>>
  BY <1>2, <1>3, IsSeqEmpty, IsSeqSame
<1>7. Atomic!QueryUnits = IF Again THEN Append(all, Last(all)) ELSE all
  BY <1>5, <1>6, SameSequences, SameEffects DEF Atomic!QueryUnits, Atomic!AskedAgain, Again
<1>8. CASE ~Again
  <2>1. Asked = Len(q)
    BY <1>1, <1>8 DEF Asked
  <2> QED BY <1>1, <1>2, <1>3, <1>4, <1>7, <1>8, <2>1
<1>9. CASE Again
  <2>1. Asked = Len(q) + 1 /\ Len(q) # 0 /\ Len(q) \in 1..Len(q)
    BY <1>1, <1>2, <1>9 DEF Asked, Again
  <2>2. Last(all) = Result(q[Len(q)])
    BY <1>3, <1>4, <2>1 DEF Last
  <2> PICK x : x = Result(q[Len(q)])
    OBVIOUS
  <2>3. all \in Seq({all[i] : i \in DOMAIN all} \cup {x})
    BY <1>3, IsSeqIn
  <2>4. /\ IsSeq(Append(all, x)) /\ Len(Append(all, x)) = Len(q) + 1
        /\ \A i \in 1..(Len(q) + 1) : Append(all, x)[i] = IF i <= Len(q) THEN all[i] ELSE x
    <3>1. IsSeq(Append(all, x)) /\ Len(Append(all, x)) = Len(q) + 1
      BY <1>3, IsSeqAppend
    <3>2. \A i \in 1..(Len(q) + 1) : Append(all, x)[i] = IF i <= Len(q) THEN all[i] ELSE x
      <4> TAKE i \in 1..(Len(q) + 1)
      <4>1. CASE i <= Len(q)
        BY <1>1, <1>3, <2>3, <4>1, AppendProperties
      <4>2. CASE ~(i <= Len(q))
        <5>1. i = Len(all) + 1
          BY <1>1, <1>3, <4>2
        <5> QED BY <2>3, <4>2, <5>1, AppendProperties
      <4> QED BY <4>1, <4>2
    <3> QED BY <3>1, <3>2
  <2>5. \A i \in 1..(Len(q) + 1) :
          Append(all, x)[i] = Result(q[IF i <= Len(q) THEN i ELSE Len(q)])
    <3> TAKE i \in 1..(Len(q) + 1)
    <3>1. i <= Len(q) => i \in 1..Len(q)
      BY <1>1
    <3> QED BY <1>4, <2>4, <3>1
  <2>6. Atomic!QueryUnits = Append(all, x)
    BY <1>7, <1>9, <2>2
  <2> QED BY <1>1, <1>2, <2>1, <2>4, <2>5, <2>6
<1> QED BY <1>8, <1>9

Tables == Len(Atomic!Loaded)
PlanLength == Units * Tables + Asked

LEMMA PlanFacts ==
  ASSUME Chosen
  PROVE  /\ IsSeq(Atomic!Plan) /\ Len(Atomic!Plan) = PlanLength /\ DOMAIN Atomic!Plan = 1..PlanLength
         /\ \A n \in 1..Tables : \A j \in 1..Units :
              /\ Units * (n - 1) + j \in 1..PlanLength
              /\ Atomic!Plan[Units * (n - 1) + j] = UnitOf(n, j)
         /\ \A i \in 1..Asked :
              /\ Units * Tables + i \in 1..PlanLength
              /\ Atomic!Plan[Units * Tables + i] =
                   Result(args.query[IF i <= Len(args.query) THEN i ELSE Len(args.query)])
         /\ \A k \in DOMAIN Atomic!Plan : IsSeq(Atomic!Plan[k])
         /\ Tables \in Nat /\ PlanLength \in Nat /\ Units \in {1, 4} /\ Asked \in Nat
<1> PICK loaded : loaded = Atomic!Loaded
  OBVIOUS
<1> DEFINE groups == [n \in 1..Tables |-> Atomic!UnitsOf(n)]
<1>1. /\ Tables \in Nat /\ DOMAIN loaded = 1..Tables /\ Units \in {1, 4} /\ Units \in Nat
      /\ Len(args.query) \in Nat /\ Asked \in Nat
  <2>1. Tables \in Nat /\ DOMAIN loaded = 1..Tables
    BY LoadedTypes DEF Tables
  <2>2. Units \in {1, 4} /\ Units \in Nat
    BY DEF Units
  <2>3. Len(args.query) \in Nat
    BY QueryFacts
  <2>4. Asked \in Nat
    <3>1. CASE Again
      BY <2>3, <3>1 DEF Asked
    <3>2. CASE ~Again
      BY <2>3, <3>2 DEF Asked
    <3> QED BY <3>1, <3>2
  <2> QED BY <2>1, <2>2, <2>3, <2>4
<1>2. IsSeq(groups) /\ Len(groups) = Tables
  <2>1. groups = [n \in 1..Tables |-> groups[n]]
    OBVIOUS
  <2> HIDE DEF groups
  <2> QED BY <1>1, <2>1, IsSeqFunction
<1>3. \A n \in 1..Tables : groups[n] = Atomic!UnitsOf(n)
  OBVIOUS
<1>4. [n \in DOMAIN loaded |-> Atomic!UnitsOf(n)] = groups
  BY <1>1
<1>5. DOMAIN groups = 1..Tables
  OBVIOUS
<1> HIDE DEF groups
<1>0. ASSUME NEW u \in {1, 4}, InGroups(groups, u)
      PROVE  Grouped(FlattenSeq(groups), groups, u)
  BY <1>0, <1>2, FlattenGroups
<1>6. \A n \in DOMAIN groups : IsSeq(groups[n]) /\ Len(groups[n]) = Units
  BY <1>1, <1>3, <1>5, UnitsFacts
<1> PICK units \in {1, 4} : units = Units
  BY <1>1
<1> PICK tables : tables = FlattenSeq(groups)
  OBVIOUS
<1>7. /\ IsSeq(tables) /\ Len(tables) = units * Tables
      /\ \A n \in 1..Tables : \A j \in 1..units : tables[units * (n - 1) + j] = groups[n][j]
  <2>1. InGroups(groups, units)
    BY <1>1, <1>6 DEF InGroups
  <2>2. /\ IsSeq(FlattenSeq(groups)) /\ Len(FlattenSeq(groups)) = units * Len(groups)
        /\ \A n \in DOMAIN groups : \A j \in 1..units :
             FlattenSeq(groups)[units * (n - 1) + j] = groups[n][j]
    BY <1>0, <2>1 DEF Grouped
  <2> QED BY <1>2, <1>5, <2>2
<1>8. \A n \in 1..Tables : \A j \in 1..units : tables[units * (n - 1) + j] = UnitOf(n, j)
                                               /\ IsSeq(UnitOf(n, j))
  <2> TAKE n \in 1..Tables
  <2>1. \A j \in 1..Units : Atomic!UnitsOf(n)[j] = UnitOf(n, j) /\ IsSeq(UnitOf(n, j))
    BY <1>1, UnitsFacts
  <2> QED BY <1>3, <1>7, <2>1
<1> PICK asked : asked = Atomic!QueryUnits
  OBVIOUS
<1>9. /\ IsSeq(asked) /\ Len(asked) = Asked
      /\ \A i \in 1..Asked :
           asked[i] = Result(args.query[IF i <= Len(args.query) THEN i ELSE Len(args.query)])
  BY QueryFacts
<1> PICK plan : plan = Atomic!Plan
  OBVIOUS
<1>10. plan = tables \o asked
  BY <1>4, SameSequences DEF Atomic!Plan
<1>11. /\ IsSeq(plan) /\ Len(plan) = units * Tables + Asked
       /\ \A i \in 1..(units * Tables) : plan[i] = tables[i]
       /\ \A i \in 1..Asked : plan[units * Tables + i] = asked[i]
  <2>1. /\ IsSeq(plan) /\ Len(plan) = Len(tables) + Len(asked)
        /\ \A i \in 1..Len(tables) : plan[i] = tables[i]
        /\ \A i \in 1..Len(asked) : plan[Len(tables) + i] = asked[i]
    BY <1>7, <1>9, <1>10, IsSeqConcat
  <2>2. Len(tables) = units * Tables /\ Len(asked) = Asked
    BY <1>7, <1>9
  <2> QED BY <2>1, <2>2
<1>12. PlanLength = units * Tables + Asked /\ PlanLength \in Nat /\ units * Tables \in Nat
  BY <1>1 DEF PlanLength
<1>13. \A n \in 1..Tables : \A j \in 1..units :
         units * (n - 1) + j \in 1..(units * Tables) /\ units * (n - 1) + j \in 1..PlanLength
  <2>1. CASE units = 1
    BY <1>1, <1>12, <2>1
  <2>2. CASE units = 4
    BY <1>1, <1>12, <2>2
  <2> QED BY <1>1, <2>1, <2>2
<1>14. \A i \in 1..Asked : units * Tables + i \in 1..PlanLength
  BY <1>1, <1>12
<1>15. \A n \in 1..Tables : \A j \in 1..units : plan[units * (n - 1) + j] = UnitOf(n, j)
  BY <1>8, <1>11, <1>13
<1>16. ASSUME NEW k \in 1..PlanLength
       PROVE  IsSeq(plan[k])
  <2>1. CASE k > units * Tables
    <3>1. k - units * Tables \in 1..Asked /\ units * Tables + (k - units * Tables) = k
      BY <1>1, <1>12, <2>1
    <3>2. plan[units * Tables + (k - units * Tables)] = asked[k - units * Tables]
      BY <1>11, <3>1
    <3> QED BY <1>9, <3>1, <3>2, ResultIsSeq
  <2>2. CASE ~(k > units * Tables)
    <3>1. \E n \in 1..Tables : \E j \in 1..units : k = units * (n - 1) + j
      <4>1. CASE units = 1
        <5>1. k \in 1..Tables /\ 1 \in 1..units /\ k = units * (k - 1) + 1
          BY <1>1, <1>12, <2>2, <4>1
        <5> QED BY <5>1
      <4>2. CASE units = 4
        <5>1. /\ (k - 1) \div 4 + 1 \in 1..Tables /\ ((k - 1) % 4) + 1 \in 1..units
              /\ k = units * (((k - 1) \div 4 + 1) - 1) + (((k - 1) % 4) + 1)
          BY <1>1, <1>12, <2>2, <4>2
        <5> QED BY <5>1
      <4> QED BY <1>1, <4>1, <4>2
    <3> QED BY <1>8, <1>15, <3>1
  <2> QED BY <2>1, <2>2
<1>17. DOMAIN plan = 1..PlanLength
  BY <1>11, <1>12, IsSeqFacts
<1> QED BY <1>1, <1>9, <1>11, <1>12, <1>13, <1>14, <1>15, <1>16, <1>17

LEMMA WholeFacts ==
  ASSUME Chosen, NEW k \in 0..PlanLength
  PROVE  /\ IsSeq(Atomic!Whole(k)) /\ IsSeq(Atomic!Everything)
         /\ k = 0 => Atomic!Whole(k) = <<>>
         /\ k < PlanLength => /\ Atomic!Whole(k + 1) = Atomic!Whole(k) \o Atomic!Plan[k + 1]
                              /\ IsSeq(Atomic!Plan[k + 1]) /\ IsSeq(Atomic!Whole(k + 1))
         /\ IsPrefix(Atomic!Whole(k), Atomic!Everything)
         /\ Atomic!Everything = Atomic!Whole(PlanLength)
<1> PICK plan : plan = Atomic!Plan
  OBVIOUS
<1> PICK n : n = PlanLength
  OBVIOUS
<1>1. IsSeq(plan) /\ Len(plan) = n /\ DOMAIN plan = 1..n /\ n \in Nat
      /\ \A i \in DOMAIN plan : IsSeq(plan[i])
  BY PlanFacts
<1>2. \A m : Atomic!Whole(m) = FlattenSeq(SubSeq(plan, 1, m))
  BY SameSequences DEF Atomic!Whole
<1>3. Atomic!Everything = Atomic!Whole(n)
  BY <1>1 DEF Atomic!Everything
<1>4. n \in 0..Len(plan) /\ k \in 0..Len(plan) /\ k <= n /\ k \in Nat
  BY <1>1
<1>5. /\ IsSeq(FlattenSeq(SubSeq(plan, 1, k))) /\ IsSeq(FlattenSeq(SubSeq(plan, 1, n)))
      /\ k = 0 => FlattenSeq(SubSeq(plan, 1, k)) = <<>>
      /\ k < n => FlattenSeq(SubSeq(plan, 1, k + 1)) = FlattenSeq(SubSeq(plan, 1, k)) \o plan[k + 1]
  BY <1>1, <1>4, FlattenFirst
<1>6. k < n => k + 1 \in 0..Len(plan) /\ k + 1 \in DOMAIN plan
  BY <1>1, <1>4
<1>7. k < n => IsSeq(FlattenSeq(SubSeq(plan, 1, k + 1))) /\ IsSeq(plan[k + 1])
  BY <1>1, <1>6, FlattenFirst
<1>8. IsPrefix(FlattenSeq(SubSeq(plan, 1, k)), FlattenSeq(SubSeq(plan, 1, n)))
  BY <1>1, <1>4, FlattenGrows
<1> QED BY <1>2, <1>3, <1>5, <1>7, <1>8

\* What is done of one unit after those before it comes first in everything.
LEMMA PlaceFacts ==
  ASSUME Chosen, NEW k \in 0..PlanLength, NEW part, IsSeq(part),
         part = <<>> \/ (k < PlanLength /\ IsPrefix(part, Atomic!Plan[k + 1]))
  PROVE  /\ IsSeq(Atomic!Whole(k) \o part)
         /\ IsPrefix(Atomic!Whole(k) \o part, Atomic!Everything)
         /\ IsPrefix(Atomic!Whole(k), Atomic!Whole(k) \o part)
<1> PICK whole : whole = Atomic!Whole(k)
  OBVIOUS
<1> PICK every : every = Atomic!Everything
  OBVIOUS
<1>1. IsSeq(whole) /\ IsSeq(every) /\ IsPrefix(whole, every)
  BY WholeFacts
<1>2. IsSeq(whole \o part) /\ IsPrefix(whole, whole \o part)
  BY <1>1, IsSeqConcat, PrefixConcat
<1>3. CASE part = <<>>
  BY <1>1, <1>2, <1>3, ConcatEmpty
<1>4. CASE k < PlanLength /\ IsPrefix(part, Atomic!Plan[k + 1])
  <2> PICK unit : unit = Atomic!Plan[k + 1]
    OBVIOUS
  <2> PICK next : next = Atomic!Whole(k + 1)
    OBVIOUS
  <2>1. k + 1 \in 0..PlanLength
    BY <1>4, PlanFacts
  <2>2. next = whole \o unit /\ IsSeq(unit) /\ IsSeq(next) /\ IsPrefix(next, every)
    BY <1>4, <2>1, WholeFacts
  <2>3. IsPrefix(whole \o part, next)
    BY <1>1, <1>4, <2>2, PrefixAfter
  <2> QED BY <1>1, <1>2, <2>2, <2>3, PrefixThrough
<1> QED BY <1>3, <1>4

-------------------------------------------------------------------------------
(* The plan stays what it is.                                                *)

LEMMA SameRowsNext ==
  /\ \A f : Atomic!BodyRows(f)' = BodyRows(f)'
  /\ \A f, name, r : Atomic!Inserted(f, name, r)' = Inserted(f, name, r)'
  /\ \A f, name : Atomic!Created(f, name)' = Created(f, name)'
<1> DEFINE Rows == \A f : Atomic!BodyRows(f) = BodyRows(f)
           Inserts == \A f, name, r : Atomic!Inserted(f, name, r) = Inserted(f, name, r)
           Creates == \A f, name : Atomic!Created(f, name) = Created(f, name)
<1>1. Rows /\ Inserts /\ Creates
  BY SameRows
<1> HIDE DEF Rows, Inserts, Creates
<1>2. Rows' /\ Inserts' /\ Creates'
  BY <1>1, PTL
<1> QED BY <1>2 DEF Rows, Inserts, Creates

\* The units of a command line do not change.
LEMMA SamePlan ==
  ASSUME UNCHANGED Command
  PROVE  /\ \A n : Atomic!LoadedUpto(n)' = Atomic!LoadedUpto(n)
         /\ Atomic!Loaded' = Atomic!Loaded
         /\ \A n : TableName(n)' = TableName(n) /\ Atomic!RowsOf(n)' = Atomic!RowsOf(n)
         /\ Atomic!After' = Atomic!After
         /\ \A k : Atomic!Whole(k)' = Atomic!Whole(k)
         /\ Atomic!Everything' = Atomic!Everything
         /\ Units' = Units /\ (Inserting' <=> Inserting) /\ (ValidArgs' <=> ValidArgs)
         /\ \A f : HasBody(f)' <=> HasBody(f)
<1>1. args' = args /\ keys' = keys
  BY DEF Command
<1>2. /\ (Atomic!Autocommit' <=> Atomic!Autocommit) /\ (Atomic!Inserting' <=> Atomic!Inserting)
      /\ \A n : Atomic!TableName(n)' = Atomic!TableName(n)
      /\ \A f : Atomic!HasBody(f)' <=> Atomic!HasBody(f)
  BY <1>1 DEF Atomic!Autocommit, Atomic!Inserting, Atomic!InMemory, Atomic!TableName, Atomic!HasBody
<1>3. \A n : Atomic!LoadedUpto(n)' = Atomic!LoadedUpto(n)
  BY <1>2 DEF Atomic!LoadedUpto
<1>4. Atomic!Loaded' = Atomic!Loaded
  BY <1>3 DEF Atomic!Loaded, Atomic!N
<1>5. /\ \A f : BodyRows(f)' = BodyRows(f) /\ FileTypes(f)' = FileTypes(f)
      /\ \A n : TableName(n)' = TableName(n)
  BY <1>1, SameFile DEF TableName
<1>6. \A f, name, r : Inserted(f, name, r)' = Inserted(f, name, r)
  <2>1. \A cell : Value(cell)' = Value(cell)
    BY <1>1 DEF Value, Body
  <2>2. \A cell : IsNullCell(cell)' <=> IsNullCell(cell)
    BY <2>1 DEF IsNullCell
  <2>3. \A type, cell : Bound(type, cell)' = Bound(type, cell)
    BY <2>1, <2>2 DEF Bound, NotNumeric
  <2>4. \A f, types, r : BoundRow(f, types, r)' = BoundRow(f, types, r)
    BY <2>3 DEF BoundRow
  <2> QED BY <1>5, <2>4 DEF Inserted
<1>7. \A f, name : Created(f, name)' = Created(f, name)
  BY <1>1, <1>5 DEF Created, TableColumns, Width
<1>8. /\ \A f : Atomic!BodyRows(f)' = Atomic!BodyRows(f)
      /\ \A f, name, r : Atomic!Inserted(f, name, r)' = Atomic!Inserted(f, name, r)
      /\ \A f, name : Atomic!Created(f, name)' = Atomic!Created(f, name)
  BY <1>5, <1>6, <1>7, SameRows, SameRowsNext
<1>9. \A n : Atomic!RowsOf(n)' = Atomic!RowsOf(n)
  BY <1>2, <1>4, <1>8 DEF Atomic!RowsOf
<1>10. \A n : Atomic!TableOf(n)' = Atomic!TableOf(n)
  <2>1. \A n : Atomic!Repeated(n)' <=> Atomic!Repeated(n)
    BY <1>1, <1>2 DEF Atomic!Repeated
  <2> QED BY <1>1, <1>2, <1>4, <1>8, <2>1 DEF Atomic!TableOf
<1>11. Atomic!After' = Atomic!After /\ Atomic!Before' = Atomic!Before
  BY <1>1, <1>2 DEF Atomic!After, Atomic!Before
<1>12. \A n : Atomic!UnitsOf(n)' = Atomic!UnitsOf(n)
  BY <1>2, <1>9, <1>10, <1>11 DEF Atomic!UnitsOf
<1>13. Atomic!QueryUnits' = Atomic!QueryUnits
  BY <1>1, <1>2 DEF Atomic!QueryUnits, Atomic!AskedAgain
<1>14. Atomic!Plan' = Atomic!Plan
  BY <1>4, <1>12, <1>13 DEF Atomic!Plan
<1>15. \A k : Atomic!Whole(k)' = Atomic!Whole(k)
  BY <1>14 DEF Atomic!Whole
<1>16. Atomic!Everything' = Atomic!Everything
  BY <1>14, <1>15 DEF Atomic!Everything
<1>17. Units' = Units /\ (Inserting' <=> Inserting) /\ (ValidArgs' <=> ValidArgs)
  BY <1>1 DEF Units, Inserting, InMemory, ValidArgs
<1>18. \A f : HasBody(f)' <=> HasBody(f)
  BY <1>1 DEF HasBody
<1> QED BY <1>3, <1>4, <1>5, <1>9, <1>11, <1>15, <1>16, <1>17, <1>18

-------------------------------------------------------------------------------
(* What is committed when so many units are done.                            *)

LEMMA OneMore ==
  ASSUME Chosen, NEW k \in 1..PlanLength
  PROVE  /\ k - 1 \in 0..PlanLength /\ k - 1 < PlanLength /\ k \in 0..PlanLength
         /\ (k - 1) + 1 = k
         /\ Atomic!Whole(k) = Atomic!Whole(k - 1) \o Atomic!Plan[k] /\ IsSeq(Atomic!Plan[k])
<1>1. k - 1 \in 0..PlanLength /\ k - 1 < PlanLength /\ (k - 1) + 1 = k /\ k \in 0..PlanLength
  BY PlanFacts
<1>2. Atomic!Whole((k - 1) + 1) = Atomic!Whole(k - 1) \o Atomic!Plan[(k - 1) + 1]
      /\ IsSeq(Atomic!Plan[(k - 1) + 1])
  BY <1>1, WholeFacts
<1> QED BY <1>1, <1>2

\* One unit more of a table, or one query more.
LEMMA NextUnit ==
  ASSUME Chosen, NEW n \in 1..Tables, NEW j \in 1..Units
  PROVE  /\ Units * (n - 1) + j \in 1..PlanLength
         /\ Atomic!Plan[Units * (n - 1) + j] = UnitOf(n, j)
         /\ Atomic!Whole(Units * (n - 1) + j) =
              Atomic!Whole((Units * (n - 1) + j) - 1) \o UnitOf(n, j)
<1>1. /\ Units * (n - 1) + j \in 1..PlanLength
      /\ Atomic!Plan[Units * (n - 1) + j] = UnitOf(n, j)
  BY PlanFacts
<1>2. Atomic!Whole(Units * (n - 1) + j) =
        Atomic!Whole((Units * (n - 1) + j) - 1) \o Atomic!Plan[Units * (n - 1) + j]
  BY <1>1, OneMore
<1> QED BY <1>1, <1>2

LEMMA NextQuery ==
  ASSUME Chosen, NEW i \in 1..Asked
  PROVE  /\ Units * Tables + i \in 1..PlanLength
         /\ Atomic!Whole(Units * Tables + i) =
              Atomic!Whole((Units * Tables + i) - 1)
                \o Result(args.query[IF i <= Len(args.query) THEN i ELSE Len(args.query)])
<1>1. /\ Units * Tables + i \in 1..PlanLength
      /\ Atomic!Plan[Units * Tables + i] =
           Result(args.query[IF i <= Len(args.query) THEN i ELSE Len(args.query)])
  BY PlanFacts
<1>2. Atomic!Whole(Units * Tables + i) =
        Atomic!Whole((Units * Tables + i) - 1) \o Atomic!Plan[Units * Tables + i]
  BY <1>1, OneMore
<1> QED BY <1>1, <1>2

-------------------------------------------------------------------------------
\* Which tables a log creates.
Makes(log, name) == Makers(log, name) # {}

LEMMA MakesEither ==
  ASSUME NEW a, IsSeq(a), NEW b, IsSeq(b), NEW name
  PROVE  Makes(a \o b, name) <=> Makes(a, name) \/ Makes(b, name)
<1> PICK r : r = a \o b
  OBVIOUS
<1>1. /\ Len(a) \in Nat /\ DOMAIN a = 1..Len(a) /\ Len(b) \in Nat /\ DOMAIN b = 1..Len(b)
      /\ IsSeq(r) /\ Len(r) = Len(a) + Len(b)
      /\ \A i \in 1..Len(a) : r[i] = a[i]
      /\ \A i \in 1..Len(b) : r[Len(a) + i] = b[i]
  BY IsSeqFacts, IsSeqConcat
<1>2. DOMAIN r = 1..(Len(a) + Len(b))
  BY <1>1, IsSeqFacts
<1>3. \A i \in DOMAIN r : i \in 1..Len(a) \/ (i - Len(a) \in 1..Len(b) /\ Len(a) + (i - Len(a)) = i)
  BY <1>1, <1>2
<1>4. (\A i \in 1..Len(a) : i \in DOMAIN r) /\ (\A i \in 1..Len(b) : Len(a) + i \in DOMAIN r)
  BY <1>1, <1>2
<1> DEFINE Made(e) == e.op = "create" /\ e.name = name
<1>5. \A s : Makes(s, name) <=> \E i \in DOMAIN s : Made(s[i])
  BY DEF Makes, Makers
<1> HIDE DEF Made
<1>6. ASSUME NEW i \in DOMAIN r, Made(r[i])
      PROVE  (\E k \in DOMAIN a : Made(a[k])) \/ (\E k \in DOMAIN b : Made(b[k]))
  <2>1. CASE i \in 1..Len(a)
    BY <1>1, <1>6, <2>1
  <2>2. CASE i - Len(a) \in 1..Len(b) /\ Len(a) + (i - Len(a)) = i
    <3>1. r[i] = b[i - Len(a)]
      BY <1>1, <2>2
    <3> QED BY <1>1, <1>6, <2>2, <3>1
  <2> QED BY <1>3, <2>1, <2>2
<1>7. \A k \in DOMAIN a : Made(a[k]) => \E i \in DOMAIN r : Made(r[i])
  BY <1>1, <1>4
<1>8. \A k \in DOMAIN b : Made(b[k]) => \E i \in DOMAIN r : Made(r[i])
  <2> TAKE k \in DOMAIN b
  <2>1. Len(a) + k \in DOMAIN r /\ r[Len(a) + k] = b[k]
    BY <1>1, <1>4
  <2> QED BY <2>1
<1> QED BY <1>5, <1>6, <1>7, <1>8

LEMMA NothingMade ==
  ASSUME NEW name
  PROVE  /\ ~Makes(<<>>, name)
         /\ \A s : ~Makes(Result(s), name)
         /\ \A s : IsSeq(s) => ~Makes(Atomic!Statements(s), name)
<1>1. ~Makes(<<>>, name)
  BY DEF Makes, Makers
<1>2. \A s : ~Makes(Result(s), name)
  <2> TAKE s
  <2>1. ~Makes(<<Written("write")>>, name)
    BY DEF Makes, Makers, Written, Effect
  <2> QED BY <1>1, <2>1 DEF Result
<1>3. ASSUME NEW s, IsSeq(s) PROVE ~Makes(Atomic!Statements(s), name)
  <2> DEFINE S == {n \in Nat : n \in 0..Len(s) =>
                     ~Makes(Atomic!Statements(SubSeq(s, 1, n)), name)}
  <2>1. Len(s) \in Nat
    BY <1>3, IsSeqFacts
  <2>2. 0 \in S
    <3>1. 0 \in 0..Len(s) => Atomic!Statements(SubSeq(s, 1, 0)) = <<>>
      BY <1>3, StatementsFacts
    <3> QED BY <1>1, <3>1
  <2>3. ASSUME NEW n \in Nat, n \in S PROVE n + 1 \in S
    <3> SUFFICES ASSUME n + 1 \in 0..Len(s)
                 PROVE  ~Makes(Atomic!Statements(SubSeq(s, 1, n + 1)), name)
      OBVIOUS
    <3>1. n \in 0..Len(s) /\ n < Len(s)
      BY <2>1
    <3>2. /\ IsSeq(Atomic!Statements(SubSeq(s, 1, n)))
          /\ Atomic!Statements(SubSeq(s, 1, n + 1)) =
               Atomic!Statements(SubSeq(s, 1, n)) \o Result(s[n + 1])
      BY <1>3, <3>1, StatementsFacts
    <3>3. ~Makes(Atomic!Statements(SubSeq(s, 1, n)), name)
      BY <2>3, <3>1
    <3> PICK a : a = Atomic!Statements(SubSeq(s, 1, n))
      OBVIOUS
    <3> PICK b : b = Result(s[n + 1])
      OBVIOUS
    <3>4. IsSeq(b) /\ ~Makes(b, name)
      BY <1>2, ResultIsSeq
    <3>5. ~Makes(a \o b, name)
      BY <3>2, <3>3, <3>4, MakesEither
    <3> QED BY <3>2, <3>5
  <2> HIDE DEF S
  <2>4. Len(s) \in S
    BY <2>1, <2>2, <2>3, Induction
  <2>5. SubSeq(s, 1, Len(s)) = s /\ Len(s) \in 0..Len(s)
    BY <1>3, <2>1, WholeIsSubSeq
  <2> QED BY <2>4, <2>5 DEF S
<1> QED BY <1>1, <1>2, <1>3

\* Only the table of a unit is created by its effects.
LEMMA MadeByUnit ==
  ASSUME Chosen, NEW n \in 1..Tables, NEW j \in 2..Units, NEW name
  PROVE  ~Makes(UnitOf(n, j), name)
<1>1. n \in DOMAIN Atomic!Loaded /\ IsSeq(args.before) /\ IsSeq(args.after)
  BY LoadedTypes, ChosenFacts, SeqIsSeq DEF Tables
<1>2. ~Makes(Atomic!After, name) /\ ~Makes(Atomic!Before, name)
  BY <1>1, NothingMade DEF Atomic!After, Atomic!Before
<1>3. ~Makes(Atomic!RowsOf(n), name)
  <2> PICK r : r = Atomic!RowsOf(n)
    OBVIOUS
  <2>1. IsSeq(r) /\ DOMAIN r = 1..Len(r)
    BY <1>1, RowsOfFacts, IsSeqFacts
  <2>2. \A f, table_, bound : Inserted(f, table_, bound).op = "row"
    BY DEF Inserted, Effect
  <2>3. \A i \in DOMAIN r : r[i].op = "row"
    <3> TAKE i \in DOMAIN r
    <3>1. r[i] = Inserted(Atomic!Loaded[n], TableName(n), BodyRows(Atomic!Loaded[n])[i])
      BY <1>1, <2>1, RowsOfFacts
    <3> QED BY <2>2, <3>1
  <2> QED BY <2>3 DEF Makes, Makers
<1>4. j # 1
  BY PlanFacts
<1> QED BY <1>2, <1>3, <1>4 DEF UnitOf

\* What is done at the end of each unit of a table.
LEMMA TableUnits ==
  ASSUME Chosen, NEW n \in 1..Tables
  PROVE  /\ Units * (n - 1) \in 0..PlanLength /\ Units * n \in 0..PlanLength
         /\ IsSeq(Atomic!Whole(Units * (n - 1))) /\ IsSeq(Atomic!Whole(Units * n))
         /\ \A j \in 1..Units :
              /\ Units * (n - 1) + j \in 1..PlanLength
              /\ Units * (n - 1) + (j - 1) \in 0..PlanLength
              /\ IsSeq(Atomic!Whole(Units * (n - 1) + j))
              /\ IsSeq(Atomic!Whole(Units * (n - 1) + (j - 1)))
              /\ IsSeq(UnitOf(n, j))
              /\ Atomic!Whole(Units * (n - 1) + j) =
                   Atomic!Whole(Units * (n - 1) + (j - 1)) \o UnitOf(n, j)
         /\ Units * n = Units * (n - 1) + Units
         /\ Units * (n - 1) + 0 = Units * (n - 1)
<1>1. Units \in {1, 4} /\ Tables \in Nat /\ n \in Nat /\ n - 1 \in Nat
  BY PlanFacts
<1>2. Units * n = Units * (n - 1) + Units /\ Units * (n - 1) + 0 = Units * (n - 1)
      /\ Units * (n - 1) \in Nat
  <2>1. CASE Units = 1
    BY <1>1, <2>1
  <2>2. CASE Units = 4
    BY <1>1, <2>2
  <2> QED BY <1>1, <2>1, <2>2
<1>3. ASSUME NEW j \in 1..Units
      PROVE  /\ Units * (n - 1) + j \in 1..PlanLength
             /\ Units * (n - 1) + (j - 1) \in 0..PlanLength
             /\ IsSeq(Atomic!Whole(Units * (n - 1) + j))
             /\ IsSeq(Atomic!Whole(Units * (n - 1) + (j - 1)))
             /\ IsSeq(UnitOf(n, j))
             /\ Atomic!Whole(Units * (n - 1) + j) =
                  Atomic!Whole(Units * (n - 1) + (j - 1)) \o UnitOf(n, j)
  <2>1. /\ Units * (n - 1) + j \in 1..PlanLength
        /\ Atomic!Plan[Units * (n - 1) + j] = UnitOf(n, j)
        /\ Atomic!Whole(Units * (n - 1) + j) =
             Atomic!Whole((Units * (n - 1) + j) - 1) \o UnitOf(n, j)
    BY NextUnit
  <2>2. (Units * (n - 1) + j) - 1 = Units * (n - 1) + (j - 1)
    BY <1>1, <1>2
  <2>3. /\ (Units * (n - 1) + j) - 1 \in 0..PlanLength /\ Units * (n - 1) + j \in 0..PlanLength
        /\ IsSeq(Atomic!Plan[Units * (n - 1) + j])
    BY <2>1, OneMore
  <2>4. /\ IsSeq(Atomic!Whole((Units * (n - 1) + j) - 1))
        /\ IsSeq(Atomic!Whole(Units * (n - 1) + j))
    BY <2>3, WholeFacts
  <2> QED BY <2>1, <2>2, <2>3, <2>4
<1>4. 1 \in 1..Units /\ Units \in 1..Units /\ 1 - 1 = 0
  BY <1>1
<1>5. /\ Units * (n - 1) + (1 - 1) \in 0..PlanLength
      /\ IsSeq(Atomic!Whole(Units * (n - 1) + (1 - 1)))
      /\ Units * (n - 1) + Units \in 1..PlanLength
      /\ IsSeq(Atomic!Whole(Units * (n - 1) + Units))
  BY <1>3, <1>4
<1>6. Units * (n - 1) + (1 - 1) = Units * (n - 1)
  BY <1>2
<1>7. Units * n \in 0..PlanLength
  BY <1>2, <1>5, PlanFacts
<1> QED BY <1>2, <1>3, <1>5, <1>6, <1>7

\* The tables of the units before exist, and no others.
LEMMA MadeBefore ==
  ASSUME Chosen, args.create = "if_not_exists", NEW name, name \notin args.exists,
         NEW count \in 0..Tables
  PROVE  Makes(Atomic!Whole(Units * count), name) <=> \E m \in 1..count : TableName(m) = name
<1> DEFINE S == {k \in Nat : k \in 0..Tables =>
                   (Makes(Atomic!Whole(Units * k), name) <=> \E m \in 1..k : TableName(m) = name)}
<1>1. Units \in {1, 4} /\ Tables \in Nat /\ PlanLength \in Nat
  BY PlanFacts
<1>2. 0 \in S
  <2>1. Units * 0 = 0 /\ 0 \in 0..PlanLength
    BY <1>1
  <2>2. Atomic!Whole(0) = <<>>
    BY <2>1, WholeFacts
  <2> QED BY <2>1, <2>2, NothingMade
<1>3. ASSUME NEW k \in Nat, k \in S PROVE k + 1 \in S
  <2> SUFFICES ASSUME k + 1 \in 0..Tables
               PROVE  Makes(Atomic!Whole(Units * (k + 1)), name) <=>
                        \E m \in 1..(k + 1) : TableName(m) = name
    OBVIOUS
  <2> PICK n \in 1..Tables : n = k + 1
    BY <1>1
  <2>1. n - 1 = k /\ n \in Nat /\ k \in 0..Tables
    BY <1>1
  <2>2. Makes(Atomic!Whole(Units * (n - 1)), name) <=> \E m \in 1..(n - 1) : TableName(m) = name
    BY <1>3, <2>1
  <2> DEFINE Upto(j) == Makes(Atomic!Whole(Units * (n - 1) + j), name)
  <2>3. ASSUME NEW j \in 1..Units
        PROVE  Upto(j) <=> Upto(j - 1) \/ Makes(UnitOf(n, j), name)
    <3> PICK a : a = Atomic!Whole(Units * (n - 1) + (j - 1))
      OBVIOUS
    <3> PICK b : b = UnitOf(n, j)
      OBVIOUS
    <3>1. IsSeq(a) /\ IsSeq(b) /\ Atomic!Whole(Units * (n - 1) + j) = a \o b
      BY TableUnits
    <3>2. Makes(a \o b, name) <=> Makes(a, name) \/ Makes(b, name)
      BY <3>1, MakesEither
    <3> QED BY <3>1, <3>2
  <2>4. \A j \in 2..Units : ~Makes(UnitOf(n, j), name)
    BY MadeByUnit
  <2>5. Upto(0) <=> Makes(Atomic!Whole(Units * (n - 1)), name)
    BY TableUnits
  <2>6. Upto(Units) <=> Makes(Atomic!Whole(Units * n), name)
    BY TableUnits
  <2> HIDE DEF Upto
  <2>7. Upto(1) <=> Upto(0) \/ Makes(UnitOf(n, 1), name)
    <3>1. 1 \in 1..Units /\ 1 - 1 = 0
      BY <1>1
    <3> QED BY <2>3, <3>1
  <2>8. Upto(Units) <=> Upto(1)
    <3>1. CASE Units = 1
      BY <3>1
    <3>2. CASE Units = 4
      <4>1. \A j \in 2..Units : j \in 1..Units /\ (Upto(j) <=> Upto(j - 1))
        BY <2>3, <2>4, <3>2
      <4>2. (Upto(2) <=> Upto(2 - 1)) /\ (Upto(3) <=> Upto(3 - 1)) /\ (Upto(4) <=> Upto(4 - 1))
        BY <3>2, <4>1
      <4>3. 2 - 1 = 1 /\ 3 - 1 = 2 /\ 4 - 1 = 3
        OBVIOUS
      <4> QED BY <3>2, <4>2, <4>3
    <3> QED BY <1>1, <3>1, <3>2
  <2>9. UnitOf(n, 1) = Atomic!TableOf(n)
    BY DEF UnitOf
  <2>10. \A m \in 1..n : m \in 1..(n - 1) \/ m = n
    BY <2>1
  <2>11. (\A m \in 1..(n - 1) : m \in 1..n) /\ n \in 1..n
    BY <2>1
  <2>12. CASE TableName(n) = name /\ Atomic!Repeated(n)
    <3>1. \E m \in 1..(n - 1) : TableName(m) = name
      BY <2>12, SameEffects DEF Atomic!Repeated
    <3> QED BY <2>2, <2>5, <2>6, <2>7, <2>8, <2>11, <3>1
  <2>13. CASE TableName(n) = name /\ ~Atomic!Repeated(n)
    <3>1. Atomic!TableOf(n) = <<Created(Atomic!Loaded[n], name)>>
      BY <2>13, SameRows, SameEffects DEF Atomic!TableOf
    <3>2. Makes(Atomic!TableOf(n), name)
      BY <3>1 DEF Makes, Makers, Created, Effect
    <3> QED BY <2>6, <2>7, <2>8, <2>9, <2>11, <2>13, <3>2
  <2>14. CASE TableName(n) # name
    <3>1. ~Makes(Atomic!TableOf(n), name)
      <4>1. ~Makes(<<Created(Atomic!Loaded[n], TableName(n))>>, name)
        BY <2>14 DEF Makes, Makers, Created, Effect
      <4>2. Atomic!TableOf(n) = <<>> \/ Atomic!TableOf(n) = <<Created(Atomic!Loaded[n], TableName(n))>>
        BY SameRows, SameEffects DEF Atomic!TableOf
      <4> QED BY <4>1, <4>2, NothingMade
    <3> QED BY <2>2, <2>5, <2>6, <2>7, <2>8, <2>9, <2>10, <2>11, <2>14, <3>1
  <2> QED BY <2>12, <2>13, <2>14
<1> HIDE DEF S
<1>4. count \in S
  BY <1>1, <1>2, <1>3, Induction
<1> QED BY <1>4 DEF S

LEMMA RepeatedExists ==
  ASSUME Chosen, args.create = "if_not_exists", NEW n \in 1..Tables
  PROVE  Exists(Atomic!Whole(Units * (n - 1)), TableName(n)) <=> Atomic!Repeated(n)
<1>1. n - 1 \in 0..Tables
  BY PlanFacts
<1>2. CASE TableName(n) \in args.exists
  BY <1>2, SameEffects DEF Exists, Atomic!Repeated
<1>3. CASE TableName(n) \notin args.exists
  <2>1. Makes(Atomic!Whole(Units * (n - 1)), TableName(n)) <=>
          \E m \in 1..(n - 1) : TableName(m) = TableName(n)
    BY <1>1, <1>3, MadeBefore
  <2> QED BY <1>3, <2>1, SameEffects DEF Exists, Makes, Atomic!Repeated
<1> QED BY <1>2, <1>3

-------------------------------------------------------------------------------
(* How far the command is, phase by phase.                                   *)

LEMMA Progress ==
  /\ at \in {"check", "compose"} => UnitsDone = Units * file_no /\ PartDone = <<>>
  /\ at = "create" => UnitsDone = Units * (file_no - 1) /\ PartDone = <<>>
  /\ at = "before" => /\ UnitsDone = Units * (file_no - 1) + 1
                      /\ PartDone = Atomic!Statements(SubSeq(args.before, 1, script - 1))
  /\ at = "insert" => UnitsDone = Units * (file_no - 1) + 2 /\ PartDone = <<>>
  /\ at = "rows" => /\ UnitsDone = Units * (file_no - 1) + 2
                    /\ PartDone = SubSeq(Atomic!RowsOf(file_no), 1, Sent)
  /\ at = "after" => /\ UnitsDone = Units * (file_no - 1) + 3
                     /\ PartDone = Atomic!Statements(SubSeq(args.after, 1, script - 1))
  /\ at = "query" => UnitsDone = Units * file_no + script - 1 /\ PartDone = <<>>
  /\ at = "header" => UnitsDone = Units * file_no + Len(args.query) /\ PartDone = <<>>
BY DEF UnitsDone, PartDone, InScript, Script

LEMMA ProgressNext ==
  /\ at' \in {"check", "compose"} => UnitsDone' = Units' * file_no' /\ PartDone' = <<>>
  /\ at' = "create" => UnitsDone' = Units' * (file_no' - 1) /\ PartDone' = <<>>
  /\ at' = "before" => /\ UnitsDone' = Units' * (file_no' - 1) + 1
                       /\ PartDone' = Atomic!Statements(SubSeq(args'.before, 1, script' - 1))
  /\ at' = "insert" => UnitsDone' = Units' * (file_no' - 1) + 2 /\ PartDone' = <<>>
  /\ at' = "rows" => /\ UnitsDone' = Units' * (file_no' - 1) + 2
                     /\ PartDone' = SubSeq(Atomic!RowsOf(file_no)', 1, Sent')
  /\ at' = "after" => /\ UnitsDone' = Units' * (file_no' - 1) + 3
                      /\ PartDone' = Atomic!Statements(SubSeq(args'.after, 1, script' - 1))
  /\ at' = "query" => UnitsDone' = Units' * file_no' + script' - 1 /\ PartDone' = <<>>
  /\ at' = "header" => UnitsDone' = Units' * file_no' + Len(args'.query) /\ PartDone' = <<>>
BY DEF UnitsDone, PartDone, InScript, Script

LEMMA Outcomes ==
  ASSUME unwinding \in BOOLEAN
  PROVE
  /\ Outcome = "running" <=> at \notin Ended /\ ~unwinding
  /\ Outcome = "torn" <=> at \notin Ended /\ unwinding
  /\ Outcome = "done" <=> at = "done"
  /\ Outcome = "stopped" <=> at \in Ended \ {"done"}
BY DEF Outcome, Ended

LEMMA OutcomesNext ==
  ASSUME unwinding' \in BOOLEAN
  PROVE
  /\ Outcome' = "running" <=> at' \notin Ended /\ ~unwinding'
  /\ Outcome' = "torn" <=> at' \notin Ended /\ unwinding'
  /\ Outcome' = "done" <=> at' = "done"
  /\ Outcome' = "stopped" <=> at' \in Ended \ {"done"}
BY DEF Outcome, Ended

\* The table whose turn it is.
LEMMA Turn ==
  ASSUME SqlInv, PlanInv, at \in WithFile
  PROVE  /\ file_no \in 1..Tables /\ file_no \in DOMAIN Atomic!Loaded
         /\ Atomic!Loaded[file_no] = file /\ table.name = TableName(file_no)
         /\ HasBody(file) /\ Chosen
<1>1. /\ HasBody(file) /\ file_no = Len(Atomic!LoadedUpto(file)) /\ table.name = TableName(file_no)
      /\ file \in 1..N /\ Chosen
  BY WithFileFacts DEF PlanInv, FilesOK, SqlInv
<1>2. file_no \in DOMAIN Atomic!Loaded /\ Atomic!Loaded[file_no] = file
  BY <1>1, LoadedAt
<1>3. file_no \in 1..Tables
  BY <1>2, LoadedTypes DEF Tables
<1> QED BY <1>1, <1>2, <1>3

LEMMA NoStatements ==
  ASSUME NEW s, IsSeq(s), NEW n \in {-1, 0}
  PROVE  Atomic!Statements(SubSeq(s, 1, n)) = <<>>
<1>1. 0 \in 0..Len(s)
  BY IsSeqFacts
<1>2. Atomic!Statements(SubSeq(s, 1, 0)) = <<>>
  BY <1>1, StatementsFacts
<1>3. SubSeq(s, 1, n) = <<>> /\ SubSeq(s, 1, 0) = <<>>
  BY SubSeqEmpty
<1> QED BY <1>2, <1>3

\* How far a list of statements is.
LEMMA StatementsDone ==
  ASSUME NEW s, IsSeq(s), NEW n \in 0..(Len(s) + 1)
  PROVE  /\ IsSeq(Atomic!Statements(SubSeq(s, 1, n - 1)))
         /\ IsPrefix(Atomic!Statements(SubSeq(s, 1, n - 1)), Atomic!Statements(s))
         /\ IsSeq(Atomic!Statements(s))
         /\ n <= 1 => Atomic!Statements(SubSeq(s, 1, n - 1)) = <<>>
         /\ n > Len(s) => Atomic!Statements(SubSeq(s, 1, n - 1)) = Atomic!Statements(s)
         /\ n \in DOMAIN s => Atomic!Statements(SubSeq(s, 1, n)) =
                                Atomic!Statements(SubSeq(s, 1, n - 1)) \o Result(s[n])
<1>1. Len(s) \in Nat /\ DOMAIN s = 1..Len(s) /\ n \in Nat /\ SubSeq(s, 1, Len(s)) = s
  BY IsSeqFacts, WholeIsSubSeq
<1> PICK all : all = Atomic!Statements(s)
  OBVIOUS
<1>2. IsSeq(all)
  <2>1. Len(s) \in 0..Len(s)
    BY <1>1
  <2>2. IsSeq(Atomic!Statements(SubSeq(s, 1, Len(s))))
    BY <2>1, StatementsFacts
  <2> QED BY <1>1, <2>2
<1>3. CASE n = 0
  <2>1. n - 1 \in {-1, 0} /\ n \notin DOMAIN s /\ ~(n > Len(s))
    BY <1>1, <1>3
  <2>2. Atomic!Statements(SubSeq(s, 1, n - 1)) = <<>>
    BY <2>1, NoStatements
  <2>3. IsPrefix(<<>>, all)
    BY <1>1, <1>2, IsSeqEmpty, PrefixFacts
  <2> QED BY <1>2, <2>1, <2>2, <2>3, IsSeqEmpty
<1>4. CASE n # 0
  <2> PICK m \in 0..Len(s) : m = n - 1
    BY <1>1, <1>4
  <2>1. /\ IsSeq(Atomic!Statements(SubSeq(s, 1, m)))
        /\ m = 0 => Atomic!Statements(SubSeq(s, 1, m)) = <<>>
        /\ m < Len(s) => Atomic!Statements(SubSeq(s, 1, m + 1)) =
                           Atomic!Statements(SubSeq(s, 1, m)) \o Result(s[m + 1])
        /\ IsPrefix(Atomic!Statements(SubSeq(s, 1, m)), Atomic!Statements(s))
    BY StatementsFacts
  <2>2. /\ m + 1 = n /\ (n <= 1 => m = 0) /\ (n > Len(s) => m = Len(s))
        /\ (n \in DOMAIN s => m < Len(s))
    BY <1>1, <1>4
  <2> QED BY <1>1, <1>2, <2>1, <2>2
<1> QED BY <1>3, <1>4

LEMMA AskedFacts ==
  ASSUME Chosen
  PROVE  /\ Again => Asked = Len(args.query) + 1
         /\ ~Again => Asked = Len(args.query)
         /\ Asked \in Nat /\ Len(args.query) <= Asked
<1> PICK l : l = Len(args.query)
  OBVIOUS
<1>1. l \in Nat
  BY QueryFacts
<1>2. CASE Again
  <2>1. Asked = l + 1
    BY <1>2 DEF Asked
  <2> QED BY <1>1, <1>2, <2>1
<1>3. CASE ~Again
  <2>1. Asked = l + 0
    BY <1>3 DEF Asked
  <2> QED BY <1>1, <1>3, <2>1
<1> QED BY <1>2, <1>3

\* Where a running command is: between two units, or in one of them.
LEMMA Standing ==
  ASSUME SqlInv, PlanInv, Outcome = "running"
  PROVE  /\ UnitsDone \in 0..PlanLength /\ IsSeq(PartDone)
         /\ PartDone = <<>> \/ (UnitsDone < PlanLength /\ IsPrefix(PartDone, Atomic!Plan[UnitsDone + 1]))
         /\ at \in {"check", "compose"} => file_no \in 0..Tables
<1>1. Chosen /\ at \in Phases \ {"thrown"} /\ ~unwinding
  <2>1. at \in Phases \cup Ended
    BY DEF SqlInv, SqlTypeOK
  <2>2. at \notin Ended /\ ~unwinding
    BY Types, Outcomes
  <2>3. at # "thrown"
    BY <2>2 DEF PlanInv, TornOK
  <2> QED BY <2>1, <2>2, <2>3 DEF SqlInv
<1>2. CASE at \in {"check", "compose"}
  <2>1. UnitsDone = Units * file_no /\ PartDone = <<>>
    BY <1>2, Progress
  <2>2. file - 1 \in 0..N /\ file_no = Len(Atomic!LoadedUpto(file - 1))
    BY <1>2, Types, Constants DEF PlanInv, FilesOK
  <2>3. /\ IsSeq(Atomic!LoadedUpto(file - 1)) /\ IsSeq(Atomic!Loaded)
        /\ IsPrefix(Atomic!LoadedUpto(file - 1), Atomic!Loaded)
    BY <2>2, LoadedFacts, LoadedTypes
  <2>4. file_no <= Tables /\ file_no \in Nat /\ Tables \in Nat /\ PlanLength \in Nat
    BY <1>1, <2>2, <2>3, PrefixFacts, Types, PlanFacts DEF Tables
  <2>5. Units * file_no \in 0..PlanLength
    <3>1. CASE file_no = 0
      <4>1. Units * 0 = 0
        BY <1>1, PlanFacts
      <4> QED BY <2>4, <3>1, <4>1
    <3>2. CASE file_no # 0
      <4>1. file_no \in 1..Tables
        BY <2>4, <3>2
      <4> QED BY <1>1, <4>1, TableUnits
    <3> QED BY <3>1, <3>2
  <2> QED BY <2>1, <2>4, <2>5, IsSeqEmpty
<1>3. CASE at \in {"create", "insert", "before", "rows", "after"}
  <2> DEFINE n == file_no
  <2>1. at \in WithFile
    BY <1>3 DEF WithFile
  <2>2. n \in 1..Tables /\ n \in DOMAIN Atomic!Loaded
    BY <2>1, Turn
  <2>3. at # "create" => Units = 4
    BY <1>3 DEF PlanInv, FilesOK, Units
  <2>4. Units \in {1, 4} /\ PlanLength \in Nat /\ 1 - 1 = 0 /\ 2 - 1 = 1 /\ 3 - 1 = 2 /\ 4 - 1 = 3
    BY <1>1, PlanFacts
  <2>5. ASSUME NEW j \in 1..Units
        PROVE  /\ Units * (n - 1) + (j - 1) \in 0..PlanLength
               /\ Units * (n - 1) + (j - 1) < PlanLength
               /\ (Units * (n - 1) + (j - 1)) + 1 = Units * (n - 1) + j
               /\ Atomic!Plan[Units * (n - 1) + j] = UnitOf(n, j)
    <3>1. Units * (n - 1) + j \in 1..PlanLength /\ Units * (n - 1) + (j - 1) \in 0..PlanLength
      BY <1>1, <2>2, TableUnits
    <3>2. Atomic!Plan[Units * (n - 1) + j] = UnitOf(n, j)
      BY <1>1, <2>2, NextUnit
    <3>3. n - 1 \in Int /\ Units * (n - 1) \in Int
      BY <2>2, <2>4
    <3>4. Units * (n - 1) + (j - 1) < PlanLength /\ (Units * (n - 1) + (j - 1)) + 1 = Units * (n - 1) + j
      BY <2>4, <3>1, <3>3
    <3> QED BY <3>1, <3>2, <3>4
  <2>6. ASSUME NEW j \in 1..Units, UnitsDone = Units * (n - 1) + (j - 1), IsSeq(PartDone),
               PartDone = <<>> \/ IsPrefix(PartDone, UnitOf(n, j))
        PROVE  /\ UnitsDone \in 0..PlanLength /\ IsSeq(PartDone)
               /\ \/ PartDone = <<>>
                  \/ (UnitsDone < PlanLength /\ IsPrefix(PartDone, Atomic!Plan[UnitsDone + 1]))
    BY <2>5, <2>6
  <2>7. CASE at = "create"
    <3>1. 1 \in 1..Units /\ UnitsDone = Units * (n - 1) + (1 - 1) /\ PartDone = <<>>
      BY <1>1, <2>2, <2>4, <2>7, Progress, TableUnits
    <3> QED BY <2>6, <2>7, <3>1, IsSeqEmpty
  <2>8. CASE at = "insert"
    <3>1. 3 \in 1..Units /\ UnitsDone = Units * (n - 1) + (3 - 1) /\ PartDone = <<>>
      BY <2>3, <2>4, <2>8, Progress
    <3> QED BY <2>6, <2>8, <3>1, IsSeqEmpty
  <2>9. CASE at = "before"
    <3>1. /\ 2 \in 1..Units /\ UnitsDone = Units * (n - 1) + (2 - 1)
          /\ PartDone = Atomic!Statements(SubSeq(args.before, 1, script - 1))
      BY <2>3, <2>4, <2>9, Progress
    <3>2. IsSeq(args.before) /\ script \in 0..(Len(args.before) + 1) /\ ~Autocommit
      BY <1>1, <2>9, ChosenFacts, SeqIsSeq DEF PlanInv, FilesOK, InScript, Script, SqlInv, SessionOK
    <3>3. UnitOf(n, 2) = Atomic!Statements(args.before)
      BY <3>2, SameEffects DEF UnitOf, Atomic!Before
    <3>4. IsSeq(PartDone) /\ IsPrefix(PartDone, UnitOf(n, 2))
      BY <3>1, <3>2, <3>3, StatementsDone
    <3> QED BY <2>6, <2>9, <3>1, <3>4
  <2>10. CASE at = "rows"
    <3>1. /\ 3 \in 1..Units /\ UnitsDone = Units * (n - 1) + (3 - 1)
          /\ PartDone = SubSeq(Atomic!RowsOf(n), 1, Sent)
      BY <2>3, <2>4, <2>10, Progress
    <3>2. IsSeq(Atomic!RowsOf(n)) /\ Len(Atomic!RowsOf(n)) = Len(keys[file])
      BY <1>1, <2>1, <2>2, RowsOfFacts, Turn
    <3>3. Sent \in 0..Len(keys[file])
      <4>1. Sent \in Nat /\ Sent + offset = row /\ row <= Len(keys[file])
        BY <2>10, BufferFacts
      <4>2. offset \in Nat /\ row \in Nat /\ Len(keys[file]) \in Nat
        BY <2>1, WithFileFacts, Types
      <4> QED BY <4>1, <4>2
    <3>4. UnitOf(n, 3) = Atomic!RowsOf(n)
      BY DEF UnitOf
    <3>5. IsSeq(PartDone) /\ IsPrefix(PartDone, UnitOf(n, 3))
      <4> PICK r : r = Atomic!RowsOf(n)
        OBVIOUS
      <4> PICK p : p = PartDone
        OBVIOUS
      <4>1. IsSeq(p) /\ Len(p) = Sent /\ \A i \in 1..Sent : p[i] = r[i]
        BY <3>1, <3>2, <3>3, IsSeqPrefix
      <4>2. Len(p) <= Len(r)
        BY <2>1, <3>2, <3>3, <4>1, WithFileFacts
      <4> QED BY <3>2, <3>4, <4>1, <4>2, PrefixFacts
    <3> QED BY <2>6, <2>10, <3>1, <3>5
  <2>11. CASE at = "after"
    <3>1. /\ 4 \in 1..Units /\ UnitsDone = Units * (n - 1) + (4 - 1)
          /\ PartDone = Atomic!Statements(SubSeq(args.after, 1, script - 1))
      BY <2>3, <2>4, <2>11, Progress
    <3>2. IsSeq(args.after) /\ script \in 0..(Len(args.after) + 1)
      BY <1>1, <2>11, ChosenFacts, SeqIsSeq DEF PlanInv, FilesOK, InScript, Script
    <3>3. UnitOf(n, 4) = Atomic!Statements(args.after)
      BY DEF UnitOf, Atomic!After
    <3>4. IsSeq(PartDone) /\ IsPrefix(PartDone, UnitOf(n, 4))
      BY <3>1, <3>2, <3>3, StatementsDone
    <3> QED BY <2>6, <2>11, <3>1, <3>4
  <2> QED BY <1>3, <2>7, <2>8, <2>9, <2>10, <2>11
<1>4. CASE at \in {"query", "header"}
  <2> PICK t : t = Units * Tables
    OBVIOUS
  <2> PICK l : l = Len(args.query)
    OBVIOUS
  <2>1. t \in Nat /\ l \in Nat /\ PlanLength = t + Asked /\ Asked \in Nat /\ l <= Asked
    <3>1. Units \in {1, 4} /\ Tables \in Nat /\ l \in Nat
      BY <1>1, PlanFacts, QueryFacts
    <3> QED BY <1>1, <3>1, AskedFacts DEF PlanLength
  <2>2. Units * file_no = t
    BY <1>4 DEF PlanInv, FilesOK, Tables
  <2>3. at = "query" => script \in Nat /\ (script = 1 \/ script \in 1..l)
    BY Types DEF PlanInv, FilesOK
  <2>4. PartDone = <<>> /\ (UnitsDone = t + script - 1 \/ UnitsDone = t + l)
        /\ (at # "query" => UnitsDone = t + l)
    BY <1>4, <2>2, Progress
  <2>5. UnitsDone \in 0..PlanLength
    BY <1>4, <2>1, <2>3, <2>4
  <2> QED BY <1>4, <2>4, <2>5, IsSeqEmpty
<1> QED BY <1>1, <1>2, <1>3, <1>4 DEF Phases

LEMMA Placed ==
  ASSUME SqlInv, PlanInv, Outcome = "running"
  PROVE  /\ IsPrefix(View, Atomic!Everything) /\ IsSeq(Atomic!Everything)
         /\ Autocommit => View = committed
<1>1. Chosen /\ View = Atomic!Whole(UnitsDone) \o PartDone
  BY DEF SqlInv, PlanInv, UnitsOK
<1>2. /\ UnitsDone \in 0..PlanLength /\ IsSeq(PartDone)
      /\ PartDone = <<>> \/ (UnitsDone < PlanLength /\ IsPrefix(PartDone, Atomic!Plan[UnitsDone + 1]))
  BY Standing
<1>3. IsPrefix(Atomic!Whole(UnitsDone) \o PartDone, Atomic!Everything) /\ IsSeq(Atomic!Everything)
  BY <1>1, <1>2, PlaceFacts, WholeFacts
<1>4. Autocommit => View = committed
  <2>1. Autocommit => pending = <<>>
    BY DEF PlanInv, UnitsOK
  <2> QED BY <2>1, Types, ConcatEmpty DEF View
<1> QED BY <1>1, <1>3, <1>4

LEMMA PlacedNext ==
  (SqlInv' /\ PlanInv' /\ Outcome' = "running") =>
    /\ IsPrefix(View', Atomic!Everything') /\ IsSeq(Atomic!Everything')
    /\ Autocommit' => View' = committed'
<1> DEFINE P == SqlInv /\ PlanInv /\ Outcome = "running"
           Q == /\ IsPrefix(View, Atomic!Everything) /\ IsSeq(Atomic!Everything)
                /\ Autocommit => View = committed
<1>1. P => Q
  BY Placed
<1> HIDE DEF P, Q
<1>2. P' => Q'
  BY <1>1, PTL
<1> QED BY <1>2 DEF P, Q

-------------------------------------------------------------------------------
(* How a step of the command is one of the abstract specification.           *)

Refined == [Atomic!Next]_<<committed, Outcome>>

\* More of everything, from the front.
LEMMA Partially ==
  ASSUME IsSeq(committed), NEW t, IsSeq(t), IsSeq(Atomic!Everything),
         IsPrefix(committed, t), IsPrefix(t, Atomic!Everything)
  PROVE  Atomic!IsPrefix(committed, Atomic!Everything) /\ t \in Atomic!Partial
<1> PICK every : every = Atomic!Everything
  OBVIOUS
<1> PICK s : s = committed
  OBVIOUS
<1>1. IsSeq(s) /\ IsSeq(every) /\ IsPrefix(s, t) /\ IsPrefix(t, every)
  OBVIOUS
<1>2. IsPrefix(s, every)
  BY <1>1, PrefixThrough
<1>3. t = s \o SubSeq(every, Len(s) + 1, Len(t)) /\ Len(t) \in Len(s)..Len(every)
  BY <1>1, PrefixGrows
<1>4. Atomic!Partial = {s \o SubSeq(every, Len(s) + 1, m) : m \in Len(s)..Len(every)}
  BY DEF Atomic!Partial
<1>5. t \in Atomic!Partial
  BY <1>3, <1>4
<1> QED BY <1>2, <1>5, SameSequences

\* One unit more, or, with a connection that commits on its own, a piece more.
LEMMA RunStep ==
  ASSUME SqlInv, SqlInv', PlanInv, UNCHANGED Command, Outcome = "running",
         at' \notin Ended \cup {"thrown"}, ~unwinding', FilesOK', UnitsOK',
         \/ committed' = committed
         \/ ~Autocommit /\ UnitsDone < PlanLength /\ committed' = Atomic!Whole(UnitsDone + 1)
         \/ Autocommit /\ IsPrefix(committed, committed')
  PROVE  PlanInv' /\ Refined
<1>1. TornOK'
  BY DEF TornOK
<1>2. PlanInv' /\ Chosen
  BY <1>1 DEF PlanInv, SqlInv
<1>3. unwinding' \in BOOLEAN
  BY DEF SqlInv, SqlTypeOK
<1>4. Outcome' = "running"
  BY <1>3, OutcomesNext
<1>5. CASE committed' = committed
  BY <1>2, <1>4, <1>5 DEF Refined
<1>6. CASE ~Autocommit /\ UnitsDone < PlanLength /\ committed' = Atomic!Whole(UnitsDone + 1)
  <2> PICK k : k = UnitsDone
    OBVIOUS
  <2>1. k \in 0..PlanLength /\ PlanLength \in Nat /\ Len(Atomic!Plan) = PlanLength
    BY <1>2, Standing, PlanFacts
  <2>2. k \in 0..(Len(Atomic!Plan) - 1)
    BY <1>6, <2>1
  <2>3. committed = Atomic!Whole(k) /\ committed' = Atomic!Whole(k + 1)
    BY <1>6 DEF PlanInv, UnitsOK
  <2>4. Atomic!Unit
    BY <1>4, <2>2, <2>3 DEF Atomic!Unit
  <2> QED BY <1>2, <2>4 DEF Refined, Atomic!Next
<1>7. CASE Autocommit /\ IsPrefix(committed, committed')
  <2>1. IsSeq(committed) /\ IsSeq(committed')
    BY DEF SqlInv, LogsOK, IsSeq
  <2>2. Autocommit' /\ Atomic!Everything' = Atomic!Everything
    BY <1>7, SameCommand, SamePlan
  <2>3. View' = committed' /\ IsPrefix(View', Atomic!Everything) /\ IsSeq(Atomic!Everything)
    BY <1>2, <1>4, <2>2, PlacedNext
  <2> PICK t : t = committed'
    OBVIOUS
  <2>4. Atomic!IsPrefix(committed, Atomic!Everything) /\ t \in Atomic!Partial
    BY <1>7, <2>1, <2>3, Partially
  <2>5. Atomic!Piece
    BY <1>4, <1>7, <2>4, SameEffects DEF Atomic!Piece
  <2> QED BY <1>2, <2>5 DEF Refined, Atomic!Next
<1> QED BY <1>5, <1>6, <1>7

\* What closes the session stops the command, wherever it is.
LEMMA Stops ==
  ASSUME SqlInv, PlanInv, at \notin Ended, UNCHANGED Command, at' \in Ended \ {"done"},
         unwinding' \in BOOLEAN,
         committed' = committed \/
           (Autocommit /\ IsSeq(committed') /\ IsPrefix(committed, committed')
            /\ IsPrefix(committed', Atomic!Everything))
  PROVE  PlanInv' /\ Refined
<1>1. Outcome' = "stopped" /\ Outcome' # "running"
  BY OutcomesNext
<1>2. Outcome \in {"running", "torn"}
  BY Types, Outcomes
<1>3. PlanInv'
  <2>1. FilesOK'
    BY DEF FilesOK, Ended, WithFile, InScript
  <2>2. UnitsOK'
    BY <1>1 DEF UnitsOK
  <2>3. TornOK'
    BY DEF TornOK, Ended
  <2> QED BY <2>1, <2>2, <2>3 DEF PlanInv
<1>4. Atomic!Stop
  <2>1. CASE committed' = committed
    BY <1>1, <1>2, <2>1 DEF Atomic!Stop
  <2>2. CASE committed' # committed
    <3> PICK t : t = committed'
      OBVIOUS
    <3>1. IsSeq(committed) /\ IsSeq(Atomic!Everything)
      <4>1. 0 \in 0..PlanLength /\ Chosen
        BY PlanFacts DEF SqlInv
      <4> QED BY <4>1, Types, WholeFacts
    <3>2. Atomic!IsPrefix(committed, Atomic!Everything) /\ t \in Atomic!Partial
      BY <2>2, <3>1, Partially
    <3> QED BY <1>1, <1>2, <2>2, <3>2, SameEffects DEF Atomic!Stop
  <2> QED BY <2>1, <2>2
<1> QED BY <1>3, <1>4 DEF Refined, Atomic!Next

LEMMA Closes ==
  ASSUME SqlInv, PlanInv, at \notin Ended, UNCHANGED Command,
         NEW end \in Ended \ {"done"}, Close(end), unwinding' \in BOOLEAN
  PROVE  PlanInv' /\ Refined
<1>1. at' \in Ended \ {"done"} /\ (committed' = committed \/ (Autocommit /\ committed' = View))
  BY DEF Close
<1>2. IsSeq(committed) /\ IsSeq(pending) /\ IsSeq(View) /\ View = committed \o pending
  BY Types DEF View
<1>3. CASE committed' = committed
  BY <1>1, <1>3, Stops
<1>4. CASE committed' # committed
  <2>1. Autocommit /\ committed' = View /\ pending # <<>>
    BY <1>1, <1>2, <1>4, ConcatEmpty
  <2>2. IsPrefix(View, Atomic!Everything)
    <3>1. CASE Outcome = "running"
      BY <3>1, Placed
    <3>2. CASE Outcome # "running"
      <4>1. unwinding
        BY <3>2, Types, Outcomes
      <4>2. at = "after"
        BY <2>1 DEF SqlInv, SessionOK
      <4> QED BY <2>1, <4>1, <4>2 DEF PlanInv, TornOK
    <3> QED BY <3>1, <3>2
  <2>3. IsPrefix(committed, View)
    <3> PICK a : a = committed
      OBVIOUS
    <3> PICK b : b = pending
      OBVIOUS
    <3>1. IsPrefix(a, a \o b)
      BY <1>2, PrefixConcat
    <3> QED BY <1>2, <3>1
  <2>4. IsSeq(committed')
    BY <1>2, <2>1
  <2> QED BY <1>1, <2>1, <2>2, <2>3, <2>4, Stops
<1> QED BY <1>3, <1>4

\* What stays true of the table whose turn it is, and of the next reader.
LEMMA SameTurn ==
  ASSUME SqlInv, PlanInv, UNCHANGED Command, UNCHANGED Position, at \in WithFile,
         at' \in {"before", "insert", "rows", "after", "thrown"},
         at \in {"before", "insert", "rows", "after"} \/ Inserting,
         at' = "before" => script' \in 0..(Len(args.before) + 1),
         at' = "after" => script' \in 0..(Len(args.after) + 1)
  PROVE  FilesOK'
<1>1. /\ file' = file /\ file_no' = file_no /\ table' = table /\ args' = args
      /\ HasBody(file) /\ file_no = Len(Atomic!LoadedUpto(file)) /\ table.name = TableName(file_no)
      /\ Inserting /\ ValidArgs
  <2>1. at \notin Ended \cup {"check"}
    BY DEF WithFile, Ended
  <2> QED BY <2>1 DEF Position, Command, PlanInv, FilesOK
<1>2. /\ HasBody(file)' /\ file_no' = Len(Atomic!LoadedUpto(file)') /\ table'.name = TableName(file_no)'
      /\ Inserting' /\ ValidArgs'
  BY <1>1, SamePlan
<1>3. at' \notin {"check", "compose", "query", "header"}
  OBVIOUS
<1>4. InScript' => script' \in 0..(Len(Script') + 1)
  BY <1>1 DEF InScript, Script
<1> QED BY <1>2, <1>3, <1>4 DEF FilesOK

LEMMA NextTurn ==
  ASSUME SqlInv, PlanInv, UNCHANGED Command, UNCHANGED file_no, NextFile, at \in WithFile
  PROVE  FilesOK'
<1>1. at' = "compose" /\ file' = file + 1 /\ file' - 1 = file
  BY WithFileFacts, Constants DEF NextFile
<1>2. /\ file_no' = Len(Atomic!LoadedUpto(file)) /\ ValidArgs
  <2>1. at \notin Ended \cup {"check"}
    BY DEF WithFile, Ended
  <2> QED BY <2>1 DEF PlanInv, FilesOK
<1>3. (file_no = Len(Atomic!LoadedUpto(file - 1)))' /\ ValidArgs'
  BY <1>1, <1>2, SamePlan
<1>4. at' \notin WithFile /\ ~InScript' /\ at' \notin {"query", "header", "before", "insert", "rows", "after"}
  BY <1>1 DEF WithFile, InScript
<1> QED BY <1>1, <1>3, <1>4 DEF FilesOK

\* An insertion fails, and the statements after it are next.
LEMMA Tears ==
  ASSUME SqlInv, SqlInv', PlanInv, Outcome = "running", UNCHANGED Command, UNCHANGED Position,
         at \in {"insert", "rows"}, at' = "after", script' = 0, unwinding' = TRUE,
         committed' = committed, tx' = "none" => Autocommit,
         pending' \in Atomic!Parts(Atomic!RowsOf(file_no)),
         Autocommit /\ pending' # <<>> => IsPrefix(View', Atomic!Everything)
  PROVE  PlanInv' /\ Refined
<1>1. at \in WithFile /\ at' \notin Ended
  BY DEF WithFile, Ended
<1>2. args.after # <<>> /\ args' = args /\ Len(args.after) \in Nat
  <2>1. (args.after # <<>>)'
    BY DEF SqlInv, SessionOK
  <2>2. IsSeq(args.after)
    BY ChosenFacts, SeqIsSeq DEF SqlInv
  <2> QED BY <2>1, <2>2, IsSeqFacts DEF Command
<1>3. FilesOK'
  BY <1>1, <1>2, SameTurn
<1>4. unwinding' \in BOOLEAN /\ Outcome' = "torn"
  BY <1>1, OutcomesNext
<1>5. UnitsOK'
  BY <1>4 DEF UnitsOK
<1>6. TornOK'
  <2>1. /\ (Autocommit' <=> Autocommit) /\ Atomic!Everything' = Atomic!Everything
        /\ \A n : Atomic!RowsOf(n)' = Atomic!RowsOf(n)
        /\ file_no' = file_no
    BY SameCommand, SamePlan DEF Position
  <2> PICK r : r = pending'
    OBVIOUS
  <2>2. r \in Atomic!Parts(Atomic!RowsOf(file_no)')
    BY <2>1
  <2>3. IsSeq(r) /\ IsSeq(args.after)
    <3>1. IsSeq(pending')
      BY DEF SqlInv, LogsOK, IsSeq
    <3>2. IsSeq(args.after)
      BY ChosenFacts, SeqIsSeq DEF SqlInv
    <3> QED BY <3>1, <3>2
  <2>4. Atomic!Statements(SubSeq(args.after, 1, script' - 1)) = <<>>
    <3>1. script' - 1 = -1
      OBVIOUS
    <3> QED BY <2>3, <3>1, NoStatements
  <2>5. r = r \o <<>> 
    BY <2>3, ConcatEmpty
  <2>6. pending' = r \o (IF Autocommit' THEN <<>>
                         ELSE Atomic!Statements(SubSeq(args'.after, 1, script' - 1)))
    BY <1>2, <2>4, <2>5
  <2>7. \E p \in Atomic!Parts(Atomic!RowsOf(file_no)') :
          pending' = p \o (IF Autocommit' THEN <<>>
                           ELSE Atomic!Statements(SubSeq(args'.after, 1, script' - 1)))
    BY <2>2, <2>6
  <2>8. Autocommit' /\ pending' # <<>> => IsPrefix(View', Atomic!Everything')
    BY <2>1
  <2>9. tx' = "none" => Autocommit'
    BY <2>1
  <2>10. at' = "after" /\ script' = 0
    OBVIOUS
  <2>11. (unwinding => at \in {"after", "thrown"} \cup Ended)' /\ (at = "thrown" => unwinding)'
    BY <2>10
  <2>12. (at = "thrown" => args.after # <<>> /\ args.db \in {"mysql", "postgresql", "oracle"})'
    BY <2>10
  <2>13. (script > 0 => args.db \in {"mysql", "postgresql", "oracle"})'
    BY <2>10
  <2> QED BY <2>7, <2>8, <2>9, <2>11, <2>12, <2>13 DEF TornOK
<1>7. Atomic!Fail
  BY <1>4 DEF Atomic!Fail
<1> QED BY <1>3, <1>5, <1>6, <1>7 DEF PlanInv, Refined, Atomic!Next

\* The first part of what follows what there is, and the last.
LEMMA PartOf ==
  ASSUME NEW s, IsSeq(s)
  PROVE  /\ <<>> \in Atomic!Parts(s)
         /\ s \in Atomic!Parts(s)
         /\ \A i \in 1..(Len(s) + 1) : \A j \in 0..Len(s) : SubSeq(s, i, j) \in Atomic!Parts(s)
<1>1. \A i \in 1..(Len(s) + 1) : \A j \in 0..Len(s) : SubSeq(s, i, j) \in Atomic!Parts(s)
  BY DEF Atomic!Parts
<1>2. Len(s) \in Nat /\ 1 \in 1..(Len(s) + 1) /\ 0 \in 0..Len(s) /\ Len(s) \in 0..Len(s)
  BY IsSeqFacts
<1>3. SubSeq(s, 1, 0) = <<>> /\ SubSeq(s, 1, Len(s)) = s
  BY SubSeqEmpty, WholeIsSubSeq
<1>4. SubSeq(s, 1, 0) \in Atomic!Parts(s) /\ SubSeq(s, 1, Len(s)) \in Atomic!Parts(s)
  BY <1>1, <1>2
<1> QED BY <1>1, <1>3, <1>4

LEMMA NotTorn ==
  ASSUME SqlInv, PlanInv, at \notin Ended \cup {"after", "thrown"}
  PROVE  unwinding = FALSE /\ Outcome = "running"
<1>1. unwinding = FALSE
  BY Types DEF PlanInv, TornOK
<1> QED BY <1>1, Outcomes

\* Between two units, what is committed is whole.
LEMMA BetweenUnits ==
  ASSUME SqlInv, PlanInv, at \in {"check", "compose", "create", "insert", "query", "header"}
  PROVE  /\ unwinding = FALSE /\ Outcome = "running" /\ at \notin Ended
         /\ pending = <<>> /\ tx = "none" /\ PartDone = <<>>
         /\ committed = Atomic!Whole(UnitsDone) /\ UnitsDone \in 0..PlanLength
         /\ Chosen /\ View = committed
         /\ ValidArgs \/ at = "check"
<1>1. at \notin Ended \cup {"after", "thrown"}
  BY DEF Ended
<1>2. unwinding = FALSE /\ Outcome = "running"
  BY <1>1, NotTorn
<1>3. pending = <<>> /\ tx = "none"
  BY NoTransaction
<1>4. PartDone = <<>>
  BY Progress
<1>5. UnitsDone \in 0..PlanLength /\ Chosen
  BY <1>2, Standing DEF SqlInv
<1>6. View = committed
  BY <1>3, Types, ConcatEmpty DEF View
<1>7. View = Atomic!Whole(UnitsDone) \o <<>>
  BY <1>2, <1>4 DEF PlanInv, UnitsOK
<1>8. committed = Atomic!Whole(UnitsDone)
  BY <1>5, <1>6, <1>7, WholeFacts, ConcatEmpty
<1>9. at # "check" => ValidArgs
  BY <1>1 DEF PlanInv, FilesOK
<1> QED BY <1>1, <1>2, <1>3, <1>4, <1>5, <1>6, <1>8, <1>9

LEMMA UnitsThen ==
  ASSUME UNCHANGED Command, View' = Atomic!Whole(UnitsDone') \o PartDone',
         IF Autocommit THEN pending' = <<>> ELSE committed' = Atomic!Whole(UnitsDone')
  PROVE  UnitsOK'
<1>1. Atomic!Whole(UnitsDone)' = Atomic!Whole(UnitsDone')
  BY SamePlan
<1>2. Autocommit' <=> Autocommit
  BY SameCommand
<1> QED BY <1>1, <1>2 DEF UnitsOK

\* A step to between two units.
LEMMA WholeStep ==
  ASSUME SqlInv, SqlInv', PlanInv, UNCHANGED Command, Outcome = "running",
         at' \in {"check", "compose", "create", "insert", "query", "header"}, ~unwinding',
         FilesOK', committed' = Atomic!Whole(UnitsDone'),
         \/ committed' = committed
         \/ UnitsDone < PlanLength /\ committed' = Atomic!Whole(UnitsDone + 1)
         \/ Autocommit /\ IsPrefix(committed, committed')
  PROVE  PlanInv' /\ Refined
<1>1. pending' = <<>>
  BY DEF SqlInv, TransactionsClosed
<1>2. PartDone' = <<>>
  BY ProgressNext
<1>3. IsSeq(committed')
  BY DEF SqlInv, LogsOK, IsSeq
<1>4. View' = committed' \o <<>>
  BY <1>1 DEF View
<1>5. UnitsOK'
  BY <1>1, <1>2, <1>4, UnitsThen
<1>6. at' \notin Ended \cup {"thrown"}
  BY DEF Ended
<1>7. CASE committed' = committed
  BY <1>5, <1>6, <1>7, RunStep
<1>8. CASE ~Autocommit /\ UnitsDone < PlanLength /\ committed' = Atomic!Whole(UnitsDone + 1)
  BY <1>5, <1>6, <1>8, RunStep
<1>9. CASE Autocommit /\ IsPrefix(committed, committed')
  BY <1>5, <1>6, <1>9, RunStep
<1>10. CASE Autocommit /\ UnitsDone < PlanLength /\ committed' = Atomic!Whole(UnitsDone + 1)
  <2> PICK k : k = UnitsDone
    OBVIOUS
  <2> PICK a : a = Atomic!Whole(k)
    OBVIOUS
  <2> PICK b : b = Atomic!Plan[k + 1]
    OBVIOUS
  <2> PICK p : p = PartDone
    OBVIOUS
  <2>1. k \in 0..PlanLength /\ Chosen /\ IsSeq(p)
    BY Standing DEF SqlInv
  <2>2. IsSeq(a) /\ IsSeq(b) /\ committed' = a \o b
    BY <1>10, <2>1, WholeFacts
  <2>3. committed = a \o p /\ (p = <<>> \/ IsPrefix(p, b))
    <3>1. View = committed /\ View = a \o p
      BY <1>10, Placed DEF PlanInv, UnitsOK
    <3> QED BY <3>1, Standing
  <2>4. IsPrefix(p, b)
    <3>1. p = <<>> => IsPrefix(p, b)
      BY <2>2, IsSeqEmpty, PrefixFacts, IsSeqFacts
    <3> QED BY <2>3, <3>1
  <2>5. IsPrefix(a \o p, a \o b)
    BY <2>1, <2>2, <2>4, PrefixAfter
  <2> QED BY <1>5, <1>6, <1>10, <2>2, <2>3, <2>5, RunStep
<1> QED BY <1>7, <1>8, <1>9, <1>10

LEMMA CheckPlan ==
  ASSUME SqlInv, SqlInv', PlanInv, Check
  PROVE  PlanInv' /\ Refined
<1>1. /\ UNCHANGED Command /\ unwinding' = unwinding /\ at = "check" /\ committed' = committed
      /\ file_no' = file_no /\ file' = file
  BY DEF Check, OnlySession, Loading, Session, Position
<1>2. unwinding = FALSE /\ Outcome = "running" /\ at \notin Ended /\ UnitsDone = Units * file_no
      /\ committed = Atomic!Whole(UnitsDone)
  BY <1>1, BetweenUnits, Progress
<1>3. CASE ValidArgs
  <2>1. at' = "compose"
    BY <1>3 DEF Check
  <2>2. FilesOK'
    <3>1. file_no = Len(Atomic!LoadedUpto(file - 1)) /\ ValidArgs'
      BY <1>1, <1>3, SamePlan DEF PlanInv, FilesOK
    <3>2. (file_no = Len(Atomic!LoadedUpto(file - 1)))'
      BY <1>1, <3>1, SamePlan
    <3>3. ~InScript'
      BY <2>1 DEF InScript
    <3> QED BY <2>1, <3>1, <3>2, <3>3 DEF FilesOK, WithFile
  <2>3. UnitsDone' = UnitsDone
    BY <1>1, <1>2, <2>1, ProgressNext, SamePlan
  <2> QED BY <1>1, <1>2, <2>1, <2>2, <2>3, WholeStep
<1>4. CASE ~ValidArgs
  <2>1. at' \in Ended \ {"done"} /\ unwinding' \in BOOLEAN
    BY <1>1, <1>2, <1>4 DEF Check, Ended
  <2> QED BY <1>1, <1>2, <2>1, Stops
<1> QED BY <1>3, <1>4

LEMMA ComposeNoBodyPlan ==
  ASSUME SqlInv, SqlInv', PlanInv, ComposeNoBody
  PROVE  PlanInv' /\ Refined
<1>1. /\ UNCHANGED Command /\ unwinding' = unwinding /\ at = "compose"
      /\ file_no' = file_no /\ file <= N /\ ~HasBody(file) /\ file \in 1..N
  BY Types, Constants DEF ComposeNoBody
<1>2. unwinding = FALSE /\ Outcome = "running" /\ at \notin Ended /\ UnitsDone = Units * file_no
      /\ committed = Atomic!Whole(UnitsDone) /\ ValidArgs
  BY <1>1, BetweenUnits, Progress
<1>3. CASE args.db \in {"none", "oracle"}
  <2>1. Close("failed") /\ "failed" \in Ended \ {"done"} /\ unwinding' \in BOOLEAN
    BY <1>1, <1>2, <1>3 DEF ComposeNoBody, Ended
  <2> QED BY <1>1, <1>2, <2>1, Closes
<1>4. CASE args.db \notin {"none", "oracle"}
  <2>1. at' = "compose" /\ file' = file + 1 /\ committed' = committed /\ (file + 1) - 1 = file
    BY <1>1, <1>4, Constants DEF ComposeNoBody, NextReader, Session
  <2>2. FilesOK'
    <3>1. file_no = Len(Atomic!LoadedUpto(file)) /\ ValidArgs'
      <4>1. file_no = Len(Atomic!LoadedUpto(file - 1))
        BY <1>1 DEF PlanInv, FilesOK
      <4> QED BY <1>1, <1>2, <4>1, LoadedNot, SamePlan
    <3>2. (file_no = Len(Atomic!LoadedUpto(file - 1)))'
      BY <1>1, <2>1, <3>1, SamePlan
    <3>3. ~InScript'
      BY <2>1 DEF InScript
    <3> QED BY <2>1, <3>1, <3>2, <3>3 DEF FilesOK, WithFile
  <2>3. UnitsDone' = UnitsDone
    BY <1>1, <1>2, <2>1, ProgressNext, SamePlan
  <2> QED BY <1>1, <1>2, <2>1, <2>2, <2>3, WholeStep
<1> QED BY <1>3, <1>4

-------------------------------------------------------------------------------
(* The steps: the composer and the creation of the table.                    *)

LEMMA AppendOne ==
  ASSUME NEW s, IsSeq(s), NEW e
  PROVE  Append(s, e) = s \o <<e>> /\ IsSeq(<<e>>) /\ IsPrefix(s, Append(s, e))
<1>1. IsSeq(<<e>>)
  BY DEF IsSeq
<1>2. s \in Seq({s[i] : i \in DOMAIN s} \cup {e})
  BY IsSeqIn
<1>3. Append(s, e) = s \o <<e>>
  BY <1>2, AppendIsConcat
<1> QED BY <1>1, <1>3, PrefixConcat

LEMMA FailPlan ==
  ASSUME SqlInv, PlanInv, ComposeFails \/ CreateFails \/ Rethrow \/ QueryFails \/ Crash
  PROVE  PlanInv' /\ Refined
<1>1. \/ Close("failed") /\ OnlySession
      \/ Close("crashed") /\ OnlySession
  BY DEF ComposeFails, CreateFails, Rethrow, QueryFails, Crash
<1>2. UNCHANGED Command /\ unwinding' = unwinding
  BY <1>1 DEF OnlySession, Loading
<1>3. "failed" \in Ended \ {"done"} /\ "crashed" \in Ended \ {"done"} /\ unwinding' \in BOOLEAN
  BY <1>2, Types DEF Ended
<1>4. at \notin Ended
  BY DEF ComposeFails, CreateFails, Rethrow, QueryFails, Crash, Asking, Ended
<1> QED BY <1>1, <1>2, <1>3, <1>4, Closes

LEMMA ComposePlan ==
  ASSUME SqlInv, SqlInv', PlanInv, Compose
  PROVE  PlanInv' /\ Refined
<1>1. /\ UNCHANGED Command /\ unwinding' = unwinding /\ at = "compose"
      /\ file <= N /\ HasBody(file) /\ file \in 1..N /\ Composed(file)
  BY Types, Constants DEF Compose
<1>2. unwinding = FALSE /\ Outcome = "running" /\ at \notin Ended /\ UnitsDone = Units * file_no
      /\ committed = Atomic!Whole(UnitsDone) /\ ValidArgs /\ Chosen /\ IsSeq(committed)
  BY <1>1, BetweenUnits, Progress, Types
<1>3. file_no = Len(Atomic!LoadedUpto(file - 1)) /\ file_no \in Nat
  BY <1>1, Types DEF PlanInv, FilesOK
<1> PICK n : n = file_no + 1
  OBVIOUS
<1>4. file_no' = n /\ table'.name = TableName(n)
  BY <1>1 DEF Composed
<1>5. n = Len(Atomic!LoadedUpto(file)) /\ n \in DOMAIN Atomic!Loaded /\ Atomic!Loaded[n] = file
  BY <1>1, <1>3, LoadedAt
<1>6. n \in 1..Tables /\ n - 1 = file_no
  BY <1>3, <1>5, LoadedTypes DEF Tables
<1>7. CASE args.db = "none"
  <2>1. /\ file' = file + 1 /\ at' = "compose" /\ (file + 1) - 1 = file
        /\ committed' = Append(committed, Created(file, TableName(n)))
    BY <1>1, <1>4, <1>7, Constants DEF Compose
  <2>2. args.create = "create" /\ Units = 1
    BY <1>2, <1>7 DEF ValidArgs, Units, Inserting, InMemory
  <2>3. FilesOK'
    <3>1. (file_no = Len(Atomic!LoadedUpto(file - 1)))' /\ ValidArgs'
      BY <1>1, <1>2, <1>4, <1>5, <2>1, SamePlan
    <3>2. ~InScript'
      BY <2>1 DEF InScript
    <3> QED BY <2>1, <3>1, <3>2 DEF FilesOK, WithFile
  <2>4. UnitOf(n, 1) = <<Created(file, TableName(n))>>
    BY <1>5, <2>2, SameRows, SameEffects DEF UnitOf, Atomic!TableOf
  <2>5. 1 \in 1..Units /\ 1 - 1 = 0
    BY <2>2
  <2>6. Atomic!Whole(Units * (n - 1) + 1) = Atomic!Whole(Units * (n - 1)) \o UnitOf(n, 1)
        /\ Units * (n - 1) + 1 \in 1..PlanLength
    BY <1>2, <1>6, <2>5, TableUnits
  <2>7. committed' = Atomic!Whole(UnitsDone + 1)
    BY <1>2, <1>6, <2>1, <2>4, <2>6, AppendOne
  <2>8. UnitsDone' = UnitsDone + 1 /\ UnitsDone < PlanLength
    <3>1. UnitsDone' = Units * n
      BY <1>1, <1>4, <2>1, ProgressNext, SamePlan
    <3>2. UnitsDone = n - 1 /\ Units * n = n
      BY <1>2, <1>3, <1>6, <2>2
    <3>3. Units * (n - 1) = n - 1
      BY <1>3, <1>6, <2>2
    <3>4. n \in Nat /\ PlanLength \in Nat
      BY <1>2, <1>6, PlanFacts
    <3> QED BY <1>6, <2>6, <3>1, <3>2, <3>3, <3>4
  <2> QED BY <1>1, <1>2, <2>1, <2>3, <2>7, <2>8, WholeStep
<1>8. CASE args.db # "none"
  <2>1. file' = file /\ at' = "create" /\ committed' = committed
    BY <1>1, <1>8 DEF Compose, Session
  <2>2. FilesOK'
    <3>1. /\ (file_no = Len(Atomic!LoadedUpto(file)))' /\ HasBody(file)' /\ ValidArgs'
          /\ (table.name = TableName(file_no))'
      BY <1>1, <1>2, <1>4, <1>5, <2>1, SamePlan
    <3>2. ~InScript'
      BY <2>1 DEF InScript
    <3> QED BY <2>1, <3>1, <3>2 DEF FilesOK, WithFile
  <2>3. UnitsDone' = UnitsDone
    <3>1. UnitsDone' = Units * (n - 1)
      BY <1>1, <1>4, <2>1, ProgressNext, SamePlan
    <3> QED BY <1>2, <1>6, <3>1
  <2> QED BY <1>1, <1>2, <2>1, <2>2, <2>3, WholeStep
<1> QED BY <1>7, <1>8

LEMMA ComposedAllPlan ==
  ASSUME SqlInv, SqlInv', PlanInv, ComposedAll
  PROVE  PlanInv' /\ Refined
<1>1. /\ UNCHANGED Command /\ unwinding' = unwinding /\ at = "compose" /\ at' = "query"
      /\ file > N /\ script' = 1 /\ file_no' = file_no /\ committed' = committed
  BY DEF ComposedAll, Loading, Position, Session
<1>2. unwinding = FALSE /\ Outcome = "running" /\ UnitsDone = Units * file_no
      /\ committed = Atomic!Whole(UnitsDone) /\ ValidArgs /\ UnitsDone \in 0..PlanLength /\ Chosen
  BY <1>1, BetweenUnits, Progress
<1>3. file_no = Len(Atomic!Loaded)
  <2>1. file - 1 = N /\ N \in 0..N
    BY <1>1, Types, Constants
  <2>2. file_no = Len(Atomic!LoadedUpto(N))
    BY <1>1, <2>1 DEF PlanInv, FilesOK
  <2> QED BY <2>1, <2>2, LoadedFacts
<1>4. FilesOK'
  <2>1. (file_no = Len(Atomic!Loaded))' /\ ValidArgs'
    BY <1>1, <1>2, <1>3, SamePlan
  <2>2. ~InScript'
    BY <1>1 DEF InScript
  <2> QED BY <1>1, <2>1, <2>2 DEF FilesOK, WithFile
<1>5. UnitsDone' = UnitsDone
  <2>1. UnitsDone' = UnitsDone + 1 - 1
    BY <1>1, <1>2, ProgressNext, SamePlan
  <2>2. UnitsDone \in Nat
    BY <1>2, PlanFacts
  <2> QED BY <2>1, <2>2
<1> QED BY <1>1, <1>2, <1>4, <1>5, WholeStep

\* The table is created, unless it is not to be or is there.
LEMMA TableDone ==
  ASSUME SqlInv, PlanInv, Create
  PROVE  /\ at = "create" /\ file_no \in 1..Tables
         /\ committed' = committed \o Atomic!TableOf(file_no)
         /\ committed' = Atomic!Whole(Units * (file_no - 1) + 1)
         /\ committed = Atomic!Whole(UnitsDone) /\ UnitsDone = Units * (file_no - 1)
         /\ 1 \in 1..Units /\ UnitsDone + 1 \in 1..PlanLength /\ UnitsDone < PlanLength
<1>1. at = "create" /\ at \in WithFile
  BY DEF Create, WithFile
<1>2. /\ file_no \in 1..Tables /\ Atomic!Loaded[file_no] = file /\ table.name = TableName(file_no)
      /\ Chosen
  BY <1>1, Turn
<1>3. /\ committed = Atomic!Whole(UnitsDone) /\ UnitsDone = Units * (file_no - 1)
      /\ UnitsDone \in 0..PlanLength
  BY <1>1, BetweenUnits, Progress
<1> PICK t : t = Atomic!TableOf(file_no)
  OBVIOUS
<1> PICK e : e = Created(file, table.name)
  OBVIOUS
<1>4. IsSeq(committed) /\ Append(committed, e) = committed \o <<e>> /\ committed \o <<>> = committed
  BY Types, AppendOne, ConcatEmpty
<1>5. args.create = "if_not_exists" => (Exists(committed, table.name) <=> Atomic!Repeated(file_no))
  BY <1>2, <1>3, RepeatedExists
<1>6. t = IF args.create = "no_create" \/ (args.create = "if_not_exists" /\ Atomic!Repeated(file_no))
          THEN <<>> ELSE <<e>>
  BY <1>2, SameRows, SameEffects DEF Atomic!TableOf
<1>7. committed' = committed \o t
  <2>1. CASE args.create = "no_create" /\ UNCHANGED committed
    BY <1>4, <1>6, <2>1
  <2>2. CASE args.create = "if_not_exists" /\ Exists(committed, table.name) /\ UNCHANGED committed
    BY <1>4, <1>5, <1>6, <2>2
  <2>3. CASE /\ args.create # "no_create" /\ CanCreate(committed, file, table.name)
             /\ committed' = Append(committed, Created(file, table.name))
    <3>1. ~Exists(committed, table.name)
      BY <2>3 DEF CanCreate
    <3> QED BY <1>4, <1>5, <1>6, <2>3, <3>1
  <2> QED BY <2>1, <2>2, <2>3 DEF Create
<1>8. 1 \in 1..Units /\ 1 - 1 = 0 /\ UnitsDone \in Nat /\ PlanLength \in Nat
  BY <1>2, <1>3, PlanFacts
<1>9. /\ Atomic!Whole(Units * (file_no - 1) + 1) = Atomic!Whole(Units * (file_no - 1)) \o UnitOf(file_no, 1)
      /\ Units * (file_no - 1) + 1 \in 1..PlanLength
  BY <1>2, <1>8, TableUnits
<1>10. UnitOf(file_no, 1) = t
  BY DEF UnitOf
<1>11. UnitsDone + 1 \in 1..PlanLength /\ UnitsDone < PlanLength
  BY <1>3, <1>8, <1>9
<1> QED BY <1>1, <1>2, <1>3, <1>7, <1>8, <1>9, <1>10, <1>11

LEMMA CreatePlan ==
  ASSUME SqlInv, SqlInv', PlanInv, Create
  PROVE  PlanInv' /\ Refined
<1>1. /\ UNCHANGED Command /\ unwinding' = unwinding /\ at = "create" /\ script' = 0
      /\ file_no' = file_no /\ table' = table /\ pending' = pending /\ at \in WithFile
      /\ args' = args
  BY DEF Create, Command, WithFile
<1>2. unwinding = FALSE /\ Outcome = "running" /\ pending = <<>> /\ Chosen
  BY <1>1, BetweenUnits
<1> PICK n : n = file_no
  OBVIOUS
<1>3. /\ n \in 1..Tables /\ 1 \in 1..Units /\ UnitsDone < PlanLength
      /\ committed' = Atomic!Whole(Units * (n - 1) + 1)
      /\ UnitsDone = Units * (n - 1) /\ committed' = Atomic!Whole(UnitsDone + 1)
  BY TableDone
<1>4. IsSeq(args.before) /\ Len(args.before) \in Nat
  BY <1>2, ChosenFacts, SeqIsSeq, IsSeqFacts
<1>5. CASE ~Inserting
  <2>1. NextFile /\ at' = "compose"
    BY <1>5 DEF Create, AfterCreate, NextFile
  <2>2. FilesOK'
    BY <1>1, <2>1, NextTurn
  <2>3. Units = 1
    BY <1>5 DEF Units
  <2>4. UnitsDone' = Units * (n - 1) + 1
    <3>1. UnitsDone' = Units * n
      BY <1>1, <2>1, ProgressNext, SamePlan
    <3> QED BY <1>2, <1>3, <2>3, <3>1, TableUnits
  <2> QED BY <1>1, <1>2, <1>3, <2>1, <2>2, <2>4, WholeStep
<1>6. CASE Inserting /\ args.before # <<>> /\ ~Autocommit
  <2>1. at' = "before" /\ file' = file
    BY <1>6 DEF Create, AfterCreate
  <2>2. FilesOK'
    BY <1>1, <1>4, <1>6, <2>1, SameTurn DEF Position
  <2>3. UnitsDone' = Units * (n - 1) + 1
    BY <1>1, <2>1, ProgressNext, SamePlan
  <2>4. PartDone' = <<>>
    <3>1. PartDone' = Atomic!Statements(SubSeq(args.before, 1, 0 - 1)) /\ 0 - 1 = -1
      BY <1>1, <2>1, ProgressNext
    <3> QED BY <1>4, <3>1, NoStatements
  <2>5. View' = committed' \o <<>> /\ committed' = Atomic!Whole(UnitsDone')
    BY <1>1, <1>2, <1>3, <2>3 DEF View
  <2>6. UnitsOK'
    BY <1>1, <1>2, <2>4, <2>5, UnitsThen
  <2>7. at' \notin Ended \cup {"thrown"} /\ ~unwinding'
    BY <1>1, <1>2, <2>1 DEF Ended
  <2> QED BY <1>1, <1>2, <1>3, <1>6, <2>2, <2>6, <2>7, RunStep
<1>7. CASE Inserting /\ ~(args.before # <<>> /\ ~Autocommit)
  <2>1. at' = "insert" /\ file' = file
    BY <1>7 DEF Create, AfterCreate
  <2>2. FilesOK'
    BY <1>1, <1>7, <2>1, SameTurn DEF Position
  <2>3. UnitsDone' = Units * (n - 1) + 2
    BY <1>1, <2>1, ProgressNext, SamePlan
  <2>4. UnitOf(n, 2) = <<>>
    <3>1. Autocommit => Atomic!Before = <<>>
      BY SameEffects DEF Atomic!Before
    <3>2. 0 \in 0..Len(args.before)
      BY <1>4
    <3>3. args.before = <<>> => Atomic!Statements(args.before) = <<>>
      <4>1. SubSeq(args.before, 1, Len(args.before)) = args.before
        BY <1>4, WholeIsSubSeq
      <4>2. args.before = <<>> => Len(args.before) = 0
        BY IsSeqEmpty
      <4>3. Atomic!Statements(SubSeq(args.before, 1, 0)) = <<>>
        BY <1>4, <3>2, StatementsFacts
      <4> QED BY <4>1, <4>2, <4>3
    <3>4. args.before = <<>> => Atomic!Before = <<>>
      BY <3>3 DEF Atomic!Before
    <3> QED BY <1>7, <3>1, <3>4 DEF UnitOf
  <2>5. Atomic!Whole(Units * (n - 1) + 2) = Atomic!Whole(Units * (n - 1) + 1)
    <3>1. 2 \in 1..Units /\ 2 - 1 = 1
      BY <1>7 DEF Units
    <3>2. /\ Atomic!Whole(Units * (n - 1) + 2) = Atomic!Whole(Units * (n - 1) + 1) \o UnitOf(n, 2)
          /\ IsSeq(Atomic!Whole(Units * (n - 1) + 1))
      BY <1>2, <1>3, <3>1, TableUnits
    <3> QED BY <2>4, <3>2, ConcatEmpty
  <2> QED BY <1>1, <1>2, <1>3, <2>1, <2>2, <2>3, <2>5, WholeStep
<1> QED BY <1>5, <1>6, <1>7

LEMMA InsertPlan ==
  ASSUME SqlInv, SqlInv', PlanInv, Insert
  PROVE  PlanInv' /\ Refined
<1>1. /\ UNCHANGED Command /\ unwinding' = unwinding /\ at = "insert" /\ at' = "rows"
      /\ row' = 0 /\ offset' = 0 /\ UNCHANGED Position /\ at \in WithFile /\ file_no' = file_no
  BY DEF Insert, WithFile, Position
<1>2. /\ unwinding = FALSE /\ Outcome = "running" /\ pending = <<>> /\ Chosen /\ View = committed
      /\ committed = Atomic!Whole(UnitsDone) /\ UnitsDone = Units * (file_no - 1) + 2
  BY <1>1, BetweenUnits, Progress
<1>3. committed' = committed /\ pending' = <<>>
  BY <1>2 DEF Insert, Begin, Session
<1>4. FilesOK'
  BY <1>1, SameTurn
<1>5. UnitsDone' = UnitsDone /\ PartDone' = <<>>
  <2>1. PartDone' = SubSeq(Atomic!RowsOf(file_no)', 1, 0)
    <3>1. Sent' = 0
      BY <1>1 DEF Sent
    <3> QED BY <1>1, <3>1, ProgressNext
  <2>2. UnitsDone' = UnitsDone
    BY <1>1, <1>2, ProgressNext, SamePlan
  <2> QED BY <2>1, <2>2, SubSeqEmpty
<1>6. View' = committed' \o <<>> /\ committed' = Atomic!Whole(UnitsDone')
  BY <1>2, <1>3, <1>5 DEF View
<1>7. UnitsOK'
  BY <1>1, <1>3, <1>5, <1>6, UnitsThen
<1>8. at' \notin Ended \cup {"thrown"} /\ ~unwinding'
  BY <1>1, <1>2 DEF Ended
<1> QED BY <1>1, <1>2, <1>3, <1>4, <1>7, <1>8, RunStep

-------------------------------------------------------------------------------
(* The steps: the statements before and after.                               *)

LEMMA PartsAreSeqs ==
  ASSUME NEW s, IsSeq(s), NEW r \in Atomic!Parts(s)
  PROVE  IsSeq(r)
<1>1. PICK i \in 1..(Len(s) + 1), j \in 0..Len(s) : r = SubSeq(s, i, j)
  BY DEF Atomic!Parts
<1>2. Len(s) \in Nat /\ i \in Int /\ j \in Int
  BY IsSeqFacts
<1>3. CASE j < i
  BY <1>1, <1>2, <1>3, SubSeqEmpty, IsSeqEmpty
<1>4. CASE ~(j < i)
  <2>1. j \in (i - 1)..Len(s)
    BY <1>2, <1>4
  <2> QED BY <1>1, <2>1, IsSeqSub
<1> QED BY <1>3, <1>4

\* The statements of a list that are next.
LEMMA ScriptFacts ==
  ASSUME SqlInv, PlanInv, InScript
  PROVE  /\ at \in WithFile /\ at \notin Ended /\ Chosen /\ IsSeq(Script)
         /\ Len(Script) \in Nat /\ DOMAIN Script = 1..Len(Script)
         /\ script \in 0..(Len(Script) + 1) /\ script \in Nat
         /\ file_no \in 1..Tables /\ IsSeq(Atomic!RowsOf(file_no))
         /\ at = "after" => Script = args.after /\ args.after # <<>>
         /\ at = "before" => Script = args.before
<1>1. at \in {"before", "after"} /\ Chosen
  BY DEF InScript, SqlInv
<1>2. at \in WithFile /\ at \notin Ended
  BY <1>1 DEF WithFile, Ended
<1>3. /\ at = "after" => Script = args.after /\ args.after # <<>>
      /\ at = "before" => Script = args.before
  BY DEF Script, SqlInv, SessionOK
<1>4. IsSeq(Script)
  BY <1>1, <1>3, ChosenFacts, SeqIsSeq
<1>5. Len(Script) \in Nat /\ DOMAIN Script = 1..Len(Script)
  BY <1>4, IsSeqFacts
<1>6. script \in 0..(Len(Script) + 1) /\ script \in Nat
  BY Types DEF PlanInv, FilesOK
<1>7. file_no \in 1..Tables /\ IsSeq(Atomic!RowsOf(file_no))
  BY <1>1, <1>2, Turn, RowsOfFacts
<1> QED BY <1>1, <1>2, <1>3, <1>4, <1>5, <1>6, <1>7

\* What an insertion that failed has left.
LEMMA TornFacts ==
  ASSUME SqlInv, PlanInv, unwinding = TRUE, at = "after"
  PROVE  /\ InScript /\ Outcome = "torn" /\ Script = args.after /\ args.after # <<>>
         /\ \E r \in Atomic!Parts(Atomic!RowsOf(file_no)) :
              /\ IsSeq(r)
              /\ pending = r \o (IF Autocommit THEN <<>>
                                 ELSE Atomic!Statements(SubSeq(args.after, 1, script - 1)))
<1>1. InScript /\ Outcome = "torn"
  BY Outcomes DEF InScript, Ended
<1>2. Script = args.after /\ args.after # <<>> /\ IsSeq(Atomic!RowsOf(file_no))
  BY <1>1, ScriptFacts
<1>3. PICK r \in Atomic!Parts(Atomic!RowsOf(file_no)) :
        pending = r \o (IF Autocommit THEN <<>>
                        ELSE Atomic!Statements(SubSeq(args.after, 1, script - 1)))
  BY DEF PlanInv, TornOK
<1>4. IsSeq(r)
  BY <1>2, PartsAreSeqs
<1> QED BY <1>1, <1>2, <1>3, <1>4

LEMMA Salvaged ==
  ASSUME SqlInv, PlanInv, Outcome = "torn", Outcome' = "torn", at = "after",
         args.db \in {"mysql", "postgresql", "oracle"},
         \E r \in Atomic!Parts(Atomic!RowsOf(file_no)), a \in Atomic!Parts(Atomic!After) :
           committed' = (committed \o r) \o a
  PROVE  Refined
<1>1. at \in WithFile
  BY DEF WithFile
<1>2. file_no \in DOMAIN Atomic!Loaded
  BY <1>1, Turn
<1>3. Atomic!CanSalvage
  BY DEF SqlInv, SessionOK, Atomic!CanSalvage
<1>4. Atomic!Salvage
  BY <1>2, <1>3 DEF Atomic!Salvage
<1> QED BY <1>4 DEF Refined, Atomic!Next

\* The statements after a failed insertion.
LEMMA TornStep ==
  ASSUME SqlInv, SqlInv', PlanInv, unwinding = TRUE, unwinding' = TRUE, at = "after", at' = "after",
         UNCHANGED Command, UNCHANGED Position, script' \in 1..(Len(args.after) + 1),
         args.db \in {"mysql", "postgresql", "oracle"},
         \E r \in Atomic!Parts(Atomic!RowsOf(file_no)) :
           pending' = r \o (IF Autocommit THEN <<>>
                            ELSE Atomic!Statements(SubSeq(args.after, 1, script' - 1))),
         Autocommit /\ pending' # <<>> => IsPrefix(View', Atomic!Everything),
         \/ committed' = committed
         \/ \E r \in Atomic!Parts(Atomic!RowsOf(file_no)), a \in Atomic!Parts(Atomic!After) :
              committed' = (committed \o r) \o a
  PROVE  PlanInv' /\ Refined
<1>1. Outcome = "torn" /\ Outcome' = "torn"
  BY Outcomes, OutcomesNext DEF Ended
<1>2. /\ args' = args /\ file_no' = file_no /\ (Autocommit' <=> Autocommit)
      /\ Atomic!Everything' = Atomic!Everything
      /\ \A n : Atomic!RowsOf(n)' = Atomic!RowsOf(n)
  BY SameCommand, SamePlan DEF Position
<1>3. at \in WithFile /\ InScript /\ Len(args.after) \in Nat
  <2>1. InScript
    BY DEF InScript
  <2> QED BY <2>1, ScriptFacts
<1>4. script' \in 0..(Len(args.after) + 1) /\ script' # 0
  BY <1>3
<1>5. FilesOK'
  BY <1>3, <1>4, SameTurn
<1>6. UnitsOK'
  BY <1>1 DEF UnitsOK
<1>7. TornOK'
  <2>1. \E r \in Atomic!Parts(Atomic!RowsOf(file_no)') :
          pending' = r \o (IF Autocommit' THEN <<>>
                           ELSE Atomic!Statements(SubSeq(args'.after, 1, script' - 1)))
    BY <1>2
  <2>2. Autocommit' /\ pending' # <<>> => IsPrefix(View', Atomic!Everything')
    BY <1>2
  <2>3. args'.db \in {"mysql", "postgresql", "oracle"}
    BY <1>2
  <2>4. (unwinding => at \in {"after", "thrown"} \cup Ended)' /\ (at = "thrown" => unwinding)'
    OBVIOUS
  <2>5. (at = "thrown" => args.after # <<>> /\ args.db \in {"mysql", "postgresql", "oracle"})'
    OBVIOUS
  <2> QED BY <1>4, <2>1, <2>2, <2>3, <2>4, <2>5 DEF TornOK
<1>8. Refined
  <2>1. CASE committed' = committed
    BY <1>1, <2>1 DEF Refined
  <2>2. CASE committed' # committed
    BY <1>1, <2>2, Salvaged
  <2> QED BY <2>1, <2>2
<1> QED BY <1>5, <1>6, <1>7, <1>8 DEF PlanInv

LEMMA BeginScriptPlan ==
  ASSUME SqlInv, SqlInv', PlanInv, BeginScript
  PROVE  PlanInv' /\ Refined
<1>1. /\ InScript /\ script = 0 /\ UNCHANGED Command /\ UNCHANGED Position
      /\ unwinding' = unwinding /\ file_no' = file_no
  BY DEF BeginScript, Loading, Position
<1>2. at \in WithFile /\ at \notin Ended /\ unwinding \in BOOLEAN /\ at \in {"before", "after"}
      /\ IsSeq(Script) /\ Len(Script) \in Nat
  BY <1>1, ScriptFacts, Types DEF InScript
<1>3. IsSeq(pending) /\ IsSeq(committed) /\ IsSeq(View) /\ View = committed \o pending
  BY Types DEF View
<1>4. CASE ~CanBegin
  <2>1. \E end \in {"failed", "terminated"} : Close(end)
    BY <1>4 DEF BeginScript, Thrown
  <2>2. "failed" \in Ended \ {"done"} /\ "terminated" \in Ended \ {"done"}
    BY DEF Ended
  <2> QED BY <1>1, <1>2, <2>1, <2>2, Closes
<1>5. ASSUME CanBegin
      PROVE  /\ script' = 1 /\ at' = at
             /\ IF args.db = "mysql" THEN committed' = View /\ pending' = <<>>
                ELSE committed' = committed /\ pending' = pending
  BY <1>1, <1>5 DEF BeginScript, Begin, Session, Autocommit
<1>6. /\ Atomic!Statements(SubSeq(Script, 1, script - 1)) = <<>>
      /\ Atomic!Statements(SubSeq(Script, 1, 1 - 1)) = <<>>
  <2>1. script - 1 \in {-1, 0} /\ 1 - 1 \in {-1, 0}
    BY <1>1
  <2> QED BY <1>2, <2>1, NoStatements
<1>7. CASE CanBegin /\ unwinding = FALSE
  <2>1. Outcome = "running" /\ script' = 1 /\ at' = at /\ args' = args
    BY <1>1, <1>2, <1>5, <1>7, Outcomes DEF Command
  <2>2. PartDone = <<>> /\ PartDone' = <<>> /\ UnitsDone' = UnitsDone
    <3>1. PartDone = Atomic!Statements(SubSeq(Script, 1, script - 1))
      BY <1>2, Progress DEF Script
    <3>2. PartDone' = Atomic!Statements(SubSeq(Script, 1, 1 - 1))
      BY <1>2, <2>1, ProgressNext DEF Script
    <3>3. UnitsDone' = UnitsDone
      BY <1>1, <1>2, <2>1, Progress, ProgressNext, SamePlan
    <3> QED BY <1>6, <3>1, <3>2, <3>3
  <2>3. Atomic!Whole(UnitsDone) \o PartDone = Atomic!Whole(UnitsDone)
    <3>1. UnitsDone \in 0..PlanLength /\ Chosen
      BY <2>1, Standing DEF SqlInv
    <3> QED BY <2>2, <3>1, WholeFacts, ConcatEmpty
  <2>4. View = Atomic!Whole(UnitsDone) /\ View = committed /\ (Autocommit => pending = <<>>)
    <3>1. View = Atomic!Whole(UnitsDone)
      BY <2>1, <2>3 DEF PlanInv, UnitsOK
    <3> QED BY <2>1, <3>1, Placed DEF PlanInv, UnitsOK
  <2>5. committed' = committed /\ View' = View /\ (Autocommit => pending' = <<>>)
    <3>1. CASE args.db = "mysql"
      <4>1. committed' = View /\ pending' = <<>>
        BY <1>5, <1>7, <3>1
      <4>2. View' = View \o <<>>
        BY <4>1 DEF View
      <4> QED BY <1>3, <2>4, <4>1, <4>2, ConcatEmpty
    <3>2. CASE args.db # "mysql"
      BY <1>5, <1>7, <2>4, <3>2 DEF View
    <3> QED BY <3>1, <3>2
  <2>6. UnitsOK'
    BY <1>1, <2>2, <2>3, <2>4, <2>5, UnitsThen
  <2>7. FilesOK'
    <3>1. at' \in {"before", "insert", "rows", "after", "thrown"}
          /\ at \in {"before", "insert", "rows", "after"}
      BY <1>2, <2>1
    <3>2. /\ at' = "before" => script' \in 0..(Len(args.before) + 1)
          /\ at' = "after" => script' \in 0..(Len(args.after) + 1)
      BY <1>2, <2>1 DEF Script
    <3> QED BY <1>1, <1>2, <3>1, <3>2, SameTurn
  <2>8. at' \notin Ended \cup {"thrown"} /\ ~unwinding'
    BY <1>1, <1>2, <1>7, <2>1 DEF Ended
  <2> QED BY <1>1, <2>1, <2>5, <2>6, <2>7, <2>8, RunStep
<1>8. CASE CanBegin /\ unwinding = TRUE
  <2>1. at = "after" /\ at' = "after" /\ script' = 1 /\ unwinding' = TRUE /\ Script = args.after
    BY <1>1, <1>2, <1>5, <1>8, ScriptFacts DEF PlanInv, TornOK, Ended
  <2>2. PICK r \in Atomic!Parts(Atomic!RowsOf(file_no)) :
          /\ IsSeq(r)
          /\ pending = r \o (IF Autocommit THEN <<>>
                             ELSE Atomic!Statements(SubSeq(args.after, 1, script - 1)))
    BY <1>8, <2>1, TornFacts
  <2>3. pending = r
    BY <1>6, <2>1, <2>2, ConcatEmpty
  <2>4. Atomic!Statements(SubSeq(args.after, 1, script' - 1)) = <<>>
    BY <1>6, <2>1
  <2>5. args.db \in {"mysql", "postgresql", "oracle"}
    <3>1. tx = "none" => Autocommit
      BY <1>1, <1>8, <2>1 DEF PlanInv, TornOK
    <3> QED BY <1>8, <3>1 DEF CanBegin, Autocommit
  <2>6. script' \in 1..(Len(args.after) + 1)
    BY <1>2, <2>1
  <2>7. CASE args.db = "mysql"
    <3>1. committed' = committed \o r /\ pending' = <<>> /\ ~Autocommit
      BY <1>3, <1>5, <1>8, <2>3, <2>7 DEF Autocommit
    <3>2. IsSeq(Atomic!RowsOf(file_no)) /\ IsSeq(Atomic!After)
      <4>1. IsSeq(args.after) /\ Len(args.after) + 1 \in 0..(Len(args.after) + 1)
        BY <1>2, <2>1
      <4> QED BY <1>1, <4>1, ScriptFacts, StatementsDone DEF Atomic!After
    <3>3. <<>> \in Atomic!Parts(Atomic!RowsOf(file_no)) /\ <<>> \in Atomic!Parts(Atomic!After)
      BY <3>2, PartOf
    <3>4. committed' = (committed \o r) \o <<>>
      BY <1>3, <2>2, <3>1, IsSeqConcat, ConcatEmpty
    <3>5. pending' = <<>> \o (IF Autocommit THEN <<>>
                              ELSE Atomic!Statements(SubSeq(args.after, 1, script' - 1)))
      BY <2>4, <3>1, IsSeqEmpty, ConcatEmpty
    <3>6. \E p \in Atomic!Parts(Atomic!RowsOf(file_no)) :
           pending' = p \o (IF Autocommit THEN <<>>
                            ELSE Atomic!Statements(SubSeq(args.after, 1, script' - 1)))
      BY <3>3, <3>5
    <3>7. \E p \in Atomic!Parts(Atomic!RowsOf(file_no)), a \in Atomic!Parts(Atomic!After) :
            committed' = (committed \o p) \o a
      BY <3>3, <3>4
    <3> QED BY <1>1, <1>8, <2>1, <2>5, <2>6, <3>1, <3>6, <3>7, TornStep
  <2>8. CASE args.db # "mysql"
    <3>1. committed' = committed /\ pending' = pending /\ View' = View
      BY <1>5, <1>8, <2>8 DEF View
    <3>2. pending' = r \o (IF Autocommit THEN <<>>
                           ELSE Atomic!Statements(SubSeq(args.after, 1, script' - 1)))
      BY <2>2, <2>3, <2>4, <3>1, ConcatEmpty
    <3>3. Autocommit /\ pending' # <<>> => IsPrefix(View', Atomic!Everything)
      BY <1>8, <2>1, <3>1 DEF PlanInv, TornOK
    <3> QED BY <1>1, <1>8, <2>1, <2>5, <2>6, <3>1, <3>2, <3>3, TornStep
  <2> QED BY <2>7, <2>8
<1> QED BY <1>2, <1>4, <1>7, <1>8

LEMMA LastPart ==
  ASSUME NEW s, IsSeq(s), NEW a, IsSeq(a), NEW b, IsSeq(b), IsPrefix(a \o b, s)
  PROVE  b \in Atomic!Parts(s)
<1>0. \A m \in 1..(Len(s) + 1) : \A n \in (m - 1)..Len(s) :
        /\ IsSeq(SubSeq(s, m, n)) /\ Len(SubSeq(s, m, n)) = n - m + 1
        /\ \A i \in 1..(n - m + 1) : SubSeq(s, m, n)[i] = s[m + i - 1]
  BY IsSeqSub
<1> PICK more : more = a \o b
  OBVIOUS
<1>1. /\ Len(a) \in Nat /\ Len(b) \in Nat /\ Len(s) \in Nat
      /\ IsSeq(more) /\ Len(more) = Len(a) + Len(b)
      /\ \A i \in 1..Len(b) : more[Len(a) + i] = b[i]
  BY IsSeqFacts, IsSeqConcat
<1>2. Len(more) <= Len(s) /\ \A i \in 1..Len(more) : more[i] = s[i]
  <2>1. IsSeq(more) /\ IsSeq(s) /\ IsPrefix(more, s)
    BY <1>1
  <2> QED BY <2>1, PrefixFacts
<1> DEFINE m == Len(a) + 1
           n == Len(a) + Len(b)
<1>3. m \in 1..(Len(s) + 1) /\ n \in (m - 1)..Len(s) /\ n \in 0..Len(s) /\ n - m + 1 = Len(b)
  BY <1>1, <1>2
<1>4. \A i \in 1..Len(b) : m + i - 1 = Len(a) + i /\ Len(a) + i \in 1..Len(more)
  BY <1>1
<1> HIDE DEF m, n
<1> PICK t : t = SubSeq(s, m, n)
  OBVIOUS
<1>5. IsSeq(t) /\ Len(t) = Len(b) /\ \A i \in 1..Len(b) : t[i] = s[m + i - 1]
  BY <1>0, <1>3
<1>6. \A i \in 1..Len(t) : t[i] = b[i]
  <2> TAKE i \in 1..Len(t)
  <2> PICK j : j = Len(a) + i
    OBVIOUS
  <2>1. i \in 1..Len(b)
    BY <1>5
  <2>2. m + i - 1 = j /\ j \in 1..Len(more)
    BY <1>4, <2>1
  <2>3. t[i] = s[j]
    BY <1>5, <2>1, <2>2
  <2>4. more[j] = s[j]
    BY <1>2, <2>2
  <2>5. more[j] = b[i]
    BY <1>1, <2>1
  <2> QED BY ONLY <2>3, <2>4, <2>5
<1>7. t = b
  <2>1. IsSeq(t) /\ IsSeq(b) /\ Len(t) = Len(b)
    BY <1>5
  <2> QED BY ONLY <1>6, <2>1, IsSeqSame
<1>8. t \in Atomic!Parts(s)
  BY <1>3, PartOf
<1> QED BY <1>7, <1>8

LEMMA ScriptStepPlan ==
  ASSUME SqlInv, SqlInv', PlanInv, ScriptStep
  PROVE  PlanInv' /\ Refined
<1>1. /\ InScript /\ script \in DOMAIN Script /\ UNCHANGED Command /\ UNCHANGED Position
      /\ unwinding' = unwinding /\ file_no' = file_no
  BY DEF ScriptStep, Loading, Position
<1>2. /\ at \in WithFile /\ at \notin Ended /\ unwinding \in BOOLEAN /\ at \in {"before", "after"}
      /\ IsSeq(Script) /\ Len(Script) \in Nat /\ script \in 1..Len(Script)
      /\ script \in 0..(Len(Script) + 1) /\ script + 1 \in 0..(Len(Script) + 1)
      /\ (script + 1) - 1 = script /\ Chosen
  BY <1>1, ScriptFacts, Types DEF InScript
<1>10. \A x, y, z : IsSeq(x) /\ IsSeq(y) /\ IsSeq(z) => (x \o y) \o z = x \o (y \o z)
  BY ConcatMore
<1>11. /\ IsSeq(Atomic!Statements(SubSeq(Script, 1, script - 1)))
       /\ IsSeq(Atomic!Statements(Script))
       /\ Atomic!Statements(SubSeq(Script, 1, script)) =
            Atomic!Statements(SubSeq(Script, 1, script - 1)) \o Result(Script[script])
  BY <1>1, <1>2, StatementsDone
<1>12. /\ IsSeq(Atomic!Statements(SubSeq(Script, 1, script)))
       /\ IsPrefix(Atomic!Statements(SubSeq(Script, 1, script)), Atomic!Statements(Script))
  <2>1. /\ IsSeq(Atomic!Statements(SubSeq(Script, 1, (script + 1) - 1)))
        /\ IsPrefix(Atomic!Statements(SubSeq(Script, 1, (script + 1) - 1)), Atomic!Statements(Script))
    BY <1>2, StatementsDone
  <2> QED BY <1>2, <2>1
<1> PICK res : res = Result(Script[script])
  OBVIOUS
<1>3. IsSeq(pending) /\ IsSeq(committed) /\ IsSeq(View) /\ View = committed \o pending /\ IsSeq(res)
  BY Types, ResultIsSeq DEF View
<1>4. CASE Script[script] = "bad"
  <2>1. \E end \in {"failed", "terminated"} : Close(end)
    BY <1>4 DEF ScriptStep, Thrown
  <2>2. "failed" \in Ended \ {"done"} /\ "terminated" \in Ended \ {"done"}
    BY DEF Ended
  <2> QED BY <1>1, <1>2, <2>1, <2>2, Closes
<1> PICK done : done = Atomic!Statements(SubSeq(Script, 1, script - 1))
  OBVIOUS
<1> PICK more : more = Atomic!Statements(SubSeq(Script, 1, script))
  OBVIOUS
<1>5. /\ IsSeq(done) /\ IsSeq(more) /\ more = done \o res
      /\ IsPrefix(more, Atomic!Statements(Script)) /\ IsSeq(Atomic!Statements(Script))
  BY <1>11, <1>12
<1>13. IsSeq(done) /\ IsSeq(res)
  BY <1>3, <1>5
<1>6. ASSUME Script[script] # "bad"
      PROVE  /\ script' = script + 1 /\ at' = at
             /\ IF Autocommit THEN committed' = View \o res /\ pending' = <<>>
                ELSE pending' = pending \o res /\ committed' = committed
  BY <1>6 DEF ScriptStep, Write
<1>7. (committed \o pending) \o res = committed \o (pending \o res)
  BY <1>3, <1>10
<1>8. CASE Script[script] # "bad" /\ unwinding = FALSE
  <2>1. Outcome = "running" /\ script' = script + 1 /\ at' = at /\ args' = args
    BY <1>1, <1>2, <1>6, <1>8, Outcomes DEF Command
  <2>2. PartDone = done /\ PartDone' = more /\ UnitsDone' = UnitsDone
    <3>1. PartDone = done
      BY <1>2, Progress DEF Script
    <3>2. PartDone' = Atomic!Statements(SubSeq(Script, 1, (script + 1) - 1))
      BY <1>2, <2>1, ProgressNext DEF Script
    <3>3. UnitsDone' = UnitsDone
      BY <1>1, <1>2, <2>1, Progress, ProgressNext, SamePlan
    <3> QED BY <1>2, <3>1, <3>2, <3>3
  <2> PICK whole : whole = Atomic!Whole(UnitsDone)
    OBVIOUS
  <2>3. IsSeq(whole) /\ View = whole \o done
    <3>1. UnitsDone \in 0..PlanLength
      BY <2>1, Standing
    <3> QED BY <1>2, <2>1, <2>2, <3>1, WholeFacts DEF PlanInv, UnitsOK
  <2>4. (whole \o done) \o res = whole \o (done \o res)
    <3>1. IsSeq(whole)
      BY <2>3
    <3> QED BY <1>10, <1>13, <3>1
  <2>5. View' = View \o res /\ (IF Autocommit THEN pending' = <<>> ELSE committed' = committed)
    <3>1. CASE Autocommit
      <4>1. committed' = View \o res /\ pending' = <<>>
        BY <1>6, <1>8, <3>1
      <4>2. View' = (View \o res) \o <<>>
        BY <4>1 DEF View
      <4>3. IsSeq(View \o res)
        BY <1>3, IsSeqConcat
      <4> QED BY <3>1, <4>1, <4>2, <4>3, ConcatEmpty
    <3>2. CASE ~Autocommit
      <4>1. View' = committed \o (pending \o res)
        BY <1>6, <1>8, <3>2 DEF View
      <4> QED BY <1>3, <1>6, <1>7, <1>8, <3>2, <4>1
    <3> QED BY <3>1, <3>2
  <2>6. View' = Atomic!Whole(UnitsDone') \o PartDone'
    BY <1>5, <2>2, <2>3, <2>4, <2>5
  <2>7. ~Autocommit => committed' = Atomic!Whole(UnitsDone')
    BY <2>1, <2>2, <2>5 DEF PlanInv, UnitsOK
  <2>8. UnitsOK'
    BY <1>1, <2>5, <2>6, <2>7, UnitsThen
  <2>9. FilesOK'
    <3>1. at' \in {"before", "insert", "rows", "after", "thrown"}
          /\ at \in {"before", "insert", "rows", "after"}
      BY <1>2, <2>1
    <3>2. /\ at' = "before" => script' \in 0..(Len(args.before) + 1)
          /\ at' = "after" => script' \in 0..(Len(args.after) + 1)
      BY <1>2, <2>1 DEF Script
    <3> QED BY <1>1, <1>2, <3>1, <3>2, SameTurn
  <2>10. Autocommit => IsPrefix(committed, committed')
    <3>1. Autocommit => View = committed /\ committed' = View \o res
      BY <1>6, <1>8, <2>1, Placed
    <3>2. IsPrefix(committed, committed \o res)
      BY <1>3, PrefixConcat
    <3> QED BY <3>1, <3>2
  <2>11. at' \notin Ended \cup {"thrown"} /\ ~unwinding'
    BY <1>1, <1>2, <1>8, <2>1 DEF Ended
  <2> QED BY <1>1, <2>1, <2>5, <2>8, <2>9, <2>10, <2>11, RunStep
<1>9. CASE Script[script] # "bad" /\ unwinding = TRUE
  <2>1. at = "after" /\ at' = "after" /\ script' = script + 1 /\ unwinding' = TRUE /\ Script = args.after
        /\ Atomic!After = Atomic!Statements(Script)
    BY <1>1, <1>2, <1>6, <1>9, ScriptFacts DEF PlanInv, TornOK, Ended, Atomic!After
  <2>2. PICK r \in Atomic!Parts(Atomic!RowsOf(file_no)) :
          IsSeq(r) /\ pending = r \o (IF Autocommit THEN <<>> ELSE done)
    BY <1>9, <2>1, TornFacts
  <2>3. args.db \in {"mysql", "postgresql", "oracle"}
    BY <1>2, <1>9, <2>1 DEF PlanInv, TornOK
  <2>4. script' \in 1..(Len(args.after) + 1)
    BY <1>2, <2>1
  <2>5. Atomic!Statements(SubSeq(args.after, 1, script' - 1)) = more
    BY <1>2, <2>1
  <2>6. CASE Autocommit
    <3>1. committed' = View \o res /\ pending' = <<>> /\ pending = r
      BY <1>6, <1>9, <2>2, <2>6, ConcatEmpty
    <3>2. committed' = (committed \o r) \o res
      BY <1>3, <3>1
    <3>3. res \in Atomic!Parts(Atomic!After)
      <4>1. IsPrefix(done \o res, Atomic!After) /\ IsSeq(Atomic!After)
        BY <1>5, <2>1
      <4> QED BY <1>3, <1>5, <4>1, LastPart
    <3>4. <<>> \in Atomic!Parts(Atomic!RowsOf(file_no))
      BY <1>1, ScriptFacts, PartOf
    <3>5. pending' = <<>> \o (IF Autocommit THEN <<>>
                              ELSE Atomic!Statements(SubSeq(args.after, 1, script' - 1)))
      BY <2>6, <3>1, IsSeqEmpty, ConcatEmpty
    <3>6. \E p \in Atomic!Parts(Atomic!RowsOf(file_no)) :
           pending' = p \o (IF Autocommit THEN <<>>
                            ELSE Atomic!Statements(SubSeq(args.after, 1, script' - 1)))
      BY <3>4, <3>5
    <3>7. \E p \in Atomic!Parts(Atomic!RowsOf(file_no)), a \in Atomic!Parts(Atomic!After) :
            committed' = (committed \o p) \o a
      BY <3>2, <3>3
    <3> QED BY <1>1, <1>9, <2>1, <2>3, <2>4, <3>1, <3>6, <3>7, TornStep
  <2>7. CASE ~Autocommit
    <3>1. committed' = committed /\ pending' = (r \o done) \o res
      BY <1>6, <1>9, <2>2, <2>7
    <3>2. pending' = r \o (IF Autocommit THEN <<>>
                           ELSE Atomic!Statements(SubSeq(args.after, 1, script' - 1)))
      <4>1. (r \o done) \o res = r \o (done \o res)
        <5>1. IsSeq(r)
          BY <2>2
        <5> QED BY <1>10, <1>13, <5>1
      <4> QED BY <1>5, <2>5, <2>7, <3>1, <4>1
    <3> QED BY <1>1, <1>9, <2>1, <2>3, <2>4, <2>7, <3>1, <3>2, TornStep
  <2> QED BY <2>6, <2>7
<1> QED BY <1>2, <1>4, <1>8, <1>9

\* At the end of a list of statements its unit is whole.
LEMMA ScriptEnds ==
  ASSUME SqlInv, PlanInv, InScript, script > Len(Script)
  PROVE  /\ Atomic!Statements(SubSeq(Script, 1, script - 1)) = Atomic!Statements(Script)
         /\ unwinding = FALSE =>
              /\ Outcome = "running"
              /\ View = Atomic!Whole(UnitsDone + 1)
              /\ UnitsDone < PlanLength
              /\ UnitsDone + 1 = Units * (file_no - 1) + (IF at = "before" THEN 2 ELSE 4)
<1>1. /\ at \in WithFile /\ at \notin Ended /\ unwinding \in BOOLEAN /\ at \in {"before", "after"}
      /\ IsSeq(Script) /\ script \in 0..(Len(Script) + 1) /\ Chosen /\ file_no \in 1..Tables
      /\ (at = "after" => Script = args.after) /\ (at = "before" => Script = args.before)
  BY ScriptFacts, Types DEF InScript
<1>2. Atomic!Statements(SubSeq(Script, 1, script - 1)) = Atomic!Statements(Script)
  BY <1>1, StatementsDone
<1>3. ASSUME unwinding = FALSE
      PROVE  /\ Outcome = "running"
             /\ View = Atomic!Whole(UnitsDone + 1)
             /\ UnitsDone < PlanLength
             /\ UnitsDone + 1 = Units * (file_no - 1) + (IF at = "before" THEN 2 ELSE 4)
  <2>1. Outcome = "running"
    BY <1>1, <1>3, Outcomes
  <2>2. Inserting /\ Units = 4
    BY <1>1 DEF PlanInv, FilesOK, Units
  <2> PICK j \in {2, 4} : j = IF at = "before" THEN 2 ELSE 4
    OBVIOUS
  <2>3. j \in 1..Units /\ UnitsDone = Units * (file_no - 1) + (j - 1)
        /\ PartDone = Atomic!Statements(SubSeq(Script, 1, script - 1))
    BY <1>1, <2>2, Progress DEF Script
  <2>4. UnitOf(file_no, j) = Atomic!Statements(Script)
    <3>1. at = "before" => ~Autocommit
      BY DEF SqlInv, SessionOK
    <3> QED BY <1>1, <3>1, SameEffects DEF UnitOf, Atomic!Before, Atomic!After
  <2>5. View = Atomic!Whole(UnitsDone) \o UnitOf(file_no, j)
    BY <1>2, <2>1, <2>3, <2>4 DEF PlanInv, UnitsOK
  <2>6. /\ Units * (file_no - 1) + j \in 1..PlanLength
        /\ Atomic!Whole(Units * (file_no - 1) + j) =
             Atomic!Whole(Units * (file_no - 1) + (j - 1)) \o UnitOf(file_no, j)
    BY <1>1, <2>3, TableUnits
  <2>7. UnitsDone + 1 = Units * (file_no - 1) + j
    <3>1. file_no - 1 \in Int /\ Tables \in Nat
      BY <1>1, PlanFacts
    <3>2. Units * (file_no - 1) \in Int
      BY <2>2, <3>1
    <3> QED BY <2>3, <3>2
  <2>8. UnitsDone < PlanLength
    <3>1. UnitsDone \in 0..PlanLength /\ PlanLength \in Nat
      BY <1>1, <2>1, Standing, PlanFacts
    <3> QED BY <2>6, <2>7, <3>1
  <2>9. View = Atomic!Whole(UnitsDone + 1)
    BY <2>3, <2>5, <2>6, <2>7
  <2> QED BY <2>1, <2>7, <2>8, <2>9
<1> QED BY <1>2, <1>3

LEMMA EndBeforePlan ==
  ASSUME SqlInv, SqlInv', PlanInv, EndBefore
  PROVE  PlanInv' /\ Refined
<1>1. /\ InScript /\ Script = args.before /\ UNCHANGED Command /\ UNCHANGED Position /\ file_no' = file_no
      /\ at = "before" /\ at' = "insert" /\ committed' = View /\ unwinding' = unwinding
      /\ script > Len(Script) /\ at \in WithFile
  BY DEF EndBefore, OnlySession, Loading, Position, Commit, InScript, Script, WithFile
<1>2. unwinding = FALSE
  BY <1>1, NotTorn DEF Ended
<1>3. /\ Outcome = "running" /\ committed' = Atomic!Whole(UnitsDone + 1) /\ UnitsDone < PlanLength
      /\ UnitsDone + 1 = Units * (file_no - 1) + 2
  BY <1>1, <1>2, ScriptEnds
<1>4. UnitsDone' = UnitsDone + 1
  BY <1>1, <1>3, ProgressNext, SamePlan
<1>5. FilesOK'
  BY <1>1, SameTurn
<1> QED BY <1>1, <1>2, <1>3, <1>4, <1>5, WholeStep

LEMMA EndAfterPlan ==
  ASSUME SqlInv, SqlInv', PlanInv, EndAfter
  PROVE  PlanInv' /\ Refined
<1>1. /\ InScript /\ Script = args.after /\ UNCHANGED Command /\ file_no' = file_no
      /\ at = "after" /\ unwinding' = unwinding /\ table' = table
      /\ script > Len(Script) /\ at \in WithFile /\ unwinding \in BOOLEAN
      /\ IF Autocommit THEN UNCHANGED Session ELSE Commit
  BY Types DEF EndAfter, InScript, Script, WithFile
<1>2. CASE unwinding = FALSE
  <2>1. /\ Outcome = "running" /\ View = Atomic!Whole(UnitsDone + 1) /\ UnitsDone < PlanLength
        /\ UnitsDone + 1 = Units * (file_no - 1) + 4
    BY <1>1, <1>2, ScriptEnds
  <2>2. committed' = View
    BY <1>1, <2>1, Placed DEF Session, Commit
  <2>3. NextFile /\ at' = "compose"
    BY <1>2 DEF EndAfter, NextFile
  <2>4. UnitsDone' = UnitsDone + 1
    <3>1. file_no \in 1..Tables /\ Chosen /\ Units = 4
      BY <1>1, Turn DEF PlanInv, FilesOK, Units
    <3>2. Units * file_no = Units * (file_no - 1) + 4
      BY <3>1, TableUnits
    <3> QED BY <1>1, <2>1, <2>3, <3>2, ProgressNext, SamePlan
  <2>5. FilesOK'
    BY <1>1, <2>3, NextTurn
  <2> QED BY <1>1, <1>2, <2>1, <2>2, <2>3, <2>4, <2>5, WholeStep
<1>3. CASE unwinding = TRUE
  <2>1. at' = "thrown" /\ UNCHANGED Position /\ unwinding' = TRUE
    BY <1>1, <1>3 DEF EndAfter, Position
  <2>2. Outcome = "torn" /\ Outcome' = "torn"
    BY <1>1, <1>3, <2>1, Outcomes, OutcomesNext DEF Ended
  <2>3. args.after # <<>> /\ IsSeq(args.after) /\ script > 0 /\ IsSeq(Atomic!RowsOf(file_no))
    BY <1>1, ScriptFacts
  <2>4. args.db \in {"mysql", "postgresql", "oracle"}
    BY <1>1, <1>3, <2>3 DEF PlanInv, TornOK
  <2>5. PlanInv'
    <3>1. FilesOK'
      BY <1>1, <2>1, SameTurn
    <3>2. UnitsOK'
      BY <2>2 DEF UnitsOK
    <3>3. args' = args
      BY <1>1 DEF Command
    <3>4. TornOK'
      BY <2>1, <2>3, <2>4, <3>3 DEF TornOK
    <3> QED BY <3>1, <3>2, <3>4 DEF PlanInv
  <2>6. CASE Autocommit
    BY <1>1, <2>2, <2>5, <2>6 DEF Refined, Session
  <2>7. CASE ~Autocommit
    <3>1. committed' = View
      BY <1>1, <2>7 DEF Commit
    <3>2. PICK r \in Atomic!Parts(Atomic!RowsOf(file_no)) :
            IsSeq(r) /\ pending = r \o Atomic!Statements(SubSeq(args.after, 1, script - 1))
      BY <1>1, <1>3, <2>7, TornFacts
    <3>3. Atomic!Statements(SubSeq(args.after, 1, script - 1)) = Atomic!After
      BY <1>1, ScriptEnds DEF Atomic!After
    <3>4. IsSeq(Atomic!After) /\ Atomic!After \in Atomic!Parts(Atomic!After)
      <4>1. Len(args.after) + 1 \in 0..(Len(args.after) + 1)
        BY <2>3, IsSeqFacts
      <4>2. IsSeq(Atomic!After)
        BY <2>3, <4>1, StatementsDone DEF Atomic!After
      <4> QED BY <4>2, PartOf
    <3>5. committed \o (r \o Atomic!After) = (committed \o r) \o Atomic!After
      <4>1. IsSeq(committed) /\ IsSeq(r)
        BY <3>2, Types
      <4> QED BY <3>4, <4>1, ConcatMore
    <3>6. committed' = (committed \o r) \o Atomic!After
      BY <3>1, <3>2, <3>3, <3>5 DEF View
    <3> QED BY <1>1, <2>2, <2>4, <2>5, <3>4, <3>6, Salvaged
  <2> QED BY <2>6, <2>7
<1> QED BY <1>1, <1>2, <1>3

\* The command is done with its last unit.
LEMMA DonePlan ==
  ASSUME SqlInv, PlanInv, Outcome = "running", UNCHANGED Command, at' = "done", unwinding' \in BOOLEAN,
         committed' = Atomic!Everything,
         committed = Atomic!Everything \/ committed = Atomic!Whole(PlanLength - 1)
  PROVE  PlanInv' /\ Refined
<1>1. Outcome' = "done"
  BY OutcomesNext
<1>2. PlanInv'
  <2>1. FilesOK'
    BY DEF FilesOK, Ended, WithFile, InScript
  <2>2. UnitsOK'
    BY <1>1 DEF UnitsOK
  <2>3. TornOK'
    BY DEF TornOK, Ended
  <2> QED BY <2>1, <2>2, <2>3 DEF PlanInv
<1>3. Len(Atomic!Plan) = PlanLength
  BY PlanFacts DEF SqlInv
<1>4. Atomic!Finish
  BY <1>1, <1>3 DEF Atomic!Finish
<1> QED BY <1>2, <1>4 DEF Refined, Atomic!Next

-------------------------------------------------------------------------------
(* The steps: the queries.                                                   *)

\* How far the command is when it comes to the queries.
LEMMA QueryPlace ==
  ASSUME SqlInv, PlanInv, at \in {"query", "header"}
  PROVE  /\ Chosen /\ Units * Tables \in Nat /\ file_no = Tables
         /\ PlanLength = Units * Tables + Asked /\ Asked \in Nat /\ PlanLength \in Nat
         /\ unwinding = FALSE /\ Outcome = "running" /\ ValidArgs
         /\ committed = Atomic!Whole(UnitsDone) /\ IsSeq(committed)
         /\ Len(args.query) \in Nat /\ DOMAIN args.query = 1..Len(args.query)
         /\ Len(args.query) <= Asked
         /\ Atomic!Everything = Atomic!Whole(PlanLength)
<1>1. Chosen
  BY DEF SqlInv
<1>2. Units * Tables \in Nat
  BY <1>1, PlanFacts
<1>3. file_no = Tables
  BY DEF PlanInv, FilesOK, Tables
<1>4. IsSeq(args.query) /\ Len(args.query) \in Nat
  BY <1>1, QueryFacts
<1>5. DOMAIN args.query = 1..Len(args.query)
  BY <1>4, IsSeqFacts
<1>6. 0 \in 0..PlanLength /\ PlanLength \in Nat
  BY <1>1, PlanFacts
<1>7. Atomic!Everything = Atomic!Whole(PlanLength)
  BY <1>1, <1>6, WholeFacts
<1> QED BY <1>1, <1>2, <1>3, <1>4, <1>5, <1>6, <1>7, AskedFacts, Types, BetweenUnits DEF PlanLength

\* A query, a unit after those of the tables.
LEMMA QueryUnit ==
  ASSUME Chosen, NEW i \in 1..Len(args.query)
  PROVE  Atomic!Whole(Units * Tables + i) =
           Atomic!Whole((Units * Tables + i) - 1) \o Result(args.query[i])
<1>1. i \in 1..Asked /\ i <= Len(args.query)
  BY AskedFacts, QueryFacts
<1>2. Atomic!Whole(Units * Tables + i) =
        Atomic!Whole((Units * Tables + i) - 1)
          \o Result(args.query[IF i <= Len(args.query) THEN i ELSE Len(args.query)])
  BY <1>1, NextQuery
<1> QED BY <1>1, <1>2

LEMMA QueryPlan ==
  ASSUME SqlInv, SqlInv', PlanInv, Query
  PROVE  PlanInv' /\ Refined
<1>1. /\ at = "query" /\ UNCHANGED Command /\ unwinding' = unwinding /\ file_no' = file_no
      /\ args' = args /\ script \in DOMAIN args.query /\ args.query # <<>>
      /\ committed' = committed \o Result(args.query[script])
      /\ script' = IF IsLast THEN script ELSE script + 1
      /\ at' = IF ~IsLast THEN at ELSE IF AskAgain(args.query[script]) THEN "header" ELSE "done"
  BY DEF Query, Asking, Loading, Position, Command
<1> PICK t : t = Units * Tables
  OBVIOUS
<1> PICK l : l = Len(args.query)
  OBVIOUS
<1>2. /\ Chosen /\ t \in Nat /\ file_no = Tables /\ l \in Nat /\ l <= Asked /\ Asked \in Nat
      /\ PlanLength = t + Asked /\ unwinding = FALSE /\ Outcome = "running" /\ ValidArgs
      /\ committed = Atomic!Whole(UnitsDone) /\ IsSeq(committed) /\ DOMAIN args.query = 1..l
      /\ Atomic!Everything = Atomic!Whole(PlanLength)
  BY <1>1, QueryPlace
<1>3. script \in 1..l /\ script \in 1..Asked /\ script \in Nat /\ (IsLast <=> script = l)
  BY <1>1, <1>2 DEF IsLast
<1>4. UnitsDone = t + script - 1 /\ UnitsDone + 1 = t + script /\ UnitsDone = (t + script) - 1
      /\ UnitsDone < PlanLength
  <2>1. UnitsDone = Units * file_no + script - 1
    BY <1>1, Progress
  <2>2. UnitsDone = t + script - 1
    BY <1>2, <2>1
  <2> QED BY <1>2, <1>3, <2>2
<1>5. Atomic!Whole(t + script) = Atomic!Whole((t + script) - 1) \o Result(args.query[script])
  BY <1>2, <1>3, QueryUnit
<1>6. committed' = Atomic!Whole(UnitsDone + 1)
  BY <1>1, <1>2, <1>4, <1>5
<1>7. (file_no = Len(Atomic!Loaded))' /\ ValidArgs'
  BY <1>1, <1>2, SamePlan DEF Tables
<1>8. CASE script < l
  <2>1. at' = "query" /\ script' = script + 1 /\ script' \in 1..l
    BY <1>1, <1>3, <1>8
  <2>2. FilesOK'
    <3>1. at' = "query" => script' = 1 \/ script' \in 1..Len(args'.query)
      BY <1>1, <2>1
    <3>2. ~InScript'
      BY <2>1 DEF InScript
    <3> QED BY <1>7, <2>1, <3>1, <3>2 DEF FilesOK, WithFile
  <2>3. UnitsDone' = UnitsDone + 1
    <3>1. UnitsDone' = t + (script + 1) - 1
      BY <1>1, <1>2, <2>1, ProgressNext, SamePlan
    <3> QED BY <1>2, <1>3, <1>4, <3>1
  <2> QED BY <1>1, <1>2, <1>4, <1>6, <2>1, <2>2, <2>3, WholeStep
<1>9. CASE script = l /\ AskAgain(args.query[script])
  <2>1. at' = "header" /\ script' = script
    BY <1>1, <1>3, <1>9
  <2>2. FilesOK'
    <3>1. /\ script' = Len(args'.query) /\ args'.query # <<>>
          /\ AskAgain(args.query[script])'
      BY <1>1, <1>9, <2>1, SameCommand DEF AskAgain
    <3>2. ~InScript'
      BY <2>1 DEF InScript
    <3> QED BY <1>7, <2>1, <3>1, <3>2 DEF FilesOK, WithFile
  <2>3. UnitsDone' = UnitsDone + 1
    <3>1. UnitsDone' = t + l
      BY <1>1, <1>2, <2>1, ProgressNext, SamePlan
    <3> QED BY <1>2, <1>4, <1>9, <3>1
  <2> QED BY <1>1, <1>2, <1>4, <1>6, <2>1, <2>2, <2>3, WholeStep
<1>10. CASE script = l /\ ~AskAgain(args.query[script])
  <2>1. at' = "done" /\ unwinding' \in BOOLEAN
    BY <1>1, <1>2, <1>3, <1>10
  <2>2. CASE ~Again
    <3>1. PlanLength = t + l /\ UnitsDone = PlanLength - 1 /\ UnitsDone + 1 = PlanLength
      BY <1>2, <1>4, <1>10, <2>2, AskedFacts
    <3> QED BY <1>1, <1>2, <1>6, <2>1, <3>1, DonePlan
  <2>3. CASE Again
    <3>1. args.query[script] = "read"
      BY <1>10, <2>3 DEF Again, AskAgain
    <3>2. Result(args.query[script]) = <<>> /\ committed' = committed
      BY <1>1, <1>2, <3>1, ConcatEmpty DEF Result
    <3>3. Asked = l + 1
      BY <1>2, <2>3, AskedFacts
    <3>4. l + 1 \in 1..Asked /\ ~(l + 1 <= l) /\ (t + (l + 1)) - 1 = t + script
          /\ t + (l + 1) = PlanLength
      BY <1>2, <1>10, <3>3
    <3>5. Atomic!Whole(t + (l + 1)) = Atomic!Whole((t + (l + 1)) - 1) \o Result(args.query[l])
      BY <1>2, <3>4, NextQuery
    <3>6. Atomic!Everything = committed' \o <<>>
      BY <1>2, <1>4, <1>6, <1>10, <3>2, <3>4, <3>5
    <3>7. Atomic!Everything = committed'
      BY <1>2, <3>2, <3>6, ConcatEmpty
    <3> QED BY <1>1, <1>2, <2>1, <3>2, <3>7, DonePlan
  <2> QED BY <2>2, <2>3
<1> QED BY <1>3, <1>8, <1>9, <1>10, <1>2

LEMMA QueryHeaderPlan ==
  ASSUME SqlInv, SqlInv', PlanInv, QueryHeader
  PROVE  PlanInv' /\ Refined
<1>1. /\ at = "header" /\ UNCHANGED Command /\ unwinding' = unwinding /\ at' = "done"
      /\ committed' = committed \o Result(args.query[script])
  BY DEF QueryHeader, Loading
<1> PICK t : t = Units * Tables
  OBVIOUS
<1> PICK l : l = Len(args.query)
  OBVIOUS
<1>2. /\ Chosen /\ t \in Nat /\ file_no = Tables /\ l \in Nat /\ Asked \in Nat
      /\ PlanLength = t + Asked /\ unwinding = FALSE /\ Outcome = "running"
      /\ committed = Atomic!Whole(UnitsDone) /\ IsSeq(committed)
      /\ Atomic!Everything = Atomic!Whole(PlanLength)
  BY <1>1, QueryPlace
<1>3. script = l /\ Again /\ Asked = l + 1
  <2>1. script = l /\ args.query # <<>> /\ AskAgain(args.query[script])
    BY <1>1 DEF PlanInv, FilesOK
  <2> QED BY <1>2, <2>1, AskedFacts DEF Again, AskAgain
<1>4. UnitsDone = t + l
  BY <1>1, <1>2, Progress
<1>5. l + 1 \in 1..Asked /\ ~(l + 1 <= l) /\ (t + (l + 1)) - 1 = t + l
      /\ t + (l + 1) = PlanLength /\ UnitsDone = PlanLength - 1
  BY <1>2, <1>3, <1>4
<1>6. Atomic!Whole(t + (l + 1)) = Atomic!Whole((t + (l + 1)) - 1) \o Result(args.query[l])
  BY <1>2, <1>5, NextQuery
<1>7. committed' = Atomic!Everything /\ committed = Atomic!Whole(PlanLength - 1)
  BY <1>1, <1>2, <1>3, <1>4, <1>5, <1>6
<1> QED BY <1>1, <1>2, <1>7, DonePlan

LEMMA NoQueryPlan ==
  ASSUME SqlInv, SqlInv', PlanInv, NoQuery
  PROVE  PlanInv' /\ Refined
<1>1. /\ at = "query" /\ UNCHANGED Command /\ unwinding' = unwinding /\ at' = "done"
      /\ committed' = committed /\ args.query = <<>>
  BY DEF NoQuery, OnlySession, Loading, Session
<1> PICK t : t = Units * Tables
  OBVIOUS
<1>2. /\ Chosen /\ t \in Nat /\ file_no = Tables /\ Asked \in Nat
      /\ PlanLength = t + Asked /\ unwinding = FALSE /\ Outcome = "running"
      /\ committed = Atomic!Whole(UnitsDone)
      /\ Atomic!Everything = Atomic!Whole(PlanLength)
  BY <1>1, QueryPlace
<1>3. Len(args.query) = 0 /\ Asked = 0
  <2>1. Len(args.query) = 0
    BY <1>1, <1>2, QueryFacts
  <2>2. ~Again
    BY <1>1 DEF Again
  <2> QED BY <1>2, <2>1, <2>2, AskedFacts
<1>4. script = 1
  BY <1>1, <1>3 DEF PlanInv, FilesOK
<1>5. UnitsDone = PlanLength
  <2>1. UnitsDone = t + 1 - 1
    BY <1>1, <1>2, <1>4, Progress
  <2> QED BY <1>2, <1>3, <2>1
<1> QED BY <1>1, <1>2, <1>5, DonePlan

-------------------------------------------------------------------------------
(* The steps: the insertion.                                                 *)

\* Where the command is among the rows of a file.
LEMMA RowsStanding ==
  ASSUME SqlInv, PlanInv, at = "rows"
  PROVE  /\ Outcome = "running" /\ unwinding = FALSE /\ Chosen /\ at \in WithFile /\ at \notin Ended
         /\ file_no \in 1..Tables /\ IsSeq(Atomic!RowsOf(file_no))
         /\ Len(Atomic!RowsOf(file_no)) = Len(keys[file]) /\ Len(keys[file]) \in Nat
         /\ \A i \in 1..Len(keys[file]) :
              Atomic!RowsOf(file_no)[i] = Inserted(file, table.name, BodyRows(file)[i])
         /\ Sent \in Nat /\ Sent <= Len(keys[file])
         /\ View = Atomic!Whole(UnitsDone) \o SubSeq(Atomic!RowsOf(file_no), 1, Sent)
         /\ IF Autocommit THEN View = committed /\ pending = <<>>
            ELSE committed = Atomic!Whole(UnitsDone) /\ pending = SubSeq(Atomic!RowsOf(file_no), 1, Sent)
         /\ UnitsDone \in 0..PlanLength /\ UnitsDone < PlanLength /\ IsSeq(Atomic!Whole(UnitsDone))
         /\ Inserting /\ Units = 4
         /\ UnitsDone = Units * (file_no - 1) + 2 /\ UnitsDone + 1 = Units * (file_no - 1) + 3
         /\ Atomic!Plan[UnitsDone + 1] = Atomic!RowsOf(file_no)
         /\ Atomic!Whole(UnitsDone + 1) = Atomic!Whole(UnitsDone) \o Atomic!RowsOf(file_no)
<1>1. at \notin Ended \cup {"after", "thrown"} /\ at \in WithFile /\ Chosen
  BY DEF Ended, WithFile, SqlInv
<1>2. Outcome = "running" /\ unwinding = FALSE
  BY <1>1, NotTorn
<1>3. /\ file_no \in 1..Tables /\ file_no \in DOMAIN Atomic!Loaded
      /\ Atomic!Loaded[file_no] = file /\ table.name = TableName(file_no)
  BY <1>1, Turn
<1>4. /\ IsSeq(Atomic!RowsOf(file_no)) /\ Len(Atomic!RowsOf(file_no)) = Len(keys[file])
      /\ \A i \in 1..Len(Atomic!RowsOf(file_no)) :
           Atomic!RowsOf(file_no)[i] = Inserted(file, table.name, BodyRows(file)[i])
  BY <1>1, <1>3, RowsOfFacts
<1>5. Len(keys[file]) \in Nat
  BY <1>1, WithFileFacts
<1>6. Sent \in Nat /\ Sent <= Len(keys[file]) /\ (Autocommit => pending = <<>>)
      /\ (~Autocommit => Len(pending) = Sent)
  <2>1. Sent \in Nat /\ Sent + offset = row /\ row <= Len(keys[file])
    BY BufferFacts
  <2> QED BY <1>5, <2>1, Types, BufferFacts
<1>7. /\ UnitsDone = Units * (file_no - 1) + 2
      /\ PartDone = SubSeq(Atomic!RowsOf(file_no), 1, Sent)
  BY Progress
<1>8. UnitsDone \in 0..PlanLength /\ IsSeq(PartDone)
  BY <1>2, Standing
<1>9. View = Atomic!Whole(UnitsDone) \o PartDone /\ (~Autocommit => committed = Atomic!Whole(UnitsDone))
  BY <1>2 DEF PlanInv, UnitsOK
<1>10. Autocommit => View = committed
  BY <1>2, Placed
<1>11. ~Autocommit => pending = PartDone
  <2>1. IsSeq(committed) /\ IsSeq(pending) /\ View = committed \o pending
    BY Types DEF View
  <2> QED BY <1>8, <1>9, <2>1, ConcatCancel
<1>12. Inserting /\ Units = 4
  BY <1>1 DEF PlanInv, FilesOK, Units
<1>13. UnitsDone + 1 = Units * (file_no - 1) + 3
  <2>1. Tables \in Nat /\ file_no - 1 \in Int
    BY <1>1, <1>3, PlanFacts
  <2>2. Units * (file_no - 1) \in Int
    BY <1>12, <2>1
  <2> QED BY <1>7, <2>2
<1>14. UnitOf(file_no, 3) = Atomic!RowsOf(file_no)
  BY DEF UnitOf
<1>15. 3 \in 1..Units /\ 3 - 1 = 2
  BY <1>12
<1>16. /\ Units * (file_no - 1) + 3 \in 1..PlanLength
       /\ Atomic!Whole(Units * (file_no - 1) + 3) =
            Atomic!Whole(Units * (file_no - 1) + 2) \o UnitOf(file_no, 3)
       /\ Atomic!Plan[Units * (file_no - 1) + 3] = UnitOf(file_no, 3)
  <2>1. /\ Units * (file_no - 1) + 3 \in 1..PlanLength
        /\ Atomic!Plan[Units * (file_no - 1) + 3] = UnitOf(file_no, 3)
    BY <1>1, <1>3, <1>15, NextUnit
  <2>2. Atomic!Whole(Units * (file_no - 1) + 3) =
          Atomic!Whole(Units * (file_no - 1) + (3 - 1)) \o UnitOf(file_no, 3)
    BY <1>1, <1>3, <1>15, TableUnits
  <2> QED BY <1>15, <2>1, <2>2
<1>17. PlanLength \in Nat /\ IsSeq(Atomic!Whole(UnitsDone))
  BY <1>1, <1>8, PlanFacts, WholeFacts
<1>18. UnitsDone < PlanLength
  BY <1>8, <1>13, <1>16, <1>17
<1> QED BY <1>1, <1>2, <1>3, <1>4, <1>5, <1>6, <1>7, <1>8, <1>9, <1>10, <1>11, <1>12, <1>13, <1>14,
           <1>16, <1>17, <1>18

LEMMA InsertFailsPlan ==
  ASSUME SqlInv, SqlInv', PlanInv, InsertFails
  PROVE  PlanInv' /\ Refined
<1>1. /\ at = "insert" /\ UNCHANGED Command /\ UNCHANGED Position /\ at \in WithFile
      /\ unwinding' = TRUE /\ script' = 0
  BY DEF InsertFails, Loading, WithFile
<1>2. Outcome = "running" /\ pending = <<>> /\ at \notin Ended
  BY <1>1, BetweenUnits
<1>3. CASE args.after = <<>>
  <2>1. Close("failed") /\ "failed" \in Ended \ {"done"} /\ unwinding' \in BOOLEAN
    BY <1>1, <1>3 DEF InsertFails, Ended
  <2> QED BY <1>1, <1>2, <2>1, Closes
<1>4. CASE args.after # <<>>
  <2>1. at' = "after" /\ pending' = pending /\ committed' = committed
    BY <1>4 DEF InsertFails
  <2>2. tx' = CASE Autocommit -> tx
                [] args.db = "postgresql" -> "aborted"
                [] OTHER -> "open"
    BY <1>4 DEF InsertFails
  <2>3. ~Autocommit => tx' # "none"
    BY <2>2
  <2>4. <<>> \in Atomic!Parts(Atomic!RowsOf(file_no))
    BY <1>1, Turn, RowsOfFacts, PartOf
  <2> QED BY <1>1, <1>2, <2>1, <2>3, <2>4, Tears
<1> QED BY <1>3, <1>4

LEMMA ReadFailsPlan ==
  ASSUME SqlInv, SqlInv', PlanInv, ReadFails
  PROVE  PlanInv' /\ Refined
<1>1. /\ at = "rows" /\ UNCHANGED Command /\ UNCHANGED Position
      /\ unwinding' = TRUE /\ script' = 0
  BY DEF ReadFails, Loading
<1>2. /\ Outcome = "running" /\ at \notin Ended /\ IsSeq(Atomic!RowsOf(file_no))
      /\ Len(Atomic!RowsOf(file_no)) = Len(keys[file]) /\ Len(keys[file]) \in Nat
      /\ Sent \in Nat /\ Sent <= Len(keys[file])
      /\ IF Autocommit THEN pending = <<>>
         ELSE pending = SubSeq(Atomic!RowsOf(file_no), 1, Sent)
  BY <1>1, RowsStanding
<1>3. CASE args.after = <<>>
  <2>1. Close("failed") /\ "failed" \in Ended \ {"done"} /\ unwinding' \in BOOLEAN
    BY <1>1, <1>3 DEF ReadFails, Ended
  <2> QED BY <1>1, <1>2, <2>1, Closes
<1>4. CASE args.after # <<>>
  <2>1. at' = "after" /\ pending' = pending /\ committed' = committed /\ tx' = tx
    BY <1>4 DEF ReadFails, Session
  <2>2. pending \in Atomic!Parts(Atomic!RowsOf(file_no))
    <3>1. /\ <<>> \in Atomic!Parts(Atomic!RowsOf(file_no))
          /\ \A i \in 1..(Len(Atomic!RowsOf(file_no)) + 1) : \A j \in 0..Len(Atomic!RowsOf(file_no)) :
               SubSeq(Atomic!RowsOf(file_no), i, j) \in Atomic!Parts(Atomic!RowsOf(file_no))
      BY <1>2, PartOf
    <3>2. Sent \in 0..Len(keys[file]) /\ 1 \in 1..(Len(keys[file]) + 1)
      BY <1>2
    <3> QED BY <1>2, <3>1, <3>2
  <2>3. tx = "none" <=> Autocommit
    BY <1>1, BufferFacts
  <2>4. Autocommit => pending' = <<>>
    BY <1>2, <2>1
  <2> QED BY <1>1, <1>2, <2>1, <2>2, <2>3, <2>4, Tears
<1> QED BY <1>3, <1>4

\* Rows bound in the slots that are next to be sent.
ToSend(batch) ==
  /\ IsSeq(batch) /\ Sent + Len(batch) <= Len(keys[file])
  /\ \A i \in 1..Len(batch) : batch[i] = BoundRow(file, table.types, BodyRows(file)[Sent + i])

LEMMA BatchRows ==
  ASSUME SqlInv, PlanInv, at = "rows", NEW batch, ToSend(batch)
  PROVE  Effects(batch) = SubSeq(Atomic!RowsOf(file_no), Sent + 1, Sent + Len(batch))
<1>1. /\ IsSeq(Atomic!RowsOf(file_no)) /\ Len(Atomic!RowsOf(file_no)) = Len(keys[file])
      /\ Len(keys[file]) \in Nat /\ Sent \in Nat
      /\ \A i \in 1..Len(keys[file]) :
           Atomic!RowsOf(file_no)[i] = Inserted(file, table.name, BodyRows(file)[i])
  BY RowsStanding
<1>2. IsSeq(batch) /\ Len(batch) \in Nat /\ Sent + Len(batch) <= Len(keys[file])
  BY IsSeqFacts DEF ToSend
<1>3. /\ IsSeq(Effects(batch)) /\ Len(Effects(batch)) = Len(batch)
      /\ \A i \in 1..Len(batch) : Effects(batch)[i] = Effect("row", table.name, batch[i])
  BY <1>2, EffectsFacts
<1>4. /\ Sent + 1 \in 1..(Len(keys[file]) + 1) /\ Sent + Len(batch) \in ((Sent + 1) - 1)..Len(keys[file])
      /\ (Sent + Len(batch)) - (Sent + 1) + 1 = Len(batch)
      /\ \A i \in 1..Len(batch) : (Sent + 1) + i - 1 = Sent + i /\ Sent + i \in 1..Len(keys[file])
  BY <1>1, <1>2
<1>5. /\ IsSeq(SubSeq(Atomic!RowsOf(file_no), Sent + 1, Sent + Len(batch)))
      /\ Len(SubSeq(Atomic!RowsOf(file_no), Sent + 1, Sent + Len(batch))) = Len(batch)
      /\ \A i \in 1..Len(batch) :
           SubSeq(Atomic!RowsOf(file_no), Sent + 1, Sent + Len(batch))[i] = Atomic!RowsOf(file_no)[Sent + i]
  <2> PICK lo : lo = Sent + 1
    OBVIOUS
  <2> PICK hi : hi = Sent + Len(batch)
    OBVIOUS
  <2>1. lo \in 1..(Len(keys[file]) + 1) /\ hi \in (lo - 1)..Len(keys[file])
    BY <1>4
  <2>2. /\ IsSeq(SubSeq(Atomic!RowsOf(file_no), lo, hi))
        /\ Len(SubSeq(Atomic!RowsOf(file_no), lo, hi)) = hi - lo + 1
        /\ \A i \in 1..(hi - lo + 1) :
             SubSeq(Atomic!RowsOf(file_no), lo, hi)[i] = Atomic!RowsOf(file_no)[lo + i - 1]
    BY <1>1, <2>1, IsSeqSub
  <2> QED BY <1>4, <2>2
<1>6. table.types = FileTypes(file).types
  BY WithFileFacts DEF WithFile
<1>7. ASSUME NEW i \in 1..Len(batch)
      PROVE  Effects(batch)[i] = SubSeq(Atomic!RowsOf(file_no), Sent + 1, Sent + Len(batch))[i]
  <2>1. batch[i] = BoundRow(file, FileTypes(file).types, BodyRows(file)[Sent + i])
    BY <1>6 DEF ToSend
  <2>2. Effects(batch)[i] = Inserted(file, table.name, BodyRows(file)[Sent + i])
    BY <1>3, <2>1 DEF Inserted
  <2> QED BY <1>1, <1>4, <1>5, <2>2
<1> QED BY <1>3, <1>5, <1>7, IsSeqSame

\* The database after it has executed them.
LEMMA BatchSent ==
  ASSUME SqlInv, PlanInv, at = "rows", NEW batch, ToSend(batch)
  PROVE  /\ Len(batch) \in Nat
         /\ IsSeq(Effects(batch)) /\ Effects(batch) \in Atomic!Parts(Atomic!RowsOf(file_no))
         /\ View \o Effects(batch) =
              Atomic!Whole(UnitsDone) \o SubSeq(Atomic!RowsOf(file_no), 1, Sent + Len(batch))
         /\ SubSeq(Atomic!RowsOf(file_no), 1, Sent + Len(batch)) \in Atomic!Parts(Atomic!RowsOf(file_no))
         /\ ~Autocommit => pending \o Effects(batch) = SubSeq(Atomic!RowsOf(file_no), 1, Sent + Len(batch))
         /\ IsSeq(View \o Effects(batch))
         /\ IsPrefix(View, View \o Effects(batch))
         /\ IsPrefix(View \o Effects(batch), Atomic!Everything)
<1>0. \A x, y, z : IsSeq(x) /\ IsSeq(y) /\ IsSeq(z) => (x \o y) \o z = x \o (y \o z)
  BY ConcatMore
<1>1. /\ IsSeq(Atomic!RowsOf(file_no)) /\ Len(Atomic!RowsOf(file_no)) = Len(keys[file])
      /\ Len(keys[file]) \in Nat /\ Sent \in Nat /\ Sent <= Len(keys[file]) /\ Chosen
      /\ View = Atomic!Whole(UnitsDone) \o SubSeq(Atomic!RowsOf(file_no), 1, Sent)
      /\ (~Autocommit => pending = SubSeq(Atomic!RowsOf(file_no), 1, Sent))
      /\ UnitsDone \in 0..PlanLength /\ UnitsDone < PlanLength /\ IsSeq(Atomic!Whole(UnitsDone))
      /\ Atomic!Plan[UnitsDone + 1] = Atomic!RowsOf(file_no)
  BY RowsStanding
<1>2. IsSeq(batch) /\ Len(batch) \in Nat /\ Sent + Len(batch) <= Len(keys[file])
  BY IsSeqFacts DEF ToSend
<1>3. Effects(batch) = SubSeq(Atomic!RowsOf(file_no), Sent + 1, Sent + Len(batch))
      /\ IsSeq(Effects(batch))
  BY <1>2, BatchRows, EffectsFacts
<1>4. Sent \in 0..Len(keys[file]) /\ Sent + Len(batch) \in Sent..Len(keys[file])
      /\ Sent + Len(batch) \in 0..Len(keys[file])
      /\ Sent + 1 \in 1..(Len(keys[file]) + 1) /\ 1 \in 1..(Len(keys[file]) + 1)
  BY <1>1, <1>2
<1>5. SubSeq(Atomic!RowsOf(file_no), 1, Sent) \o Effects(batch)
        = SubSeq(Atomic!RowsOf(file_no), 1, Sent + Len(batch))
  <2> PICK n : n = Sent + Len(batch)
    OBVIOUS
  <2>1. n \in Sent..Len(Atomic!RowsOf(file_no)) /\ Sent \in 0..Len(Atomic!RowsOf(file_no))
    BY <1>1, <1>4
  <2>2. SubSeq(Atomic!RowsOf(file_no), 1, Sent) \o SubSeq(Atomic!RowsOf(file_no), Sent + 1, n)
          = SubSeq(Atomic!RowsOf(file_no), 1, n)
    BY <1>1, <2>1, SubSeqJoin
  <2> QED BY <1>3, <2>2
<1>6. /\ Effects(batch) \in Atomic!Parts(Atomic!RowsOf(file_no))
      /\ SubSeq(Atomic!RowsOf(file_no), 1, Sent + Len(batch)) \in Atomic!Parts(Atomic!RowsOf(file_no))
  <2>1. \A i \in 1..(Len(Atomic!RowsOf(file_no)) + 1) : \A j \in 0..Len(Atomic!RowsOf(file_no)) :
          SubSeq(Atomic!RowsOf(file_no), i, j) \in Atomic!Parts(Atomic!RowsOf(file_no))
    BY <1>1, PartOf
  <2> QED BY <1>1, <1>3, <1>4, <2>1
<1>7. /\ IsSeq(SubSeq(Atomic!RowsOf(file_no), 1, Sent))
      /\ IsSeq(SubSeq(Atomic!RowsOf(file_no), 1, Sent + Len(batch)))
      /\ IsPrefix(SubSeq(Atomic!RowsOf(file_no), 1, Sent + Len(batch)), Atomic!RowsOf(file_no))
  <2>1. \A n \in 0..Len(Atomic!RowsOf(file_no)) :
          /\ IsSeq(SubSeq(Atomic!RowsOf(file_no), 1, n)) /\ Len(SubSeq(Atomic!RowsOf(file_no), 1, n)) = n
          /\ \A i \in 1..n : SubSeq(Atomic!RowsOf(file_no), 1, n)[i] = Atomic!RowsOf(file_no)[i]
    BY <1>1, IsSeqPrefix
  <2> PICK n : n = Sent + Len(batch)
    OBVIOUS
  <2>2. n \in 0..Len(Atomic!RowsOf(file_no)) /\ Sent \in 0..Len(Atomic!RowsOf(file_no))
        /\ n <= Len(Atomic!RowsOf(file_no))
    BY <1>1, <1>4
  <2>3. /\ IsSeq(SubSeq(Atomic!RowsOf(file_no), 1, n)) /\ Len(SubSeq(Atomic!RowsOf(file_no), 1, n)) = n
        /\ \A i \in 1..n : SubSeq(Atomic!RowsOf(file_no), 1, n)[i] = Atomic!RowsOf(file_no)[i]
    BY <2>1, <2>2
  <2>4. IsPrefix(SubSeq(Atomic!RowsOf(file_no), 1, n), Atomic!RowsOf(file_no))
    BY <1>1, <2>2, <2>3, PrefixFacts
  <2> QED BY <2>1, <2>2, <2>3, <2>4
<1>8. View \o Effects(batch) =
        Atomic!Whole(UnitsDone) \o SubSeq(Atomic!RowsOf(file_no), 1, Sent + Len(batch))
  <2> PICK a : a = Atomic!Whole(UnitsDone)
    OBVIOUS
  <2> PICK b : b = PartDone
    OBVIOUS
  <2> PICK c : c = Effects(batch)
    OBVIOUS
  <2>0. b = SubSeq(Atomic!RowsOf(file_no), 1, Sent)
    BY Progress
  <2>1. IsSeq(a) /\ IsSeq(b) /\ IsSeq(c)
    BY <1>1, <1>3, <1>7, <2>0
  <2>2. (a \o b) \o c = a \o (b \o c)
    BY <1>0, <2>1
  <2>3. View = a \o b /\ b \o c = SubSeq(Atomic!RowsOf(file_no), 1, Sent + Len(batch))
    BY <1>1, <1>5, <2>0
  <2> QED BY <2>2, <2>3
<1>9. IsPrefix(View \o Effects(batch), Atomic!Everything)
  <2> PICK part : part = SubSeq(Atomic!RowsOf(file_no), 1, Sent + Len(batch))
    OBVIOUS
  <2>1. IsSeq(part) /\ IsPrefix(part, Atomic!Plan[UnitsDone + 1])
    BY <1>1, <1>7
  <2>2. IsPrefix(Atomic!Whole(UnitsDone) \o part, Atomic!Everything)
    BY <1>1, <2>1, PlaceFacts
  <2> QED BY <1>8, <2>2
<1>10. IsSeq(View \o Effects(batch)) /\ IsPrefix(View, View \o Effects(batch))
  <2>1. IsSeq(View)
    BY Types
  <2> QED BY <1>3, <2>1, IsSeqConcat, PrefixConcat
<1>11. ~Autocommit => pending \o Effects(batch) = SubSeq(Atomic!RowsOf(file_no), 1, Sent + Len(batch))
  BY <1>1, <1>5
<1> QED BY <1>2, <1>3, <1>6, <1>8, <1>9, <1>10, <1>11

\* Of the rows to be sent, the first ones.
LEMMA FirstToSend ==
  ASSUME SqlInv, at = "rows", NEW batch, ToSend(batch), NEW n \in 0..Len(batch)
  PROVE  ToSend(SubSeq(batch, 1, n)) /\ Len(SubSeq(batch, 1, n)) = n
<1>1. /\ IsSeq(batch) /\ Len(batch) \in Nat /\ Sent + Len(batch) <= Len(keys[file])
      /\ \A i \in 1..Len(batch) : batch[i] = BoundRow(file, table.types, BodyRows(file)[Sent + i])
  BY IsSeqFacts DEF ToSend
<1>2. /\ IsSeq(SubSeq(batch, 1, n)) /\ Len(SubSeq(batch, 1, n)) = n
      /\ \A i \in 1..n : SubSeq(batch, 1, n)[i] = batch[i]
  BY <1>1, IsSeqPrefix
<1>3. Sent \in Nat /\ Len(keys[file]) \in Nat
  BY BufferFacts, WithFileFacts DEF WithFile
<1>4. Sent + n <= Len(keys[file]) /\ \A i \in 1..n : i \in 1..Len(batch)
  BY <1>1, <1>3
<1> QED BY <1>1, <1>2, <1>4 DEF ToSend

\* A row of them is refused: what was executed before it stays in the transaction.
LEMMA RefusedPlan ==
  ASSUME SqlInv, SqlInv', PlanInv, at = "rows", UNCHANGED Command, UNCHANGED Position,
         NEW batch, ToSend(batch), Refused(batch) # {}, Execute(batch)
  PROVE  PlanInv' /\ Refined
<1>1. PICK first \in Refused(batch) : Unwind(Effects(SubSeq(batch, 1, first - 1)))
  BY DEF Execute
<1>2. first - 1 \in 0..Len(batch)
  <2>1. IsSeq(batch)
    BY DEF ToSend
  <2>2. first \in 1..Len(batch) /\ Len(batch) \in Nat
    BY <2>1, IsSeqFacts DEF Refused
  <2> QED BY <2>2
<1>3. ToSend(SubSeq(batch, 1, first - 1))
  BY <1>2, FirstToSend
<1> PICK effects : effects = Effects(SubSeq(batch, 1, first - 1))
  OBVIOUS
<1>4. /\ IsSeq(effects) /\ effects \in Atomic!Parts(Atomic!RowsOf(file_no))
      /\ ~Autocommit => pending \o effects \in Atomic!Parts(Atomic!RowsOf(file_no))
      /\ IsSeq(View \o effects) /\ IsPrefix(View, View \o effects)
      /\ IsPrefix(View \o effects, Atomic!Everything)
  BY <1>3, BatchSent
<1>5. /\ Outcome = "running" /\ at \notin Ended
      /\ IF Autocommit THEN View = committed /\ pending = <<>> ELSE TRUE
  BY RowsStanding
<1>6. unwinding' = TRUE /\ script' = 0 /\ unwinding' \in BOOLEAN
  BY <1>1 DEF Unwind
<1>7. CASE args.after = <<>>
  <2>1. /\ at' = "failed" /\ at' \in Ended \ {"done"}
        /\ committed' = committed \/ (Autocommit /\ committed' = View \o effects)
    BY <1>1, <1>7 DEF Unwind, Ended
  <2>2. committed' = committed \/
          (Autocommit /\ IsSeq(committed') /\ IsPrefix(committed, committed')
           /\ IsPrefix(committed', Atomic!Everything))
    BY <1>4, <1>5, <2>1
  <2> QED BY <1>5, <1>6, <2>1, <2>2, Stops
<1>8. CASE args.after # <<>>
  <2>1. at' = "after" /\ pending' = pending \o effects /\ committed' = committed
        /\ tx' = IF args.db = "postgresql" THEN "aborted" ELSE tx
    BY <1>1, <1>8 DEF Unwind, Refuse
  <2>2. tx' = "none" => Autocommit
    <3>1. tx = "none" <=> Autocommit
      BY BufferFacts
    <3> QED BY <2>1, <3>1
  <2>3. Autocommit => pending' = effects /\ View' = View \o effects
    <3>1. Autocommit => pending' = effects
      BY <1>4, <1>5, <2>1, ConcatEmpty
    <3>2. View' = committed' \o pending'
      BY DEF View
    <3> QED BY <1>5, <2>1, <3>1, <3>2
  <2>4. pending' \in Atomic!Parts(Atomic!RowsOf(file_no))
    BY <1>4, <2>1, <2>3
  <2>5. Autocommit /\ pending' # <<>> => IsPrefix(View', Atomic!Everything)
    BY <1>4, <2>3
  <2> QED BY <1>5, <1>6, <2>1, <2>2, <2>4, <2>5, Tears
<1> QED BY <1>7, <1>8

\* Still among the rows, with so many of them sent.
LEMMA AmongRowsPlan ==
  ASSUME SqlInv, SqlInv', PlanInv, at = "rows", at' = "rows", UNCHANGED Command, UNCHANGED Position,
         unwinding' = unwinding,
         NEW sent, Sent' = sent,
         View' = Atomic!Whole(UnitsDone) \o SubSeq(Atomic!RowsOf(file_no), 1, sent),
         IF Autocommit THEN pending' = <<>> /\ IsPrefix(committed, committed')
         ELSE committed' = committed
  PROVE  PlanInv' /\ Refined
<1>1. /\ Outcome = "running" /\ unwinding = FALSE /\ at \in WithFile
      /\ (~Autocommit => committed = Atomic!Whole(UnitsDone))
      /\ UnitsDone = Units * (file_no - 1) + 2
  BY RowsStanding
<1>2. file_no' = file_no
  BY DEF Position
<1>3. PartDone' = SubSeq(Atomic!RowsOf(file_no), 1, sent) /\ UnitsDone' = UnitsDone
  <2>1. \A n : Atomic!RowsOf(n)' = Atomic!RowsOf(n)
    BY SamePlan
  <2>2. PartDone' = SubSeq(Atomic!RowsOf(file_no)', 1, sent)
    BY ProgressNext
  <2>3. UnitsDone' = UnitsDone
    BY <1>1, <1>2, ProgressNext, SamePlan
  <2> QED BY <1>2, <2>1, <2>2, <2>3
<1>4. View' = Atomic!Whole(UnitsDone') \o PartDone'
  BY <1>3
<1>5. IF Autocommit THEN pending' = <<>> ELSE committed' = Atomic!Whole(UnitsDone')
  BY <1>1, <1>3
<1>6. UnitsOK'
  BY <1>4, <1>5, UnitsThen
<1>7. FilesOK'
  BY <1>1, SameTurn
<1>8. at' \notin Ended \cup {"thrown"} /\ ~unwinding'
  BY <1>1 DEF Ended
<1> QED BY <1>1, <1>6, <1>7, <1>8, RunStep

LEMMA ReadRowPlan ==
  ASSUME SqlInv, SqlInv', PlanInv, ReadRow
  PROVE  PlanInv' /\ Refined
<1>1. /\ at = "rows" /\ at \in WithFile /\ row < Len(keys[file]) /\ row' = row + 1
      /\ UNCHANGED Command /\ UNCHANGED Position
      /\ Slots \in Nat \ {0} /\ offset \in Nat /\ row \in Nat /\ Len(keys[file]) \in Nat
      /\ Sent \in Nat /\ Sent + offset = row /\ offset + 1 \in 1..Slots
      /\ row' \in Nat /\ row' <= Len(keys[file])
      /\ IsSeq(holder') /\ Len(holder') = Slots
      /\ \A i \in 1..(offset + 1) :
           holder'[i] = BoundRow(file, table.types, BodyRows(file)[Sent + i])
  BY RowRead
<1>2. /\ View = Atomic!Whole(UnitsDone) \o SubSeq(Atomic!RowsOf(file_no), 1, Sent)
      /\ Autocommit => View = committed /\ pending = <<>>
      /\ IsSeq(committed)
  BY <1>1, RowsStanding, Types
<1>3. CASE ~Full(offset + 1)
  <2>1. /\ offset' = offset + 1
        /\ UNCHANGED <<at, script, unwinding, tx, pending, committed>>
    BY <1>3 DEF ReadRow, Session
  <2>2. Sent' = Sent
    <3>1. Sent' = row' - offset'
      BY DEF Sent
    <3>2. row' - offset' = Sent
      BY <1>1, <2>1
    <3> QED BY <3>1, <3>2
  <2>3. View' = View
    BY <2>1 DEF View
  <2>4. IsPrefix(committed, committed)
    BY <1>2, PrefixOfItself
  <2> PICK sent : sent = Sent
    OBVIOUS
  <2>5. View' = Atomic!Whole(UnitsDone) \o SubSeq(Atomic!RowsOf(file_no), 1, sent)
    BY <1>2, <2>3
  <2>6. IF Autocommit THEN pending' = <<>> /\ IsPrefix(committed, committed')
        ELSE committed' = committed
    BY <1>2, <2>1, <2>4
  <2> QED BY <1>1, <2>1, <2>2, <2>5, <2>6, AmongRowsPlan
<1>4. CASE Full(offset + 1)
  <2> DEFINE batch == Batch(holder', Slots)
  <2>1. /\ IsSeq(batch) /\ Len(batch) = Slots
        /\ \A i \in 1..Slots : batch[i] = holder'[i]
    <3>1. Slots \in 0..Len(holder')
      BY <1>1
    <3> QED BY <1>1, <3>1, IsSeqPrefix DEF Batch
  <2>2. /\ offset' = 0 /\ Execute(batch)
        /\ Refused(batch) = {} => UNCHANGED at
    BY <1>4 DEF ReadRow
  <2> HIDE DEF batch
  <2>3. Slots = offset + 1 /\ Sent + Slots = row' /\ row' - 0 = Sent + Slots
    BY <1>1, <1>4 DEF Full
  <2>4. ToSend(batch)
    <3>1. Sent + Len(batch) <= Len(keys[file])
      BY <1>1, <2>1, <2>3
    <3>2. \A i \in 1..Len(batch) : batch[i] = BoundRow(file, table.types, BodyRows(file)[Sent + i])
      BY <1>1, <2>1, <2>3
    <3> QED BY <2>1, <3>1, <3>2 DEF ToSend
  <2>5. CASE Refused(batch) # {}
    BY <1>1, <2>2, <2>4, <2>5, RefusedPlan
  <2>6. CASE Refused(batch) = {}
    <3>1. Write(Effects(batch)) /\ unwinding' = unwinding /\ at' = "rows"
      BY <1>1, <2>2, <2>6 DEF Execute
    <3>2. /\ IsSeq(Effects(batch))
          /\ View \o Effects(batch) =
               Atomic!Whole(UnitsDone) \o SubSeq(Atomic!RowsOf(file_no), 1, Sent + Len(batch))
          /\ IsPrefix(View, View \o Effects(batch)) /\ IsSeq(View \o Effects(batch))
      BY <1>1, <2>4, BatchSent
    <3>3. /\ Autocommit => pending' = <<>> /\ committed' = View \o Effects(batch)
          /\ ~Autocommit => pending' = pending \o Effects(batch) /\ committed' = committed
      BY <3>1, <3>2, WriteTypes
    <3>4. View' = View \o Effects(batch)
      <4>1. CASE Autocommit
        <5>1. View' = (View \o Effects(batch)) \o <<>>
          BY <3>3, <4>1 DEF View
        <5> QED BY <3>2, <5>1, ConcatEmpty
      <4>2. CASE ~Autocommit
        <5>1. View' = committed \o (pending \o Effects(batch))
          BY <3>3, <4>2 DEF View
        <5>2. (committed \o pending) \o Effects(batch) = committed \o (pending \o Effects(batch))
          <6>1. \A x, y, z : IsSeq(x) /\ IsSeq(y) /\ IsSeq(z) => (x \o y) \o z = x \o (y \o z)
            BY ConcatMore
          <6>2. IsSeq(committed) /\ IsSeq(pending) /\ IsSeq(Effects(batch))
            BY <3>2, Types
          <6> QED BY <6>1, <6>2
        <5> QED BY <5>1, <5>2 DEF View
      <4> QED BY <4>1, <4>2
    <3> PICK sent : sent = Sent + Len(batch)
      OBVIOUS
    <3>5. Sent' = sent
      <4>1. Sent' = row' - offset'
        BY DEF Sent
      <4> QED BY <2>1, <2>2, <2>3, <4>1
    <3>6. View' = Atomic!Whole(UnitsDone) \o SubSeq(Atomic!RowsOf(file_no), 1, sent)
      BY <3>2, <3>4
    <3>7. IF Autocommit THEN pending' = <<>> /\ IsPrefix(committed, committed')
          ELSE committed' = committed
      BY <1>2, <3>2, <3>3
    <3> QED BY <1>1, <3>1, <3>5, <3>6, <3>7, AmongRowsPlan
  <2> QED BY <2>5, <2>6
<1> QED BY <1>3, <1>4

LEMMA EndRowsPlan ==
  ASSUME SqlInv, SqlInv', PlanInv, EndRows
  PROVE  PlanInv' /\ Refined
<1>1. /\ at = "rows" /\ at \in WithFile /\ row = Len(keys[file])
      /\ offset' = 0 /\ UNCHANGED <<row, holder>> /\ UNCHANGED Command /\ args' = args
  BY DEF EndRows, WithFile, Command
<1>2. /\ Outcome = "running" /\ unwinding = FALSE /\ Chosen /\ file_no \in 1..Tables
      /\ IsSeq(Atomic!RowsOf(file_no)) /\ Len(Atomic!RowsOf(file_no)) = Len(keys[file])
      /\ (Autocommit => View = committed)
      /\ UnitsDone < PlanLength /\ UnitsDone + 1 = Units * (file_no - 1) + 3 /\ Units = 4 /\ Inserting
      /\ Atomic!Whole(UnitsDone + 1) = Atomic!Whole(UnitsDone) \o Atomic!RowsOf(file_no)
  BY <1>1, RowsStanding
<1> DEFINE batch == Batch(holder, offset)
<1>3. /\ IsSeq(batch) /\ Len(batch) = offset /\ \A i \in 1..offset : batch[i] = holder[i]
  <2>1. IsSeq(holder) /\ offset \in 0..Len(holder)
    BY <1>1, WithFileFacts, BufferFacts, Types
  <2> QED BY <2>1, IsSeqPrefix DEF Batch
<1>4. Sent + offset = Len(keys[file]) /\ Sent \in Nat /\ offset \in Nat /\ Len(keys[file]) \in Nat
      /\ \A i \in 1..offset : holder[i] = BoundRow(file, table.types, BodyRows(file)[Sent + i])
  BY <1>1, BufferFacts, Types, WithFileFacts
<1> HIDE DEF batch
<1>5. ToSend(batch)
  BY <1>3, <1>4 DEF ToSend
<1>6. CASE offset > 0 /\ Refused(batch) # {}
  <2>1. Execute(batch) /\ UNCHANGED Position
    BY <1>6 DEF EndRows, batch
  <2> QED BY <1>1, <1>5, <1>6, <2>1, RefusedPlan
<1>7. CASE ~(offset > 0 /\ Refused(batch) # {})
  <2>1. /\ tx' = "none" /\ pending' = <<>>
        /\ committed' = View \o (IF offset > 0 THEN Effects(batch) ELSE <<>>)
        /\ script' = 0 /\ unwinding' = unwinding /\ file_no' = file_no /\ table' = table
        /\ IF args.after = <<>> THEN NextFile ELSE at' = "after" /\ file' = file
    BY <1>7 DEF EndRows, batch
  <2>2. committed' = View \o Effects(batch)
    <3>1. CASE offset > 0
      BY <2>1, <3>1
    <3>2. CASE ~(offset > 0)
      <4>1. Len(batch) = 0 /\ Sent + Len(batch) < Sent + 1
        BY <1>3, <1>4, <3>2
      <4>2. Effects(batch) = SubSeq(Atomic!RowsOf(file_no), Sent + 1, Sent + Len(batch))
        BY <1>1, <1>5, BatchRows
      <4>3. \A m, n \in Int : n < m => SubSeq(Atomic!RowsOf(file_no), m, n) = <<>>
        BY SubSeqEmpty
      <4>4. Sent + 1 \in Int /\ Sent + Len(batch) \in Int
        BY <1>3, <1>4
      <4>5. SubSeq(Atomic!RowsOf(file_no), Sent + 1, Sent + Len(batch)) = <<>>
        BY <4>1, <4>3, <4>4
      <4> QED BY <2>1, <3>2, <4>2, <4>5
    <3> QED BY <3>1, <3>2
  <2>3. committed' = Atomic!Whole(UnitsDone + 1) /\ IsPrefix(View, committed')
    <3>1. /\ View \o Effects(batch) =
               Atomic!Whole(UnitsDone) \o SubSeq(Atomic!RowsOf(file_no), 1, Sent + Len(batch))
          /\ IsPrefix(View, View \o Effects(batch))
      BY <1>1, <1>5, BatchSent
    <3>2. Sent + Len(batch) = Len(Atomic!RowsOf(file_no))
      BY <1>2, <1>3, <1>4
    <3>3. SubSeq(Atomic!RowsOf(file_no), 1, Len(Atomic!RowsOf(file_no))) = Atomic!RowsOf(file_no)
      BY <1>2, WholeIsSubSeq
    <3> QED BY <1>2, <2>2, <3>1, <3>2, <3>3
  <2>4. CASE args.after = <<>>
    <3>1. NextFile /\ at' = "compose"
      BY <2>1, <2>4 DEF NextFile
    <3>2. FilesOK'
      BY <1>1, <2>1, <3>1, NextTurn
    <3>3. Atomic!After = <<>>
      <4>1. IsSeq(args.after) /\ 0 \in {-1, 0} /\ Len(args.after) = 0
        BY <2>4, IsSeqEmpty
      <4>2. Atomic!Statements(SubSeq(args.after, 1, 0)) = <<>>
        BY <4>1, NoStatements
      <4>3. SubSeq(args.after, 1, Len(args.after)) = args.after
        BY <4>1, WholeIsSubSeq
      <4> QED BY <4>1, <4>2, <4>3 DEF Atomic!After
    <3>4. /\ Atomic!Whole(Units * file_no) = Atomic!Whole(UnitsDone + 1)
      <4>1. UnitOf(file_no, 4) = <<>>
        BY <3>3 DEF UnitOf
      <4>2. 4 \in 1..Units /\ 4 - 1 = 3
        BY <1>2
      <4>3. /\ Atomic!Whole(Units * (file_no - 1) + 4) =
                 Atomic!Whole(Units * (file_no - 1) + (4 - 1)) \o UnitOf(file_no, 4)
            /\ IsSeq(Atomic!Whole(Units * (file_no - 1) + (4 - 1)))
            /\ Units * file_no = Units * (file_no - 1) + Units
        BY <1>2, <4>2, TableUnits
      <4> QED BY <1>2, <4>1, <4>2, <4>3, ConcatEmpty
    <3>5. UnitsDone' = Units * file_no
      BY <1>1, <2>1, <3>1, ProgressNext, SamePlan
    <3>6. committed' = Atomic!Whole(UnitsDone')
      BY <2>3, <3>4, <3>5
    <3> QED BY <1>1, <1>2, <2>1, <2>3, <3>1, <3>2, <3>6, WholeStep
  <2>5. CASE args.after # <<>>
    <3>1. at' = "after" /\ UNCHANGED Position
      BY <2>1, <2>5 DEF Position
    <3>2. IsSeq(args.after) /\ Len(args.after) \in Nat
      BY <1>2, ChosenFacts, SeqIsSeq, IsSeqFacts
    <3>3. FilesOK'
      <4>1. script' \in 0..(Len(args.after) + 1)
        BY <2>1, <3>2
      <4> QED BY <1>1, <3>1, <4>1, SameTurn
    <3>4. UnitsDone' = UnitsDone + 1
      BY <1>1, <1>2, <2>1, <3>1, ProgressNext, SamePlan
    <3>5. PartDone' = <<>>
      <4>1. PartDone' = Atomic!Statements(SubSeq(args.after, 1, 0 - 1)) /\ 0 - 1 = -1
        BY <1>1, <2>1, <3>1, ProgressNext
      <4> QED BY <3>2, <4>1, NoStatements
    <3>6. View' = committed' \o <<>>
      BY <2>1 DEF View
    <3>7. UnitsOK'
      BY <1>1, <2>1, <2>3, <3>4, <3>5, <3>6, UnitsThen
    <3>8. at' \notin Ended \cup {"thrown"} /\ ~unwinding'
      BY <1>2, <2>1, <3>1 DEF Ended
    <3>9. Autocommit => IsPrefix(committed, committed')
      BY <1>2, <2>3
    <3> QED BY <1>1, <1>2, <2>3, <3>3, <3>7, <3>8, <3>9, RunStep
  <2> QED BY <2>4, <2>5
<1> QED BY <1>6, <1>7

-------------------------------------------------------------------------------

LEMMA PlanInit ==
  ASSUME Init
  PROVE  PlanInv /\ Atomic!Init
<1>1. /\ at = "check" /\ file = 1 /\ file_no = 0 /\ script = 0
      /\ pending = <<>> /\ committed = <<>> /\ unwinding = FALSE
  BY DEF Init
<1>2. Chosen
  BY SqlInvInit DEF SqlInv
<1>3. FilesOK
  <2>1. Len(Atomic!LoadedUpto(0)) = 0
    <3>1. 0 \in 0..N
      BY Constants
    <3>2. Atomic!LoadedUpto(0) = <<>>
      BY <3>1, LoadedFacts
    <3> QED BY <3>2, IsSeqEmpty
  <2>2. file - 1 = 0
    BY <1>1
  <2>3. at \notin WithFile /\ ~InScript
    BY <1>1 DEF WithFile, InScript
  <2> QED BY <1>1, <2>1, <2>2, <2>3 DEF FilesOK
<1>4. UnitsOK
  <2>1. Units * 0 = 0 /\ 0 \in 0..PlanLength
    BY <1>2, PlanFacts
  <2>2. Atomic!Whole(0) = <<>>
    BY <1>2, <2>1, WholeFacts
  <2>3. UnitsDone = 0 /\ PartDone = <<>>
    BY <1>1, <2>1, Progress
  <2>4. <<>> \o <<>> = <<>>
    BY IsSeqEmpty, ConcatEmpty
  <2> QED BY <1>1, <2>2, <2>3, <2>4 DEF UnitsOK, View
<1>5. TornOK
  BY <1>1 DEF TornOK
<1>6. Outcome = "running"
  BY <1>1, Outcomes DEF Ended
<1> QED BY <1>1, <1>3, <1>4, <1>5, <1>6 DEF PlanInv, Atomic!Init

LEMMA PlanStays ==
  ASSUME SqlInv, PlanInv, UNCHANGED vars
  PROVE  PlanInv' /\ Refined
<1>1. /\ UNCHANGED <<args, keys, at, file, file_no, table, row, holder, offset, script,
                     tx, pending, committed, unwinding>>
      /\ UNCHANGED Command
  BY DEF vars, Command
<1>2. /\ \A n : Atomic!LoadedUpto(n)' = Atomic!LoadedUpto(n)
      /\ Atomic!Loaded' = Atomic!Loaded
      /\ \A n : TableName(n)' = TableName(n) /\ Atomic!RowsOf(n)' = Atomic!RowsOf(n)
      /\ \A k : Atomic!Whole(k)' = Atomic!Whole(k)
      /\ Atomic!Everything' = Atomic!Everything
      /\ Units' = Units /\ (Inserting' <=> Inserting) /\ (ValidArgs' <=> ValidArgs)
      /\ \A f : HasBody(f)' <=> HasBody(f)
      /\ (Autocommit' <=> Autocommit)
  BY <1>1, SamePlan, SameCommand
<1>3. Outcome' = Outcome
  BY <1>1 DEF Outcome
<1>4. Refined
  BY <1>1, <1>3 DEF Refined
<1>5. FilesOK'
  <2>1. FilesOK
    BY DEF PlanInv
  <2>2. (InScript' <=> InScript) /\ Script' = Script /\ \A s : AskAgain(s)' <=> AskAgain(s)
    BY <1>1, <1>2 DEF InScript, Script, AskAgain
  <2> QED BY <1>1, <1>2, <2>1, <2>2 DEF FilesOK
<1>6. View' = View
  BY <1>1 DEF View
<1>7. UnitsOK'
  <2>1. CASE Outcome = "running"
    <3>1. UnitsDone' = UnitsDone
      BY <1>1, <1>2 DEF UnitsDone
    <3>2. PartDone' = PartDone
      <4>1. (InScript' <=> InScript) /\ Script' = Script /\ Sent' = Sent
        BY <1>1, <1>2 DEF InScript, Script, Sent
      <4>2. Atomic!Statements(SubSeq(Script, 1, script - 1))'
              = Atomic!Statements(SubSeq(Script, 1, script - 1))
        BY <1>1, <4>1
      <4>3. SubSeq(Atomic!RowsOf(file_no), 1, Sent)' = SubSeq(Atomic!RowsOf(file_no), 1, Sent)
        BY <1>1, <1>2, <4>1
      <4> QED BY <1>1, <4>1, <4>2, <4>3 DEF PartDone
    <3>3. UnitsOK
      BY DEF PlanInv
    <3> QED BY <1>1, <1>2, <1>3, <1>6, <2>1, <3>1, <3>2, <3>3 DEF UnitsOK
  <2>2. CASE Outcome # "running"
    BY <1>3, <2>2 DEF UnitsOK
  <2> QED BY <2>1, <2>2
<1>8. TornOK'
  <2>1. TornOK
    BY DEF PlanInv
  <2>2. Atomic!Parts(Atomic!RowsOf(file_no))' = Atomic!Parts(Atomic!RowsOf(file_no))
    BY <1>1, <1>2
  <2>3. Atomic!Statements(SubSeq(args.after, 1, script - 1))'
           = Atomic!Statements(SubSeq(args.after, 1, script - 1))
    BY <1>1
  <2> QED BY <1>1, <1>2, <1>6, <2>1, <2>2, <2>3 DEF TornOK
<1> QED BY <1>4, <1>5, <1>7, <1>8 DEF PlanInv

LEMMA PlanStep == SqlInv /\ PlanInv /\ [Next]_vars => SqlInv' /\ PlanInv' /\ Refined
<1> SUFFICES ASSUME SqlInv, PlanInv, [Next]_vars PROVE SqlInv' /\ PlanInv' /\ Refined
  OBVIOUS
<1>1. SqlInv'
  BY SqlInvStep
<1>2. CASE Step
  <2>1. CASE ComposeFails \/ CreateFails \/ Rethrow \/ QueryFails
    BY <1>1, <2>1, FailPlan
  <2>2. CASE Check \/ ComposeNoBody \/ Compose \/ ComposedAll \/ Create
    BY <1>1, <2>2, CheckPlan, ComposeNoBodyPlan, ComposePlan, ComposedAllPlan, CreatePlan
  <2>3. CASE BeginScript \/ ScriptStep \/ EndBefore \/ EndAfter
    BY <1>1, <2>3, BeginScriptPlan, ScriptStepPlan, EndBeforePlan, EndAfterPlan
  <2>4. CASE Insert \/ InsertFails \/ ReadRow \/ ReadFails \/ EndRows
    BY <1>1, <2>4, InsertPlan, InsertFailsPlan, ReadRowPlan, ReadFailsPlan, EndRowsPlan
  <2>5. CASE Query \/ QueryHeader \/ NoQuery
    BY <1>1, <2>5, QueryPlan, QueryHeaderPlan, NoQueryPlan
  <2> QED BY <1>2, <2>1, <2>2, <2>3, <2>4, <2>5 DEF Step
<1>3. CASE Crash
  BY <1>1, <1>3, FailPlan
<1>4. CASE UNCHANGED vars
  BY <1>1, <1>4, PlanStays
<1> QED BY <1>2, <1>3, <1>4 DEF Next, Finished

LEMMA PlanInvHolds == Spec => [](SqlInv /\ PlanInv)
<1>1. Init => SqlInv /\ PlanInv
  BY SqlInvInit, PlanInit
<1>2. SqlInv /\ PlanInv /\ [Next]_vars => SqlInv' /\ PlanInv'
  BY PlanStep
<1> QED BY <1>1, <1>2, PTL DEF Spec

\* What is committed is always a number of whole units from the front of the command
\* line, but for what AtomicLoad allows an autocommitting connection and a failed
\* insertion, and all of them when the command is done (csvSql.cpp:479-495, 657-660).
THEOREM LoadIsAtomic == Spec => Refines
<1>1. Init => SqlInv /\ PlanInv /\ Atomic!Init
  BY SqlInvInit, PlanInit
<1>2. SqlInv /\ PlanInv /\ [Next]_vars => [Atomic!Next]_<<committed, Outcome>>
  BY PlanStep DEF Refined
<1>3. SqlInv /\ PlanInv /\ [Next]_vars => SqlInv' /\ PlanInv'
  BY PlanStep
<1> QED BY <1>1, <1>2, <1>3, PTL DEF Spec, Refines, Atomic!Spec

===============================================================================
