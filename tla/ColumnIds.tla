------------------------------- MODULE ColumnIds -------------------------------
(***************************************************************************)
(* The columns a user names with -c and -C, as parse_column_identifiers    *)
(* finds them.  A list of identifiers is a sequence of records: text is    *)
(* the identifier as it is written, kind what it can be besides the name   *)
(* of a column, lo and hi its number or the ends of its range; an end that *)
(* is left out is Open.                                                    *)
(***************************************************************************)
EXTENDS Integers, Sequences, SequencesExt

Open == -1
AreIds(ids) ==
  ids \in Seq([text : STRING, kind : {"word", "number", "range"}, lo : Int, hi : Int])

\* --zero: columns are numbered from 0, otherwise from 1.
Offset(zero) == IF zero THEN 0 ELSE 1

\* Columns are counted from 1 here.  0 stands for a ColumnIdentifierError.
NoColumn == 0

\* match_column_identifier: digits are always an index, even where a column has
\* them for a name; any other text is the first column of that name.
AtIndex(n, names, zero) ==
  IF n - Offset(zero) \in 0..(Len(names) - 1) THEN n - Offset(zero) + 1 ELSE NoColumn
FirstNamed(text, names) ==
  LET cs == {c \in DOMAIN names : names[c] = text}
  IN  IF cs = {} THEN NoColumn ELSE CHOOSE c \in cs : \A d \in cs : c <= d
MatchIdentifier(id, names, zero) ==
  IF id.kind = "number" THEN AtIndex(id.lo, names, zero) ELSE FirstNamed(id.text, names)

\* column_identifier_error_handler: what is no column may be a range, whose
\* columns must all exist; a range that ends before it begins has none.
RangeOf(id, names, zero) ==
  LET lo == IF id.lo = Open THEN Offset(zero) ELSE id.lo
      hi == IF id.hi = Open THEN Len(names) - 1 + Offset(zero) ELSE id.hi
  IN  [k \in 1..(IF hi < lo THEN 0 ELSE hi - lo + 1) |-> AtIndex(lo + k - 1, names, zero)]
ColumnsOf(id, names, zero) ==
  LET c == MatchIdentifier(id, names, zero)
  IN  IF c = NoColumn /\ id.kind = "range" THEN RangeOf(id, names, zero) ELSE <<c>>

\* Mutant: numbered from 1 under --zero too.
ExcludedOneBased(excl, names, zero) == {MatchIdentifier(excl[k], names, FALSE) : k \in DOMAIN excl}
\* The excluded columns are only looked up: an exception there, and so every
\* range, is passed over.
Excluded(excl, names, zero) == {MatchIdentifier(excl[k], names, zero) : k \in DOMAIN excl}

Without(columns, excluded) ==
  FlattenSeq([k \in DOMAIN columns |-> IF columns[k] \in excluded THEN <<>> ELSE <<columns[k]>>])

\* One identifier that is not understood and there are no columns.
ParseColumnIdentifiers(ids, excl, names, zero) ==
  LET wanted == IF ids = <<>> THEN [c \in DOMAIN names |-> c]
                ELSE FlattenSeq([k \in DOMAIN ids |-> ColumnsOf(ids[k], names, zero)])
  IN  IF NoColumn \in Range(wanted) THEN <<NoColumn>>
      ELSE Without(wanted, Excluded(excl, names, zero))
Understood(columns) == NoColumn \notin Range(columns)
===============================================================================
