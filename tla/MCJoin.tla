-------------------------------- MODULE MCJoin --------------------------------
(***************************************************************************)
(* Instances of csvJoin for TLC: three small files, every command line of  *)
(* a kind, and every content of their key columns up to a bound.           *)
(***************************************************************************)
EXTENDS JoinProperties, TLC

MCNames == << << <<"k">>, <<"a">> >>, << <<"a">>, <<"k">> >>, << <<"a", "2">>, <<"k">> >> >>
MCNulls == {"", "NA"}
MCNumberOf == [v \in {"7", "7.0", "5"} |-> IF v = "5" THEN 5 ELSE 7]
MCWords == {"x", "heading"}
MCKeyColumns == <<1, 2, 2>>

Args(kinds, blanks, inference, honest) ==
  [kind : kinds, columns : {MCKeyColumns}, blanks : blanks,
   no_inference : inference, honest : honest]

\* The contents of a key column: lo to hi rows.  7 and 7.0 are one number and two
\* texts.
Contents(values, lo, hi) == UNION {[1..n -> values] : n \in lo..hi}
Keys(lo, hi) ==
  {<<a, b, c>> : a \in Contents({"NA", "7", "x"}, lo[1], hi[1]),
                 b \in Contents({"NA", "7.0", "x"}, lo[2], hi[2]),
                 c \in Contents({"NA", "7"}, lo[3], hi[3])}
With(cmds, contents) == [a \in cmds |-> contents]

UnionArgs(blanks) == [kind : {"inner"}, columns : {<<>>}, blanks : blanks,
                      no_inference : {FALSE}, honest : {FALSE}]

\* Inner, left, right and union joins.  The first table of a left join (the last
\* of a right join) has rows, and --blanks, which does not go with padding, is
\* left to inner joins.
OneSidedInputs ==
  LET two == <<2, 2, 1>> IN
  With(Args({"inner"}, BOOLEAN, BOOLEAN, {FALSE}), Keys(<<0, 0, 1>>, two))
    @@ With(Args({"left"}, {FALSE}, BOOLEAN, {FALSE}), Keys(<<1, 0, 0>>, two))
    @@ With(Args({"right"}, {FALSE}, BOOLEAN, {FALSE}), Keys(<<0, 0, 1>>, two))
    @@ With(UnionArgs({FALSE}), Keys(<<1, 0, 0>>, two))

\* Outer joins of files with rows; a honest one without --blanks.
OuterInputs ==
  With(Args({"outer"}, BOOLEAN, BOOLEAN, {FALSE}) \cup Args({"outer"}, {FALSE}, BOOLEAN, {TRUE}),
       Keys(<<1, 1, 1>>, <<2, 2, 1>>))

RefinesInputs == OneSidedInputs @@ OuterInputs

\* Everything: any file may have nothing under its header, any option may be
\* given, and a key column may not exist.
NoSuchColumn == {[a EXCEPT !.columns = <<1, 3, 2>>] : a \in Args({"left"}, {FALSE}, {FALSE}, {FALSE})}
ShapeInputs ==
  With(Args({"inner", "left", "right", "outer"}, BOOLEAN, BOOLEAN, {FALSE})
         \cup Args({"outer"}, BOOLEAN, {FALSE}, {TRUE})
         \cup NoSuchColumn \cup UnionArgs(BOOLEAN),
       Keys(<<0, 0, 0>>, <<2, 1, 1>>))

\* What the findings need.
HeaderOnlyInputs ==
  With(Args({"left"}, {FALSE}, {FALSE}, {FALSE}), Keys(<<0, 1, 1>>, <<1, 1, 1>>))
SequenceInputs ==
  With(Args({"left"}, {FALSE}, {FALSE}, {FALSE}), Keys(<<1, 1, 1>>, <<2, 1, 1>>))
BlanksInputs ==
  With(Args({"left"}, {TRUE}, {FALSE}, {FALSE}), Keys(<<1, 1, 1>>, <<1, 1, 1>>))
===============================================================================
