--------------------------------- MODULE MCSql ---------------------------------
(***************************************************************************)
(* Instances of csvSql for TLC: two files, each backend with the options   *)
(* that matter to it, and every content of the key columns up to a bound.  *)
(***************************************************************************)
EXTENDS SqlProperties, TLC

MCNames == << << <<"k">>, <<"a">> >>, << <<"k">> >> >>
MCStems == <<"one", "two">>
MCNulls == {"", "NA", "-"}
MCNullValues == {"-"}
MCNumberOf == [v \in {"7", "7.0", "5"} |-> IF v = "5" THEN 5 ELSE 7]
MCWords == {"x", "heading"}

\* The default command line, and those that differ from it in some options.
Default ==
  [columns |-> <<1, 1>>, blanks |-> FALSE, no_inference |-> FALSE,
   db |-> "sqlite", insert |-> TRUE, create |-> "create", constraints |-> TRUE,
   unique |-> <<>>, chunk |-> 0, tables |-> <<>>, exists |-> {},
   before |-> <<>>, after |-> <<>>, query |-> <<>>]
With(options) == options @@ Default
Every(records) == {With(r) : r \in records}

Contents(values, lo, hi) == UNION {[1..n -> values] : n \in lo..hi}
Keys(values, first, second) ==
  {<<a, b>> : a \in Contents(values, first[1], first[2]),
              b \in Contents(values, second[1], second[2])}
For(cmds, contents) == [a \in cmds |-> contents]

Servers == {"sqlite", "postgresql", "mysql", "oracle"}

\* Insertions that succeed or fail at any row, by a constraint or by a value that
\* cannot be converted, one by one or by chunks of two, with statements after.
Insertions ==
  Every([db : Servers, chunk : {1, 2}, unique : {<<"k">>},
         after : {<<>>, <<"write">>, <<"read", "bad">>}])
Blanks == Every([db : {"sqlite", "mysql"}, blanks : {TRUE}, chunk : {2},
                 constraints : BOOLEAN, after : {<<>>, <<"write">>}])

\* Tables that are there, or are not; names given, the same for both files; an
\* insertion into a table the first file made.
Tables ==
  Every([db : Servers, create : {"create", "if_not_exists", "no_create"},
         exists : {{}, {"one"}}, tables : {<<>>, <<"t", "t">>, <<"two">>},
         after : {<<>>, <<"write">>}])

\* Statements before, queries, and the command lines that are refused.
Scripts ==
  Every([db : {"memory", "sqlite", "oracle"}, insert : BOOLEAN, chunk : {0, 3},
         before : {<<>>, <<"write", "write">>, <<"write", "bad">>},
         query : {<<>>, <<"write">>, <<"write", "read">>, <<"bad", "empty">>, <<"empty">>}])
Printed == Every([db : {"none", "mysql"}, insert : {FALSE}, constraints : BOOLEAN])

LoadInputs ==
  For(Insertions, Keys({"7", "7.0", "-"}, <<0, 3>>, <<0, 1>>))
    @@ For(Blanks, Keys({"NA", "x"}, <<1, 3>>, <<0, 0>>))
    @@ For(Tables, Keys({"x", "NA"}, <<0, 1>>, <<0, 1>>))
    @@ For(Scripts, Keys({"x"}, <<0, 2>>, <<0, 1>>))
    @@ For(Printed, Keys({"x", "7"}, <<0, 1>>, <<0, 1>>))

\* What the findings need.
NamesInputs == For(Every([chunk : {0, 2}]), Keys({"7", "x"}, <<0, 3>>, <<0, 3>>))
QueryInputs ==
  For(Every([db : {"memory"}, insert : {FALSE}, query : {<<"write", "read">>, <<"write">>}]),
      Keys({"7", "x"}, <<1, 3>>, <<0, 2>>))
BlanksInputs ==
  For(Every([blanks : {TRUE}, chunk : {3}]), Keys({"NA", "x"}, <<0, 3>>, <<0, 2>>))
===============================================================================
