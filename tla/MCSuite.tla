-------------------------------- MODULE MCSuite --------------------------------
(***************************************************************************)
(* Command lines and sources of the tools for TLC: for each tool every     *)
(* content up to a bound, under the options that matter to it.             *)
(***************************************************************************)
EXTENDS Suite, TLC

Sequences(values, lo, hi) == UNION {[1..n -> values] : n \in lo..hi}

\* The default command line of a tool, and those that differ from it in some options.
Common == [no_header |-> FALSE, linenumbers |-> FALSE, asap |-> TRUE]
Lines(default, records) == {r @@ default @@ Common : r \in records}

\* csvClean: up to four rows of one to three cells under a header of two; a source
\* with nothing under its header; a field too long anywhere.
CleanDefault == [tool |-> "clean", header |-> 2, long |-> {}, dry_run |-> FALSE]
CleanLines ==
  Lines(CleanDefault,
    [widths : Sequences({1, 2, 3}, 0, 4) \cup {<<0>>}, no_header : BOOLEAN,
     linenumbers : BOOLEAN, dry_run : BOOLEAN])
  \cup Lines(CleanDefault,
    [widths : Sequences({1, 2}, 3, 3), long : {{0}, {1}, {3}}, header : {0, 2},
     dry_run : BOOLEAN])

\* csvStack: up to three files of up to two rows.
Headers == {<<"a">>, <<"a", "b">>, <<"b", "a">>, <<"b", "c">>}
Files(headers, counts) == [names : headers, rows : counts, ragged : {FALSE}]
StackDefault ==
  [tool |-> "stack", groups |-> <<>>, filenames |-> FALSE, group_name |-> ""]
StackLines ==
  {[c EXCEPT !.arguments = Len(c.files)] : c \in
    Lines(StackDefault,
      [files : Sequences(Files(Headers, {0, 2}), 1, 3), arguments : {0},
       filenames : BOOLEAN, linenumbers : BOOLEAN])}
  \cup Lines(StackDefault,
    [files : Sequences(Files({<<"a">>, <<"group", "b">>, <<"b", "b">>}, {1}), 2, 2),
     arguments : {1, 2}, groups : {<<>>, <<"g", "h">>, <<"g">>},
     group_name : {"", "b"}, no_header : BOOLEAN, asap : {FALSE}])
  \cup Lines(StackDefault,
    [files : {<<>>, <<[names |-> <<"a">>, rows |-> 1, ragged |-> TRUE]>>}, arguments : {1}])

\* csvCut: up to three rows, the header included, of up to three columns, with blanks
\* anywhere, and identifiers of every kind.
Word(t) == [text |-> t, kind |-> "word", lo |-> Open, hi |-> Open]
Number(n) == [text |-> ToString(n), kind |-> "number", lo |-> n, hi |-> n]
To(lo, hi) == [text |-> "range", kind |-> "range", lo |-> lo, hi |-> hi]
Ids == {Word("b"), Word("z"), Number(1), Number(0), To(2, Open), To(Open, 1), To(3, 1)}
CutDefault ==
  [tool |-> "cut", data |-> 1, blank |-> {}, ids |-> <<>>, excl |-> <<>>,
   zero |-> FALSE, x |-> FALSE, show_names |-> FALSE, ragged |-> FALSE]
CutLines ==
  Lines(CutDefault,
    [names : {<<"b", "a", "b">>, <<"a", "1", "b">>, <<"b">>}, ids : Sequences(Ids, 0, 2),
     excl : Sequences(Ids, 0, 1), zero : BOOLEAN, linenumbers : BOOLEAN])
  \cup Lines(CutDefault,
    [names : {<<"a", "b">>}, data : {0, 2}, blank : SUBSET ((0..2) \X (1..2)),
     ids : {<<>>, <<Word("b")>>}, x : {TRUE}, no_header : BOOLEAN,
     linenumbers : BOOLEAN, asap : {FALSE}])
  \cup Lines(CutDefault,
    [names : {<<>>, <<"a">>}, show_names : BOOLEAN, ragged : BOOLEAN, no_header : BOOLEAN])

\* The same without the header's names in the way: a range of columns to leave out.
CutRangeLines ==
  [cut |-> Lines(CutDefault,
    [names : {<<"b", "a", "b">>}, ids : Sequences(Ids, 0, 1), excl : Sequences(Ids, 1, 2),
     zero : BOOLEAN, data : {2}])]

\* csvGrep: up to two rows of two columns, matched anywhere.
Places == (1..2) \X (1..2)
GrepDefault ==
  [tool |-> "grep", names |-> <<"a", "b">>, data |-> 2, zero |-> FALSE, any |-> FALSE,
   invert |-> FALSE, r_icase |-> FALSE, readable |-> TRUE, show_names |-> FALSE,
   ragged |-> FALSE, ids |-> <<Word("a"), Number(2)>>]
GrepLines ==
  Lines(GrepDefault,
    [patterns : [{"match"} -> SUBSET Places] \cup [{"file", "match"} -> {Places, {<<1, 2>>}}]
       \cup [{"regex", "match"} -> {Places, {<<2, 2>>}}],
     ids : {<<Word("a"), Number(2)>>, <<Word("a")>>}, any : BOOLEAN, invert : BOOLEAN,
     linenumbers : BOOLEAN, no_header : BOOLEAN, asap : BOOLEAN])
  \cup Lines(GrepDefault,
    [patterns : [{"file"} -> {{}}] \cup [{} -> {{}}], readable : BOOLEAN, asap : BOOLEAN,
     ids : {<<>>, <<Word("a")>>, <<Word("z")>>}, r_icase : BOOLEAN, show_names : BOOLEAN])
  \cup Lines(GrepDefault, [patterns : {<<>>}, names : {<<>>, <<"a">>}, ragged : BOOLEAN])

\* csvSort: three rows of every kind of text in one column, sorted alone; four rows in
\* parallel, in parts of one or two; five whose halves exchange some of their rows only;
\* two columns to sort by; command lines refused.
Column(texts, n) == [1..n -> texts]
SortDefault ==
  [tool |-> "sort", names |-> <<"a", "b">>, ids |-> <<Number(1)>>, zero |-> FALSE, r |-> FALSE,
   blanks |-> FALSE, no_inference |-> FALSE, parallel_sort |-> TRUE, threads |-> 2,
   leaf |-> 1, show_names |-> FALSE, ragged |-> FALSE]
SortAloneLines ==
  Lines(SortDefault,
    [cells : {<<k, <<"0:00:07", "", "0:00:07">>>> :
       k \in Column({"", "T", "10", "5"}, 3) \cup Column({"", "T", "0", "x"}, 3)
          \cup Column({"", "2024-01-01", "2024-01-02 03:04:05"}, 3)},
     r : BOOLEAN, no_inference : BOOLEAN, blanks : BOOLEAN, parallel_sort : {FALSE}])
  \cup Lines(SortDefault,
    [cells : {<< <<"x", "T", "5">>, <<"1", "1", "1">> >>, << <<"0">>, <<"0">> >>},
     ids : {<<>>, <<To(3, 1)>>, <<Word("b"), Number(1)>>}, asap : BOOLEAN,
     linenumbers : BOOLEAN])
SortParallelLines ==
  Lines(SortDefault,
    [cells : {<<k, <<"T", "0", "x", "">>>> : k \in Column({"", "1", "5"}, 4)}, r : BOOLEAN,
     leaf : {1, 2}])
  \cup Lines(SortDefault,
    [cells : {<<k, <<"T", "0", "x", "">>>> : k \in Column({"", "1", "5"}, 4)}, threads : {1},
     leaf : {4}])
  \cup Lines(SortDefault,
    [cells : {<< <<"1", "1", "5", "5">>, <<"T", "5", "5", "10">> >>},
     ids : {<<>>, <<Number(1)>>, <<Number(2)>>}, leaf : {2}])
  \cup Lines(SortDefault,
    [cells : {<< <<"1", "1", "5", "1", "1">>, <<"T", "0", "x", "", "T">> >>}, leaf : {4}])
SortRefusedLines ==
  Lines(SortDefault,
    [cells : {<<>>, << <<>>, <<>> >>}, names : {<<>>, <<"a", "b">>}, ids : {<<>>, <<Word("z")>>},
     show_names : BOOLEAN, ragged : BOOLEAN])
SortLines == SortAloneLines \cup SortParallelLines \cup SortRefusedLines

\* Two columns of numbers to sort by, if T is one.
SortNumbersLines ==
  [sort |-> Lines(SortDefault,
    [cells : {<<k, <<"T", "5", "10", "5">>>> : k \in Column({"1", "5"}, 4)}, ids : {<<>>}])]

\* csvJson: up to three rows of two columns, as an array, an object or a stream; as
\* features of up to three more columns; command lines refused.
JsonDefault ==
  [tool |-> "json", names |-> <<"a", "b">>, key |-> "", lat |-> "", lon |-> "", type |-> "",
   crs |-> "", geometry |-> FALSE, no_bbox |-> FALSE, stream |-> FALSE, indent |-> FALSE,
   blanks |-> FALSE, no_inference |-> FALSE, null_values |-> {}, ragged |-> FALSE,
   asap |-> FALSE]
Fives(n) == [r \in 1..n |-> "5"]
JsonLines ==
  Lines(JsonDefault,
    [cells : {<<k, Fives(Len(k))>> : k \in Sequences({"", "x", "5", "10"}, 1, 3)
                                          \cup Sequences({"", "x", "0", "1"}, 1, 2)},
     key : {"", "a"}, blanks : BOOLEAN, no_inference : BOOLEAN, null_values : {{}, {"x", "5"}}])
  \cup Lines(JsonDefault,
    [cells : { << <<"5", "10">>, <<"x", "">> >> }, key : {"", "a", "z"}, stream : BOOLEAN,
     indent : BOOLEAN, ragged : BOOLEAN, geometry : BOOLEAN])
  \cup Lines(JsonDefault,
    [names : {<<"a", "lat", "lon", "k">>},
     cells : {<< <<"", "x">>, k, l, <<"", "5">> >> :
       k \in {<<"5", "10">>, <<"10", "x">>, <<"5", "">>, <<"1", "0">>},
         l \in Column({"5", "10", "x"}, 2) \cup {<<"0", "1">>}},
     lat : {"lat"}, lon : {"lon"}, key : {"", "k"}, type : {"", "a"}, crs : {"", "crs"},
     no_bbox : BOOLEAN, stream : BOOLEAN, indent : BOOLEAN])
  \cup Lines(JsonDefault,
    [cells : {<< <<>>, <<>> >>, << <<"5">>, <<"10">> >>}, lat : {"", "a", "z"}, lon : {"", "b"},
     type : {"", "z"}, no_bbox : {TRUE}])

\* csvLook: up to three rows of two columns, narrow and wide, under every limit that
\* cuts them or does not; from a file and from standard input.  Values of the second
\* column, and its name, have two bytes more than symbols, as a number does that ends in
\* a sign for the digits left out.
WithBytes(lines) ==
  LET bytes(sizes) ==
        [c \in DOMAIN sizes |-> IF c = 2 /\ sizes[c] > 0 THEN sizes[c] + 2 ELSE sizes[c]]
  IN  {l @@ [name_bytes |-> bytes(l.names),
             bytes |-> [r \in DOMAIN l.sizes |-> bytes(l.sizes[r])]] : l \in lines}
LookDefault ==
  [tool |-> "look", names |-> <<0, 4>>, max_rows |-> 9, max_columns |-> 9,
   max_column_width |-> 9, stdin |-> FALSE]
LookLines ==
  WithBytes(
    Lines(LookDefault,
      [sizes : Sequences({<<0, 1>>, <<2, 5>>, <<0, 2>>}, 0, 3), names : {<<0, 4>>, <<1, 1>>},
       max_rows : {0, 1, 2, 9}, max_columns : {0, 1, 2, 9}, linenumbers : BOOLEAN,
       stdin : BOOLEAN])
    \cup Lines(LookDefault,
      [sizes : Sequences({<<1, 5>>, <<7, 2>>}, 1, 2), max_column_width : {2, 3, 4},
       names : {<<2, 6>>}, max_rows : {0, 1, 2}, linenumbers : BOOLEAN, asap : {FALSE}]))

\* In2csv: up to three objects of one or two of three keys, or none; command lines refused.
Objects ==
  {[keys |-> k, values |-> SubSeq(v, 1, Len(k))] :
     k \in {<<"a">>, <<"b">>, <<"a", "b">>, <<"c", "a">>}, v \in {<<"x", "">>, <<"1", "x">>}}
In2csvDefault ==
  [tool |-> "in2csv", file |-> "_", extension |-> "", terminal |-> FALSE, format |-> "ndjson",
   schema |-> "", key |-> "", non_flat |-> FALSE, sheet_names |-> FALSE, missing |-> {},
   no_inference |-> FALSE, objects |-> <<>>]
In2csvLines ==
  Lines(In2csvDefault, [objects : Sequences(Objects, 0, 3), no_inference : BOOLEAN])
  \cup Lines(In2csvDefault,
    [objects : {<<[keys |-> <<"a">>, values |-> <<"x">>]>>}, file : {"", "_", "f"},
     terminal : BOOLEAN, missing : {{}, {"f"}}])
  \cup Lines(In2csvDefault,
    [format : {""}, extension : {"ndjson", "geojson"}, file : {"", "_", "f"}, terminal : BOOLEAN])
  \cup Lines(In2csvDefault,
    [format : {"", "fixed", "dbf", "csw"}, schema : {"", "s"}, missing : {{"s"}}])
  \cup Lines(In2csvDefault, [format : {"", "ndjson", "json"}, key : {"k"}, sheet_names : {TRUE}])

\* csvStat: up to four texts in one column, of every type, with each option and each
\* operation; two columns selected in every way; command lines refused.
Numbered == Sequences({"", "5", "10"}, 1, 4)
OfOtherTypes ==
  Column({"", "1", "x", "T"}, 3) \cup Column({"", "0:00:03", "0:00:07"}, 3)
  \cup Column({"", "2024-01-01", "2024-01-02 03:04:05"}, 3)
StatDefault ==
  [tool |-> "stat", names |-> <<"a">>, ids |-> <<>>, zero |-> FALSE, operations |-> {},
   format |-> "text", limited |-> FALSE, long |-> {}, freq_count |-> 2, show_names |-> FALSE,
   blanks |-> FALSE, no_inference |-> FALSE, ragged |-> FALSE]
Operations == {"type", "nulls", "non_nulls", "unique", "min", "max", "sum", "median", "len", "freq"}
StatLines ==
  Lines(StatDefault,
    [cells : {<<k>> : k \in Column({"", "5", "10"}, 3) \cup OfOtherTypes}, blanks : BOOLEAN,
     no_inference : BOOLEAN])
  \cup Lines(StatDefault, [cells : {<<k>> : k \in Numbered}, freq_count : {1, 2, 5}])
  \cup Lines(StatDefault,
    [cells : {<<k>> : k \in Column({"", "5", "10"}, 3) \cup Column({"0:00:03", "0:00:07"}, 2)
       \cup {<<"x", "">>, <<"T", "">>, <<"2024-01-01">>, <<"2024-01-02 03:04:05">>}},
     operations : {{o} : o \in Operations}, blanks : BOOLEAN])
  \cup Lines(StatDefault,
    [names : {<<"a", "b">>}, cells : {<< <<"10", "5">>, <<"x", "">> >>, << <<>>, <<>> >>},
     ids : {<<>>, <<Word("b"), Number(1)>>, <<Number(1), Number(1)>>, <<To(3, 1)>>, <<Number(0)>>,
            <<Number(2), Number(1), Number(2)>>},
     format : {"text", "csv", "json"}, zero : BOOLEAN, no_header : BOOLEAN])
  \cup Lines(StatDefault,
    [names : {<<"a", "b">>}, cells : {<< <<"10", "5">>, <<"x", "">> >>},
     ids : {<<>>, <<Number(1)>>, <<To(3, 1)>>, <<Number(1), Number(1)>>}, operations : {{"sum"}},
     no_header : BOOLEAN])
  \cup Lines(StatDefault,
    [cells : {<< <<"5">> >>}, operations : {{}, {"count"}, {"count", "min"}, {"min"}},
     format : {"text", "csv"}, limited : {TRUE}, long : {{}, {0}, {1}}, ids : {<<>>, <<Word("z")>>}])
  \cup Lines(StatDefault,
    [cells : {<< <<"5">> >>}, names : {<<>>, <<"a">>}, operations : {{}, {"count"}},
     show_names : BOOLEAN, no_header : BOOLEAN, ragged : BOOLEAN])

SuiteLines ==
  [clean |-> CleanLines, stack |-> StackLines, cut |-> CutLines, grep |-> GrepLines,
   sort |-> SortLines, json |-> JsonLines, look |-> LookLines, in2csv |-> In2csvLines,
   stat |-> StatLines]
===============================================================================
