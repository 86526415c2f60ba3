--------------------------------- MODULE Grep ---------------------------------
(***************************************************************************)
(* csvGrep: the rows in which the columns asked for match a pattern.       *)
(*                                                                         *)
(* A pattern is the set of places <<row, column>> whose cells it is found  *)
(* in (regex_search, or find for -m and each line of the file of -f; the   *)
(* cell is tried with and without its quotes).  cmd.patterns gives it for  *)
(* each of -r, -f and -m that the command line has.                        *)
(***************************************************************************)
EXTENDS Tool, ColumnIds

VARIABLES
  grep_ids,    \* the columns to search
  searched     \* rows passed

grepVars == <<grep_ids, searched>>

ASSUME GrepAssumption ==
  \A tool \in DOMAIN Commands : \A c \in Commands[tool] : c.tool = "grep" =>
    c.names \in Seq(STRING) /\ AreIds(c.ids)

GrepInit == grep_ids = <<>> /\ searched = 0

GrepIds == ParseColumnIdentifiers(cmd.ids, <<>>, HeaderNames(cmd.names), cmd.zero)

GrepRefused == cmd.ragged \/ cmd.names = <<>>
\* No column, no pattern, or --r-icase without -r.
GrepMisused ==
  \/ cmd.ids = <<>>
  \/ DOMAIN cmd.patterns = {}
  \/ cmd.r_icase /\ "regex" \notin DOMAIN cmd.patterns

GrepNames ==
  /\ at = "start" /\ ~GrepRefused /\ cmd.show_names
  /\ Goto("done") /\ out' = Append(out, [n |-> 0, line |-> 0])
  /\ UNCHANGED held /\ UNCHANGED grepVars

GrepRejected ==
  /\ at = "start"
  /\ \/ (GrepRefused \/ (~cmd.show_names /\ GrepMisused)) /\ Goto("failed")
     \/ ~GrepRefused /\ ~cmd.show_names /\ ~GrepMisused /\ ~Understood(GrepIds) /\ Goto("rejected")
  /\ Quiet /\ UNCHANGED grepVars

\* In priority order: -r, -f, -m.
Pattern ==
  IF "regex" \in DOMAIN cmd.patterns THEN "regex"
  ELSE IF "file" \in DOMAIN cmd.patterns THEN "file" ELSE "match"

\* The header is written before the file of -f is opened; if that fails, what was kept
\* back stays unprinted.
GrepStart ==
  /\ at = "start" /\ ~GrepRefused /\ ~cmd.show_names /\ ~GrepMisused /\ Understood(GrepIds)
  /\ grep_ids' = GrepIds
  /\ Write(<<[n |-> 0, line |-> 0]>>)
  /\ IF Pattern = "file" /\ ~cmd.readable THEN Goto("rejected") ELSE Goto("searching")
  /\ UNCHANGED searched

\* all_hits counts the columns that match, any_hits stops at the first.
Hits(l) == {k \in DOMAIN grep_ids : <<l, grep_ids[k]>> \in cmd.patterns[Pattern]}
\* Mutant: one hit is enough.
AllHitsSome(l) == Hits(l) # {}
AllHits(l) == Cardinality(Hits(l)) = Len(grep_ids)
AnyHits(l) == Hits(l) # {}
Matches(l) == IF cmd.any THEN AnyHits(l) ELSE AllHits(l)
RowToSearch == at = "searching" /\ searched < cmd.data

\* Every row counts, printed or not.
GrepRow ==
  /\ RowToSearch
  /\ searched' = searched + 1
  /\ IF Matches(searched') # cmd.invert
     THEN Write(<<[n |-> IF cmd.linenumbers THEN searched' ELSE 0, line |-> searched']>>)
     ELSE Quiet
  /\ UNCHANGED <<cmd, at, grep_ids>>

GrepEnd ==
  /\ at = "searching" /\ ~RowToSearch
  /\ Goto("done") /\ Flush /\ UNCHANGED grepVars

GrepNext == GrepNames \/ GrepRejected \/ GrepStart \/ GrepRow \/ GrepEnd

GrepSpec == ToolInit /\ GrepInit /\ [][GrepNext]_<<toolVars, grepVars>>

(***************************************************************************)
(* Properties.                                                             *)
(***************************************************************************)
\* Under the header come, in the order of the source, exactly the rows in which every
\* column asked for matches (under -a: some column), or with -i exactly the others; and
\* a row's number is its place in the source, not in the output, so that -i and the
\* same command without it number the rows alike (search_and_output).
GrepSelects ==
  cmd.tool = "grep" /\ at \in {"searching", "done"} /\ ~cmd.show_names =>
    LET found(l) ==
          LET hit(c) == <<l, c>> \in cmd.patterns[Pattern]
              columns == Range(grep_ids)
          IN  IF cmd.any THEN \E c \in columns : hit(c) ELSE \A c \in columns : hit(c)
    IN  /\ Output[1].line = 0
        /\ \A l \in 1..searched :
             (\E k \in DOMAIN Output : Output[k].line = l) = (found(l) # cmd.invert)
        /\ \A j, k \in DOMAIN Output : j < k => Output[j].line < Output[k].line
        /\ cmd.linenumbers => \A k \in DOMAIN Output : Output[k].n = Output[k].line
===============================================================================
