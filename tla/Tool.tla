--------------------------------- MODULE Tool ---------------------------------
(***************************************************************************)
(* What the tools of csvsuite have in common: a command line, a place in   *)
(* the work, and an output.  A tool is a process; it reads its sources,    *)
(* prints, and stops.                                                      *)
(*                                                                         *)
(* The rows of a source are known by their places: line 0 is the header,   *)
(* line n the nth data row.  What a cell holds is said by the command line *)
(* record of each tool, as far as the tool looks at it.                    *)
(***************************************************************************)
EXTENDS Integers, Sequences, SequencesExt, FiniteSetsExt

CONSTANT
  Commands       \* for each tool, command lines with the contents of their sources:
                 \* records with the field tool and the options of that tool

VARIABLES
  cmd,           \* the command line
  at,            \* where the tool is
  out,           \* the lines on standard output
  held           \* lines composed but kept back: the ostringstream used
                 \* instead of std::cout when --ASAP is off

toolVars == <<cmd, at, out, held>>

\* printed; a message and no more output; an exception in main; an operation the
\* language leaves undefined.
Final == {"done", "rejected", "failed", "undefined"}

ToolInit ==
  /\ \E tool \in DOMAIN Commands : cmd \in Commands[tool]
  /\ at = "start"
  /\ out = <<>> /\ held = <<>>

\* os << line, where os is std::cout under --ASAP and the string stream otherwise.
Write(lines) ==
  IF cmd.asap THEN out' = out \o lines /\ UNCHANGED held
  ELSE held' = held \o lines /\ UNCHANGED out
Quiet == UNCHANGED <<out, held>>

\* if (!args.asap) std::cout << oss.str();
Flush == out' = out \o held /\ held' = <<>>

Goto(place) == at' = place /\ UNCHANGED cmd

Finished == at \in Final /\ UNCHANGED toolVars

\* What a reader of the output will have seen, printed or kept back.
Output == out \o held

(***************************************************************************)
(* Sources.                                                                *)
(***************************************************************************)
\* generate_column_names: without a header row the columns are named by letters
\* (a letter is repeated once more for every 26 columns; no instance has so many).
Letters == <<"a", "b", "c", "d", "e", "f">>
HeaderNames(names) == IF cmd.no_header THEN SubSeq(Letters, 1, Len(names)) ELSE names
===============================================================================
