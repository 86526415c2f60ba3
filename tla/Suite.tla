--------------------------------- MODULE Suite ---------------------------------
(***************************************************************************)
(* The tools of the suite that read one source after the other and print:  *)
(* a run of the suite is a run of one of them.  Each tool has its own       *)
(* state, which the others leave alone.                                    *)
(***************************************************************************)
EXTENDS Clean, Stack, Cut, Grep, Sort, Json, Look, In2csv, Stat

vars == <<toolVars, cleanVars, stackVars, cutVars, grepVars, typifyVars, sortVars, jsonVars,
          lookVars, in2csvVars, statVars>>

SuiteInit ==
  /\ ToolInit /\ CleanInit /\ StackInit /\ CutInit /\ GrepInit /\ SortInit /\ JsonInit
  /\ LookInit /\ In2csvInit /\ StatInit

\* The program that was started.
CsvClean ==
  /\ cmd.tool = "clean" /\ CleanNext
  /\ UNCHANGED <<stackVars, cutVars, grepVars, typifyVars, sortVars, jsonVars, lookVars,
                in2csvVars, statVars>>
CsvStack ==
  /\ cmd.tool = "stack" /\ StackNext
  /\ UNCHANGED <<cleanVars, cutVars, grepVars, typifyVars, sortVars, jsonVars, lookVars,
                in2csvVars, statVars>>
CsvCut ==
  /\ cmd.tool = "cut" /\ CutNext
  /\ UNCHANGED <<cleanVars, stackVars, grepVars, typifyVars, sortVars, jsonVars,
                lookVars, in2csvVars, statVars>>
CsvGrep ==
  /\ cmd.tool = "grep" /\ GrepNext
  /\ UNCHANGED <<cleanVars, stackVars, cutVars, typifyVars, sortVars, jsonVars, lookVars,
                in2csvVars, statVars>>
CsvSort ==
  /\ cmd.tool = "sort" /\ SortNext
  /\ UNCHANGED <<cleanVars, stackVars, cutVars, grepVars, jsonVars, lookVars, in2csvVars, statVars>>
CsvJson ==
  /\ cmd.tool = "json" /\ JsonNext
  /\ UNCHANGED <<cleanVars, stackVars, cutVars, grepVars, typifyVars, sortVars, lookVars,
                in2csvVars, statVars>>
CsvLook ==
  /\ cmd.tool = "look" /\ LookNext
  /\ UNCHANGED <<cleanVars, stackVars, cutVars, grepVars, typifyVars, sortVars, jsonVars,
                in2csvVars, statVars>>
In2csvMain ==
  /\ cmd.tool = "in2csv" /\ In2csvNext
  /\ UNCHANGED <<cleanVars, stackVars, cutVars, grepVars, typifyVars, sortVars, jsonVars,
                lookVars, statVars>>
CsvStat ==
  /\ cmd.tool = "stat" /\ StatNext
  /\ UNCHANGED <<cleanVars, stackVars, cutVars, grepVars, sortVars, jsonVars, lookVars,
                in2csvVars>>

Step ==
  \/ CsvClean \/ CsvStack \/ CsvCut \/ CsvGrep \/ CsvSort \/ CsvJson \/ CsvLook
  \/ In2csvMain \/ CsvStat
SuiteNext == Step \/ (Finished /\ UNCHANGED vars)

\* Nothing outside the process holds it up: a tool that can go on goes on.
SuiteSpec == SuiteInit /\ [][SuiteNext]_vars /\ WF_vars(Step)

(***************************************************************************)
(* Properties of all the tools.                                            *)
(***************************************************************************)
\* Every tool stops, whatever its sources hold: with its output, with a message, or
\* with an exception (main of each tool; the loops over the rows of each; the waits of
\* the parallel sort).
Ends == <>(at \in Final)

\* inflight_spawns is the number of quicksort_impl calls that have not finished yet: when
\* all have, the caller waits no longer (parallel_quicksort, cv.wait).
SortWaitEnds == (at = "sorting") ~> (at \in {"collecting"} \cup Final)
===============================================================================
