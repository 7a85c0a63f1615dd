-------------------------- MODULE OfflineAnalysis --------------------------
(***************************************************************************)
(* The two offline tools, each one invocation of its command line:         *)
(*   process_results   scripts/process_results.py main():                  *)
(*                     process_all_results over the raw *.json files,      *)
(*                     then, when it is run on the output directory,       *)
(*                     scripts/generate_report.py main();                  *)
(*   compare           analyze-performance.py --compare BASELINE CURRENT;  *)
(*   directory         analyze-performance.py --directory DIR.             *)
(* The input (the files the invocation reads) is chosen in Init; the       *)
(* invocation is one action, the whole call chain of its main(); then the  *)
(* program has exited.  File contents and report markup are left out.      *)
(***************************************************************************)
EXTENDS Integers, Sequences, SequencesExt, FiniteSets, Ratio

CONSTANTS Tests, ImplNames, Configured, DurationVals,   \* process_results
          CatNames, TestNames, OpsVals, ScoreVals,       \* analyze-performance
          MaxFiles,
          FormatChoices,   \* output.formats settings of the configuration
          KeywordsIn       \* test name -> category keywords in it (report)

VARIABLES tool, input, output,
          report   \* what generate_report.py rendered from output's directory

RP == INSTANCE ResultsProcessor
PA == INSTANCE PerformanceAnalyzer
RG == INSTANCE ReportGenerator

vars == <<tool, input, output, report>>

NoOutput == [running |-> TRUE]          \* main() has not finished
NoRawResults == [no_raw_results |-> TRUE]  \* "No raw results found to process"
Corrupt == [corrupt |-> TRUE]           \* a *.json file json.load rejects

(* One raw result file of the container runner.                           *)
RawFile == [test : Tests, implementation : ImplNames, success : BOOLEAN,
            duration : DurationVals \cup {RP!NoDuration}]

(* A benchmark result file for --compare: one category at most per file,  *)
(* up to two results (so a test name can repeat).                         *)
CmpFile == {PA!Unreadable} \cup
           [overall_score : {20},
            categories : BoundedSeq([name : CatNames,
                                     results : BoundedSeq([test_name : TestNames, ops : OpsVals], 2)], 1)]

(* A directory entry in sorted-name order: whether its name contains      *)
(* "benchmark", and its content.                                          *)
DirEntry == [benchmark : BOOLEAN,
             data : {PA!Unreadable} \cup [overall_score : ScoreVals, categories : {<<>>}]]

Init ==
    /\ output = NoOutput
    /\ report = NoOutput
    /\ \/ tool = "process_results" /\ input \in [files : BoundedSeq(RawFile \cup {Corrupt}, MaxFiles),
                                                formats : FormatChoices]
       \/ tool = "compare" /\ input \in CmpFile \X CmpFile
       \/ tool = "directory" /\ input \in BoundedSeq(DirEntry, MaxFiles)

(* load_raw_results: a file that fails to load is skipped.                *)
load_raw_results(files) == SelectSeq(files, LAMBDA f : f # Corrupt)

(* process_all_results: nothing to process stops early, writing nothing;  *)
(* otherwise organise, statistics, comparisons (with the overall          *)
(* summary), then save_results in the configured formats.  The key order *)
(* of the statistics dicts is kept (statistics_order); raw is kept as a   *)
(* ghost for the properties.                                              *)
process_all_results ==
    /\ tool = "process_results" /\ output = NoOutput
    /\ LET raw == load_raw_results(input.files)
           stats == RP!generate_statistics(raw)
       IN output' =
            IF raw = <<>> THEN NoRawResults
            ELSE [raw |-> raw,
                  statistics |-> stats,
                  statistics_order |-> [t \in DOMAIN stats |-> RP!StatsImplOrder(raw, stats, t)],
                  comparisons |-> RP!generate_comparisons(raw, Configured),
                  files |-> RG!save_results(input.formats)]
    /\ UNCHANGED <<tool, input, report>>

(* generate_report.py --input-dir, the output directory of the run above. *)
generate_html_report ==
    /\ tool = "process_results" /\ output # NoOutput /\ report = NoOutput
    /\ report' = RG!generate_html_report(IF output = NoRawResults THEN {} ELSE output.files, output)
    /\ UNCHANGED <<tool, input, output>>

(* main() --compare BASELINE CURRENT.                                     *)
main_compare ==
    /\ tool = "compare" /\ output = NoOutput
    /\ output' = PA!compare_benchmark_runs(input[1], input[2])
    /\ UNCHANGED <<tool, input, report>>

(* main() --directory DIR.                                                *)
main_directory ==
    /\ tool = "directory" /\ output = NoOutput
    /\ output' = PA!analyze_directory(input)
    /\ UNCHANGED <<tool, input, report>>

(* The program has exited.                                                *)
Exited ==
    /\ output # NoOutput
    /\ UNCHANGED vars

Next == process_all_results \/ generate_html_report \/ main_compare \/ main_directory \/ Exited

Spec == Init /\ [][Next]_vars

-----------------------------------------------------------------------------
Processed == tool = "process_results" /\ output \notin {NoOutput, NoRawResults}

(* Indices of the loaded raw results that ran (t, i) successfully and    *)
(* recorded a duration.                                                   *)
Timed(t, i) ==
    {k \in DOMAIN output.raw : /\ output.raw[k].success /\ output.raw[k].test = t
                               /\ output.raw[k].implementation = i
                               /\ output.raw[k].duration # RP!NoDuration}

(* Where (t, i) first ran successfully in the loaded order.               *)
FirstSeen(t, i) ==
    CHOOSE k \in DOMAIN output.raw :
        /\ output.raw[k].success /\ output.raw[k].test = t /\ output.raw[k].implementation = i
        /\ \A m \in 1..(k - 1) : ~(output.raw[m].success /\ output.raw[m].test = t
                                   /\ output.raw[m].implementation = i)

Mean(t, i) == output.statistics[t][i].duration_mean

(* The rankings lists read as test -> impl -> rank.                       *)
RankTable ==
    LET rk == output.comparisons.rankings
    IN [t \in DOMAIN rk |-> [i \in Range(RP!Ranked(rk[t])) |-> RP!RankIn(rk[t], i)]]

TypeOK ==
    /\ tool \in {"process_results", "compare", "directory"}
    /\ Processed =>
         /\ DOMAIN output = {"raw", "statistics", "statistics_order", "comparisons", "files"}
         /\ \A t \in DOMAIN output.comparisons.rankings :
              LET list == output.comparisons.rankings[t] IN
              /\ Range(RP!Ranked(list)) = DOMAIN output.statistics[t]
              /\ Cardinality(DOMAIN output.statistics[t]) = Len(list)
              /\ \A k \in DOMAIN list : list[k].rank \in 1..Cardinality(ImplNames)
    /\ tool = "compare" /\ output \notin {NoOutput, PA!NoAnalysis} =>
         output.regressions \cap output.improvements = {}

(* generate_statistics summarises exactly the successful runs with a      *)
(* duration: a test appears iff some run of it succeeded, an (test, impl) *)
(* entry iff one of its successful runs has a duration, and count, min,  *)
(* max and mean are those of these durations.  About the success filter  *)
(* of organize_results and the None filter and `continue' of              *)
(* generate_statistics.                                                   *)
StatsFromSuccessfulRuns ==
    Processed =>
      LET st == output.statistics IN
      /\ DOMAIN st = {output.raw[k].test : k \in {k \in DOMAIN output.raw : output.raw[k].success}}
      /\ \A t \in DOMAIN st, i \in ImplNames :
           LET D == {output.raw[k].duration : k \in Timed(t, i)} IN
           /\ i \in DOMAIN st[t] <=> Timed(t, i) # {}
           /\ i \in DOMAIN st[t] =>
                /\ st[t][i].count = Cardinality(Timed(t, i))
                /\ st[t][i].duration_min \in D /\ \A d \in D : st[t][i].duration_min <= d
                /\ st[t][i].duration_max \in D /\ \A d \in D : d <= st[t][i].duration_max
                /\ REq(Ratio(st[t][i].count * st[t][i].duration_mean.num, st[t][i].duration_mean.den),
                       Ratio(FoldFunctionOnSet(+, 0, [k \in Timed(t, i) |-> output.raw[k].duration],
                                               Timed(t, i)), 1))

(* Every test with statistics is ranked, and its ranking numbers its      *)
(* implementations 1..n, faster mean before slower, and equal means in    *)
(* the order they first ran (Python's sort is stable).  About the sort    *)
(* and enumerate of generate_comparisons and the baseline fallback that   *)
(* decides whether a test is ranked at all.                               *)
RankingsSound ==
    Processed =>
      LET st == output.statistics
          R == RankTable
      IN /\ DOMAIN R = {t \in DOMAIN st : DOMAIN st[t] # {}}
         /\ \A t \in DOMAIN R :
              /\ {R[t][i] : i \in DOMAIN R[t]} = 1..Cardinality(DOMAIN R[t])
              /\ \A i, j \in DOMAIN R[t] : RLt(Mean(t, i), Mean(t, j)) => R[t][i] < R[t][j]
              /\ \A i, j \in DOMAIN R[t] :
                   (REq(Mean(t, i), Mean(t, j)) /\ FirstSeen(t, i) < FirstSeen(t, j))
                     => R[t][i] < R[t][j]

Compared == tool = "compare" /\ output \notin {NoOutput, PA!NoAnalysis}

(* The throughput a --compare file gives test n of category cat: the      *)
(* last result of that name in the last category of that name, as the    *)
(* file is read into name-keyed dicts.                                    *)
Listed(f, cat, n) ==
    /\ f # PA!Unreadable /\ f.categories # <<>>
    /\ LET c == f.categories[Len(f.categories)]   \* at most one category
       IN c.name = cat /\ \E m \in DOMAIN c.results : c.results[m].test_name = n
OpsOf(f, n) ==
    LET rs == f.categories[Len(f.categories)].results
    IN rs[CHOOSE m \in DOMAIN rs : rs[m].test_name = n
                     /\ \A m2 \in DOMAIN rs : rs[m2].test_name = n => m2 <= m].ops

(* --compare reports a test of a category as a regression exactly when   *)
(* both runs list it and its ops/second fell by more than 10% of a        *)
(* positive baseline, and as an improvement exactly when it rose by more *)
(* than 10%; the reported change is that percentage.  About the test loop *)
(* and the strict thresholds of compare_benchmark_runs.                  *)
ChangesClassified ==
    Compared =>
      \A cat \in CatNames, n \in TestNames :
        LET bo == OpsOf(input[1], n)
            co == OpsOf(input[2], n)
            InBoth == Listed(input[1], cat, n) /\ Listed(input[2], cat, n)
            Reported(S) == \E x \in S : x.category = cat /\ x.test = n
        IN /\ Reported(output.regressions) <=> InBoth /\ bo > 0 /\ 10 * co < 9 * bo
           /\ Reported(output.improvements) <=> InBoth /\ bo > 0 /\ 10 * co > 11 * bo
           /\ \A x \in output.regressions \cup output.improvements :
                (x.category = cat /\ x.test = n) => REq(x.change, Ratio(100 * (co - bo), bo))

Reported == tool = "process_results" /\ report \notin {NoOutput, RG!NoProcessedData}

(* In the report, each test's Winner column is the first row of that      *)
(* test's detailed table, and the time shown with it is that row's mean.  *)
(* The two are two different sorts of the same statistics dict, saved to  *)
(* JSON and read back: rankings.sort in generate_comparisons and sorted() *)
(* in generate_detailed_section; they agree only if both order by mean    *)
(* and break ties the same way.                                           *)
WinnerMatchesDetail ==
    Reported /\ report.performance # RG!NoSection =>
      \A t \in DOMAIN report.performance.rows :
        LET w == report.performance.rows[t].winner IN
        /\ w = report.detailed[t][1]
        /\ REq(report.performance.rows[t].time, Mean(t, w))

(* An implementation that ran in every ranked test and was ranked first   *)
(* in each is the report's "Best overall", and when it is lambdust the    *)
(* report places it #1.  About the rank numbering, impl_scores and the    *)
(* average-rank sort of generate_overall_summary, read back by            *)
(* generate_summary_section.                                              *)
UnbeatenIsBestOverall ==
    Reported =>
      \A i \in ImplNames :
        (RankTable # <<>> /\ \A t \in DOMAIN RankTable : i \in DOMAIN RankTable[t] /\ RankTable[t][i] = 1)
          => /\ report.summary.best = i
             /\ i = "lambdust" => report.summary.lambdust_position \in {0, 1}

(* relative_performance is measured against the configured baseline       *)
(* implementation (output.comparisons.baseline) in every test where it    *)
(* has statistics.  generate_comparisons overwrites baseline_impl with    *)
(* the first implementation of a test lacking the baseline and never     *)
(* restores it, so later tests are measured against that one.             *)
BaselineIsConfigured ==
    Processed =>
      \A t \in DOMAIN output.comparisons.relative_performance :
        (Configured \in DOMAIN output.statistics[t] /\ RPos(Mean(t, Configured)))
          => LET rp == output.comparisons.relative_performance[t][Configured]
             IN rp # RP!Infinity /\ REq(rp, Ratio(1, 1))
=============================================================================
