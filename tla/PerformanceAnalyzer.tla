------------------------- MODULE PerformanceAnalyzer -------------------------
(***************************************************************************)
(* analyze-performance.py, PerformanceAnalyzer: a benchmark result file is *)
(* reduced to per-category tables of test throughput (analyze_single_run), *)
(* two runs are compared test by test against +-10% (compare_benchmark_   *)
(* runs), and the overall scores of a directory of runs are scanned for    *)
(* +-5% steps (analyze_directory, analyze_performance_trends).  A file is  *)
(* Unreadable (load error or empty JSON: `if not data') or a record with   *)
(* overall_score and categories, each a name and a list of results with   *)
(* test_name and ops_per_second.  Grades, timings, memory and report text  *)
(* are left out; percentages are exact Ratios.                             *)
(***************************************************************************)
EXTENDS Integers, Sequences, SequencesExt, Ratio

Unreadable == [unreadable |-> TRUE]
NoAnalysis == [none |-> TRUE]     \* the {} returned on every early exit

(* The index of the last occurrence of n in the key sequence keys.        *)
LastWith(keys, n) ==
    CHOOSE k \in DOMAIN keys : keys[k] = n /\ \A m \in DOMAIN keys : keys[m] = n => m <= k

(* {t['name']: t for t in detailed_results}: a later test of the same     *)
(* name replaces an earlier one.                                          *)
TestTable(results) ==
    LET names == [k \in DOMAIN results |-> results[k].test_name]
    IN [n \in Range(names) |-> results[LastWith(names, n)].ops]

(* analyze_single_run: analysis['categories'][name] = cat_analysis, a      *)
(* later category of the same name replacing an earlier one.              *)
analyze_single_run(data) ==
    IF data = Unreadable THEN NoAnalysis
    ELSE LET cats == data.categories
             names == [k \in DOMAIN cats |-> cats[k].name]
         IN [overall_score |-> data.overall_score,
             categories |-> [n \in Range(names) |-> TestTable(cats[LastWith(names, n)].results)]]

(* ((current - baseline) / baseline) * 100, or 0 when baseline <= 0.       *)
PercentChange(cur, base) == IF base > 0 THEN Ratio(100 * (cur - base), base) ELSE Ratio(0, 1)

(* The test comparisons: categories present in both runs, and test names  *)
(* present in both categories.                                            *)
TestChanges(b, c) ==
    UNION {{[category |-> cat, test |-> n,
             change |-> PercentChange(c.categories[cat][n], b.categories[cat][n])] :
              n \in DOMAIN b.categories[cat] \cap DOMAIN c.categories[cat]} :
           cat \in DOMAIN b.categories \cap DOMAIN c.categories}

(* Seeded fault: the thresholds taken inclusively (<= -10, >= 10).        *)
compare_benchmark_runs_inclusive(bdata, cdata) ==
    LET b == analyze_single_run(bdata)
        c == analyze_single_run(cdata)
    IN IF b = NoAnalysis \/ c = NoAnalysis THEN NoAnalysis
       ELSE [overall_score_change |-> c.overall_score - b.overall_score,
             regressions |-> {x \in TestChanges(b, c) : RLe(x.change, Ratio(-10, 1))},
             improvements |-> {x \in TestChanges(b, c) : RLe(Ratio(10, 1), x.change)}]

(* compare_benchmark_runs: `test_change < -10' is a regression, `elif     *)
(* test_change > 10' an improvement.                                      *)
compare_benchmark_runs(bdata, cdata) ==
    LET b == analyze_single_run(bdata)
        c == analyze_single_run(cdata)
    IN IF b = NoAnalysis \/ c = NoAnalysis THEN NoAnalysis
       ELSE [overall_score_change |-> c.overall_score - b.overall_score,
             regressions |-> {x \in TestChanges(b, c) : RLt(x.change, Ratio(-10, 1))},
             improvements |-> {x \in TestChanges(b, c) : RLt(Ratio(10, 1), x.change)}]

(* analyze_performance_trends: for i in range(1, len): prev_score > 0,    *)
(* change < -5 a regression period, elif change > 5 an improvement one.   *)
(* Indices are Python's (0-based) positions in results_list.              *)
analyze_performance_trends(list) ==
    LET Step(k) == PercentChange(list[k].overall_score, list[k - 1].overall_score)
        Steps == {k \in 2..Len(list) : list[k - 1].overall_score > 0}
        Period(k) == [from_index |-> k - 2, to_index |-> k - 1, change_percentage |-> Step(k)]
    IN [overall_score_trend |-> [k \in DOMAIN list |-> list[k].overall_score],
        regression_periods |-> {Period(k) : k \in {k \in Steps : RLt(Step(k), Ratio(-5, 1))}},
        improvement_periods |-> {Period(k) : k \in {k \in Steps : RLt(Ratio(5, 1), Step(k))}}]

(* analyze_directory over the directory listing in sorted-name order:     *)
(* files whose name contains "benchmark", those that load, then trends    *)
(* when at least two loaded.                                              *)
analyze_directory(files) ==
    LET sel == SelectSeq(files, LAMBDA f : f.benchmark)
        all == SelectSeq([k \in DOMAIN sel |-> analyze_single_run(sel[k].data)],
                         LAMBDA a : a # NoAnalysis)
    IN IF sel = <<>> THEN NoAnalysis
       ELSE [total_files |-> Len(sel),
             trend_analysis |-> IF Len(all) >= 2 THEN analyze_performance_trends(all) ELSE NoAnalysis,
             performance_evolution |-> all]
=============================================================================
