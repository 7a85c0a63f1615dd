------------------------- MODULE BenchmarkPipeline -------------------------
(***************************************************************************)
(* BenchmarkRunner.run() end to end: the native sweep (BenchmarkSweep) over *)
(* the cases ParameterExpander makes of the configured tests, then, if     *)
(* native_results survived, perform_statistical_analysis in its own try,   *)
(* then detect_regressions in its own try, then, with --generate-report,   *)
(* the report files (PipelineReport).  The Docker sweep is not modelled    *)
(* beyond whether it put an entry into all_results.                       *)
(***************************************************************************)
EXTENDS Integers, Sequences, SequencesExt, FiniteSets, TLC, Ratio

CONSTANTS ConfigImpls,   \* the configuration file's implementations (ids)
          ImplementationsArg, \* the ids of --implementations ({} if not given)
          Lambdust, Available, Durations, ConfigIterations,
          Quick, WriteMayFail,
          ConfigCategories, \* test_categories: [name, tests: <<[name, parameters]>>]
          CategoriesArg, \* the names of --categories ({} if not given)
          GenerateReport, \* the --generate-report flag
          BaselineArg,   \* whether --regression-baseline was given
          Baseline       \* the baseline file's content: impl -> list

VARIABLES iterations, phase, implIdx, caseIdx, implResults, native, nativeLost,
          tempFiles, measured,
          stage,                 \* the step of run() after the sweep
          statistical_analysis,  \* all_results['statistical_analysis']
          regression_analysis,   \* all_results['regression_analysis']
          report                 \* the report files written and their ranking

(* load_configuration: --implementations and --categories, when given,   *)
(* keep the configured entries they name, in the file's order; a name    *)
(* that matches nothing is dropped silently.                              *)
load_configuration ==
    LET keep(seq, target, key(_)) ==
          IF target = {} THEN seq ELSE SelectSeq(seq, LAMBDA e : key(e) \in target)
    IN [implementations |-> keep(ConfigImpls, ImplementationsArg, LAMBDA i : i),
        test_categories |-> keep(ConfigCategories, CategoriesArg, LAMBDA c : c.name)]

Impls == load_configuration.implementations
Categories == load_configuration.test_categories

PE == INSTANCE ParameterExpander
Rep == INSTANCE PipelineReport

(* run_implementation_benchmarks: for category, for test, for each        *)
(* parameter combination, the same cases in the same order for every impl. *)
Cases ==
    FlattenSeq([c \in DOMAIN Categories |->
      FlattenSeq([t \in DOMAIN Categories[c].tests |->
        LET test == Categories[c].tests[t]
            combos == PE!generate_parameter_combinations(test.parameters)
        IN [k \in DOMAIN combos |->
              [category |-> Categories[c].name, test_name |-> test.name,
               parameters |-> combos[k]]]])])

Sweep == INSTANCE BenchmarkSweep
Stats == INSTANCE StatisticsEngine
Regr  == INSTANCE RegressionDetector

Absent == [absent |-> TRUE]   \* the key is not in all_results
sweepVars == <<iterations, phase, implIdx, caseIdx, implResults, native, nativeLost,
               tempFiles, measured>>
analysisVars == <<stage, statistical_analysis, regression_analysis, report>>
vars == <<sweepVars, analysisVars>>

(* all_results.get('native_results', {}): nothing once the sweep raised. *)
HandedResults == IF nativeLost THEN <<>> ELSE native

(* native_results iterates in insertion order: the sweep order of Impls. *)
NativeOrder == SelectSeq(Impls, LAMBDA i : i \in DOMAIN native)

Init ==
    /\ Sweep!Init
    /\ stage = "stats"
    /\ statistical_analysis = Absent
    /\ regression_analysis = Absent
    /\ report = Rep!NoReport

SweepStep == Sweep!Next /\ ~Sweep!Terminated /\ UNCHANGED analysisVars

(* Seeded fault: the raised analysis is stored instead of left out.     *)
statistical_analysis_step_keepraised ==
    /\ phase = "analysis"
    /\ stage = "stats"
    /\ stage' = "regressions"
    /\ statistical_analysis' =
         IF nativeLost THEN Absent
         ELSE Stats!perform_statistical_analysis(native, NativeOrder)
    /\ UNCHANGED <<sweepVars, regression_analysis, report>>

(* if 'native_results' in all_results: try perform_statistical_analysis; *)
(* an exception leaves 'statistical_analysis' out.                       *)
statistical_analysis_step ==
    /\ phase = "analysis"
    /\ stage = "stats"
    /\ stage' = "regressions"
    /\ statistical_analysis' =
         IF nativeLost THEN Absent
         ELSE LET s == Stats!perform_statistical_analysis(native, NativeOrder)
              IN IF s = Stats!StatsFailed THEN Absent ELSE s
    /\ UNCHANGED <<sweepVars, regression_analysis, report>>

(* detect_regressions(all_results.get('native_results', {})): no baseline *)
(* argument, or an unreadable file, returns {} and nothing is stored.     *)
detect_regressions_step ==
    /\ phase = "analysis"
    /\ stage = "regressions"
    /\ stage' = "report"
    /\ \E readable \in BOOLEAN :
         regression_analysis' =
           IF BaselineArg /\ readable
           THEN Regr!detect_regressions(HandedResults, Baseline)
           ELSE Absent
    /\ UNCHANGED <<sweepVars, statistical_analysis, report>>

(* `if self.args.generate_report and all_results': all_results is empty    *)
(* only when the sweep raised, no regression analysis was stored and the  *)
(* Docker sweep returned nothing (or raised).                              *)
report_step ==
    /\ phase = "analysis"
    /\ stage = "report"
    /\ stage' = "done"
    /\ \E docker \in BOOLEAN :
         report' =
           IF GenerateReport /\ (~nativeLost \/ regression_analysis # Absent \/ docker)
           THEN Rep!generate_comprehensive_report(~nativeLost, native, NativeOrder)
           ELSE Rep!NoReport
    /\ UNCHANGED <<sweepVars, statistical_analysis, regression_analysis>>

(* run() returned, or exited before the sweep.                            *)
Terminated ==
    /\ phase = "exit" \/ stage = "done"
    /\ UNCHANGED vars

Next ==
    \/ SweepStep
    \/ statistical_analysis_step
    \/ detect_regressions_step
    \/ report_step
    \/ Terminated

Spec == Init /\ [][Next]_vars /\ WF_vars(Next)

-----------------------------------------------------------------------------
Comparisons == IF statistical_analysis = Absent THEN {}
               ELSE statistical_analysis.pairwise_comparisons

(* Whether impl i has a successful result filed under test key tk.        *)
HasSuccess(i, tk) == \E r \in Range(native[i]) : r.success /\ Stats!TestKey(r) = tk

IdxOf(i) == CHOOSE k \in 1..Len(Impls) : Impls[k] = i

TypeOK ==
    /\ Sweep!TypeOK
    /\ stage \in {"stats", "regressions", "report", "done"}
    /\ report = Rep!NoReport
       \/ /\ report.files \in {SubSeq(Rep!AllFiles, 1, n) : n \in 1..4}
          /\ \A k \in DOMAIN report.rankings : report.rankings[k].implementation \in DOMAIN native
    /\ statistical_analysis = Absent
       \/ DOMAIN statistical_analysis = {"descriptive_stats", "pairwise_comparisons"}
    /\ \A c \in Comparisons :
         /\ {c.impl_a, c.impl_b} \subseteq DOMAIN native
         /\ c.significant \in BOOLEAN
    /\ regression_analysis = Absent
       \/ DOMAIN regression_analysis = {"regressions", "improvements"}

(* Every descriptive_stats entry (test key tk, impl i) summarises the     *)
(* timings of one successful result of i filed under tk: its count, min,  *)
(* max and mean are those of the timings, and min <= q25 <= q75 <= max,   *)
(* min <= median <= max.  About the sort in calculate_descriptive_stats   *)
(* and the grouping loop of perform_statistical_analysis.                 *)
DescriptiveStatsFaithful ==
    statistical_analysis # Absent =>
      \A q \in DOMAIN statistical_analysis.descriptive_stats :
        LET s == statistical_analysis.descriptive_stats[q] IN
        \E r \in Range(native[q[2]]) :
          LET t == r.timing_results IN
          /\ r.success /\ Stats!TestKey(r) = q[1]
          /\ s.count = Len(t)
          /\ s.min \in Range(t) /\ \A x \in Range(t) : s.min <= x
          /\ s.max \in Range(t) /\ \A x \in Range(t) : x <= s.max
          /\ REq(s.mean, Ratio(Stats!SumOf(t), Len(t)))
          /\ s.min <= s.q25 /\ s.q25 <= s.q75 /\ s.q75 <= s.max
          /\ RLe(Ratio(s.min, 1), s.median) /\ RLe(s.median, Ratio(s.max, 1))

(* The pairwise comparisons are exactly one per unordered pair of         *)
(* distinct implementations that both have successful results for a test  *)
(* key, impl_a first in sweep order; the declared winner is never the     *)
(* slower one, a significant difference has a strictly faster winner, and *)
(* performance_ratio is mean_b/mean_a.  About the nested pair loop and    *)
(* compare_implementations.                                               *)
ComparisonsCorrect ==
    /\ \A c \in Comparisons :
         /\ c.impl_a # c.impl_b
         /\ IdxOf(c.impl_a) < IdxOf(c.impl_b)
         /\ c.winner \in {c.impl_a, c.impl_b}
         /\ LET mw == IF c.winner = c.impl_a THEN c.mean_a ELSE c.mean_b
                ml == IF c.winner = c.impl_a THEN c.mean_b ELSE c.mean_a
            IN RLe(mw, ml) /\ (c.significant => RLt(mw, ml))
         /\ REq(Ratio(c.performance_ratio.num * c.mean_a.num,
                      c.performance_ratio.den * c.mean_a.den), c.mean_b)
    /\ statistical_analysis # Absent =>
         \A i, j \in DOMAIN native, tk \in Stats!GroupKeys(native) :
           (i # j /\ HasSuccess(i, tk) /\ HasSuccess(j, tk)) =>
             \E c \in Comparisons : c.test = tk /\ {c.impl_a, c.impl_b} = {i, j}

(* Against a reference of spec 4.5: a successful current result with a    *)
(* baseline record of the same test name, category and parameters and     *)
(* positive baseline ops/second is reported as a regression exactly when  *)
(* ((cur - base)/base)*100 < -5 and as an improvement exactly when it is  *)
(* > 5.  About the baseline matching loop and the thresholds of           *)
(* detect_regressions.                                                    *)
RegressionClassification ==
    regression_analysis # Absent =>
      \A i \in DOMAIN HandedResults \cap DOMAIN Baseline :
        \A r \in Range(HandedResults[i]), b \in Range(Baseline[i]) :
          (/\ r.success /\ b.case = r.case /\ RPos(b.ops_per_second)) =>
            LET cur == Regr!ops_per_second(r)
                base == b.ops_per_second
                num == 100 * (cur.num * base.den - base.num * cur.den)
                den == base.num * cur.den
                rec == Regr!ChangeRecord(i, r, b)
            IN /\ rec \in regression_analysis.regressions <=> num < -5 * den
               /\ rec \in regression_analysis.improvements <=> num > 5 * den

(* The sweep's faithfulness invariant, over the runs of the whole        *)
(* pipeline, with write failures and a zero iteration count possible.     *)
ResultsFaithful == Sweep!ResultsFaithful

(* A comparison pits timings of the same test case against each other:   *)
(* same category, test name and parameters (spec 3: a comparison is for  *)
(* one test).  The grouping key f"{category}_{test_name}" drops the       *)
(* parameters, so the last successful combination of each impl is        *)
(* compared, whichever it is; and it joins with '_', so ("a_b", "c") and *)
(* ("a", "b_c") share one key.                                            *)
ComparisonSameCombination ==
    \A c \in Comparisons : c.case_a = c.case_b

(* Spec 3: on equal means the winner is implementation A, the first in   *)
(* declared order.  compare_implementations picks impl_b on a tie.        *)
WinnerTieFavorsA ==
    \A c \in Comparisons : REq(c.mean_a, c.mean_b) => c.winner = c.impl_a

(* Spec 4.4/8: comparisons are defined for any inputs, so the analysis is *)
(* present whenever native_results is.  Two single-sample timings make    *)
(* pooled_std divide by zero and the exception drops the whole analysis.  *)
AnalysisSurvivesSingletons ==
    (stage # "stats" /\ ~nativeLost) => statistical_analysis # Absent
(* The Markdown summary's ranking, once written, lists exactly the         *)
(* implementations of native_results with a successful result, highest    *)
(* average ops/second first, equal averages in sweep order, each with the *)
(* share of its results that succeeded.  About impl_perf and its          *)
(* sort(reverse=True) in generate_markdown_report.                        *)
ReportRankingFaithful ==
    (report # Rep!NoReport /\ report.rankings # <<>>) =>
      LET rk == report.rankings
          Succ(i) == {k \in DOMAIN native[i] : native[i][k].success}
      IN /\ {rk[k].implementation : k \in DOMAIN rk} = {i \in DOMAIN native : Succ(i) # {}}
         /\ \A k \in 1..(Len(rk) - 1) :
              \/ RLt(rk[k + 1].avg_perf, rk[k].avg_perf)
              \/ REq(rk[k + 1].avg_perf, rk[k].avg_perf)
                 /\ IdxOf(rk[k].implementation) < IdxOf(rk[k + 1].implementation)
         /\ \A k \in DOMAIN rk :
              REq(rk[k].success_rate,
                  Ratio(100 * Cardinality(Succ(rk[k].implementation)),
                        Len(native[rk[k].implementation])))

(* Spec 4.5: a failure of one operation leaves the rest of the pipeline,  *)
(* statistics and reports, to succeed; a report that is generated at all  *)
(* is written whole.  generate_markdown_report divides by the total number *)
(* of results, zero when no test case ran (every parameter value of an    *)
(* unsupported type, no category left, or only lambdust configured): the  *)
(* JSON and HTML are written, the Markdown and CSV never are.             *)
ReportComplete ==
    (stage = "done" /\ report # Rep!NoReport) => report.files = Rep!AllFiles
=============================================================================
