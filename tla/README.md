# TLA+ models of the Lambdust benchmark harness

This directory models the benchmark harness of the repository: the Python
driver `src/run_comprehensive_benchmarks.py`, the resource sampler
`src/scripts/performance_monitor.py`, and the offline tools
`src/scripts/process_results.py`, `src/scripts/generate_report.py` and
`src/analyze-performance.py`. The models can be checked with TLC.
Every module is translated from the source. `PROJECT.json` maps each
definition to the lines it models, and lists the runs, mutants, findings and
hazards.

## The system

`BenchmarkRunner.run()` (run_comprehensive_benchmarks.py) is one sequential
thread. It works in this order:

1. `check_system_requirements`: checks for docker and for available binaries.
2. `build_lambdust`.
3. The **native sweep**, `run_native_benchmarks`. For every configured
   implementation except `lambdust`, it runs every test case through
   `run_single_test`. A test case is a category, a test, and one parameter
   combination from the **parameter expander**,
   `generate_parameter_combinations`.
4. The **statistics engine**, `perform_statistical_analysis` →
   `calculate_descriptive_stats` and `compare_implementations`. It runs only
   if the native results survived.
5. The **regression detector**, `detect_regressions`, which compares
   results against a baseline file.
6. With `--generate-report` and a non-empty `all_results`, the **report**,
   `generate_comprehensive_report`. It renders and writes the JSON results
   document, the HTML report, the Markdown summary and the CSV data, in
   that order.

Each of steps 3–6 sits in its own `try`. An exception there drops that step's
whole output, and `run()` goes on.

`run_single_test` writes the test program to a temporary file. It runs the
warmups, then up to `iterations` timed invocations of `execute_test_file`,
stopping at the first failure. It then builds a result record and unlinks the
file in a `finally`.

The **resource sampler** is `PerformanceMonitor`. It runs a background
thread that samples system and per-pid metrics into shared histories while
`monitoring` is set. `BenchmarkProfiler.profile_benchmark` drives it with a
spawned child:

1. `Popen`.
2. Inside `monitor_process(...)`:
   1. `add_target_process`.
   2. `start_monitoring`.
   3. `communicate(timeout=300)`.
   4. `stop_monitoring`, which joins the thread with `timeout=1.0`.
   5. `remove_target_process`.
3. A second `stop_monitoring`, whose snapshot is returned.

One profiler, and so one monitor, serves every call.

The **offline tools** are separate command-line programs that read result
files written earlier:

- `process_results.py` loads the per-run JSON records of the container
  runner. It groups the successful records by test and implementation, and
  summarises their durations. It then walks the tests in order, measuring
  each implementation against a baseline implementation. The baseline is the
  configured one, or the test's first implementation when the configured one
  has no statistics there; this choice is carried from test to test. It ranks
  the implementations by a stable sort of their mean times and sums up ranks
  and wins per implementation.
- `analyze-performance.py --compare` reads two benchmark result files into
  tables keyed by category name and test name, and reports the tests whose
  ops/second changed by more than ±10%. `--directory` reads the result files
  of a directory in name order, keeps those that load, and reports the steps
  of the overall score beyond ±5%.
- `generate_report.py` is run on the output directory of `process_results.py`.
  `process_results.py` saves its document there as `complete_results.json`
  plus one JSON file per part, or as CSV, depending on `output.formats`.
  `generate_report.py` reads the document back. From the summary's
  `overall_rankings` it renders the top five, the best overall and
  lambdust's position. Per ranked test, grouped into categories by keywords
  in the test name, it renders the winner, the winner's time and the top
  three. Per test, it renders a table of implementations sorted by mean time.

## Modules

| module | models | state and actions |
|---|---|---|
| `BenchmarkSweep` | `run()` up to the end of the native sweep | Variables: `phase`; the cursors `implIdx`/`caseIdx`; `implResults` (the per-implementation list); `native` (the results dict); `nativeLost` (an exception escaped the sweep); `tempFiles` (leaked files); the ghost `measured`. One action per handler: `check_system_requirements`, `build_lambdust`, `skip_lambdust`, `run_single_test` (the whole call: write, loop, record, unlink), `record_implementation`, `end_sweep`. The timed loop is the recursive `measurement_runs`. |
| `PerformanceMonitor` | `PerformanceMonitor` and `profile_benchmark`'s psutil branch | Variables: `monitoring`, `monitorThread`, `targets`, `metrics_history`, `process_history`, each mirroring the attribute of that name. Per sampling thread: a pc `tpc`, the timestamp it read, its tick count. The foreground's pc `fg` and its run counter. `pidOwner` (child / zombie / free / foreign) and the returned `results`. Foreground actions: `profile_command` (the Valgrind branch, with `vgOut`, the call that last wrote the output file in `/tmp` and the massif snapshots it wrote; the result carries the parse of that file), `Popen`, `monitor_process_enter`, `communicate`, `StopRequest`, `monitor_process_exit`, `collect_monitoring_results`, `report_timeout`. Thread actions: `monitor_loop_check`, `collect_system_metrics`, `monitor_loop_append`. Environment actions: `ChildExits`, `PidReused`. `Sessions` instantiates `SamplerSessions` with the refinement mapping. |
| `SamplerSessions` | what the sampler promises its caller (spec 4.3, 8) | An abstract spec with no code behind it. Variables: the session's `owner`, whether it is `live`, the `clock`, the session's `history`, and the returned `results`. Actions: `Start` (empties the history), `Tick`, `Sample` (by the owner, stamped between the last stamp and the clock), `Halt`, `Collect` (returns the history of the call's own session), `Fail`. Safety only. |
| `StatisticsEngine` | `perform_statistical_analysis`, `calculate_descriptive_stats`, `compare_implementations` | Pure operators over the results dict. Arithmetic is exact, using `Ratio`. The effect-size test is `\|d\| > 0.5`, evaluated without the square root. `CompareRaises` is the ZeroDivisionError path. |
| `RegressionDetector` | `detect_regressions` | Pure operators: first-match baseline lookup, the positive-baseline guard, and the ±5% thresholds, all exact. |
| `BenchmarkPipeline` | `run()` end to end | Composes `BenchmarkSweep` (INSTANCE, the same variables) with the operator modules. `load_configuration` narrows the configuration file's implementations and categories (`ConfigImpls`, `ConfigCategories`) to those `--implementations`/`--categories` name, giving `Impls` and `Categories`. `Cases` is `run_implementation_benchmarks`' loop over the configured `Categories`, expanded by `ParameterExpander`; the sweep instance uses it for its `Cases` constant. It adds `stage`, `statistical_analysis` and `regression_analysis`, which mirror the keys of `all_results`, and `report`, the files `report_step` wrote with the Markdown ranking. The Docker sweep is only a free choice of whether it added a key to `all_results`. |
| `ParameterExpander` | `generate_parameter_combinations` | Pure operators. The loop is `extend`/`expand`. |
| `PipelineReport` | `generate_comprehensive_report`, `generate_markdown_report` | Pure operators. The report is the list of files written, in order, and the Markdown ranking table. `MarkdownRaises` is the overview's division by the total number of results. `markdown_rankings` is `impl_perf` after its stable `reverse=True` sort, using `SortPosition` on the negated average. `html_implementations` is the HTML report's per-runtime block: every runtime of `native_results`, its average over its successes and its success rate. The HTML and CSV renderers never raise here and their text is not rendered. |
| `ValgrindOutput` | `ValgrindProfiler._parse_valgrind_output`, `_parse_massif_output` | Pure operators. A line of the file is its text up to the `=` and the integer after it. `MassifFile` is what `valgrind --tool=massif` writes for a list of snapshots; `PeakHeap` is the reference peak. |
| `ResultsProcessor` | `process_results.py`: `organize_results`, `generate_statistics`, `generate_comparisons`, `generate_overall_summary` | Pure operators over the loaded records. Dict insertion order is explicit (`TestOrder`, `ImplOrder`). The test loop is a `FoldLeft` whose accumulator carries `baseline_impl` and the order in which tests were ranked. `RankOf` is the position after Python's stable sort. `Ranking` is the code's list of `{implementation, time, rank}`. `OverallRankings` is the stable sort of the summary by average rank (`SortPosition`). |
| `ReportGenerator` | `generate_report.py` and `save_results` | Pure operators. `save_results` gives the set of files each format writes. `load_processed_data` reads `complete_results.json`, or falls back to the part files. One operator per report section, each returning what the section tells the reader. `Category` holds the keyword tests, checked in the code's order. |
| `PerformanceAnalyzer` | `analyze-performance.py`: `analyze_single_run`, `compare_benchmark_runs`, `analyze_directory`, `analyze_performance_trends` | Pure operators. Name-keyed dicts are "last of that name wins" (`LastWith`). Percent changes are exact `Ratio`s. |
| `OfflineAnalysis` | one invocation of either tool's `main()`, and `generate_report.py` on `process_results`' output | Variables: `tool` (`process_results`, `compare` or `directory`); `input` (the files read and, for `process_results`, the `formats` setting, chosen in `Init`); `output`; and `report`. One action per invocation (`process_all_results`, which ends with saving, plus `main_compare` and `main_directory`), each the whole call chain. After `process_results`, `generate_html_report` may run on the directory it wrote. Then `Exited`. |
| `Ratio` | — | Exact rationals, a helper. |

`MC_*.tla` modules give the constants for TLC: implementation ids, test cases
and a baseline.

## Runs

| run | cfg | expect | shows |
|---|---|---|---|
| sweep_unavailable_benchmarked | MC_BenchmarkSweep_unavailable | violation | `chez`, whose binary `check_system_requirements` did not find, is still swept: every case records a spawn error as a failed test, where spec 7 says the implementation is skipped (`AvailableBenchmarked`). |
| sweep_write_failure_lost | …_lost | violation | One failing `f.write` of the temporary file, or an iteration count of 0 (`error` unbound), discards every native result. |
| monitor_pass | MC_PerformanceMonitor | pass | With joins that always finish, the monitor refines `SamplerSessions` (`SessionsRefined`). Each run's snapshot holds only its own thread's samples. Every `profile_benchmark` returns, even with hung children (liveness). The massif profile returned by a call that wrote the output file reports that file's peak heap and snapshot count (`MassifPeakFaithful`). |
| monitor_join_timeout | …_zombie | violation | A thread that outlives the join writes into the next run's snapshot. |
| monitor_pid_reuse | …_pidreuse | violation | After `communicate` reaps the child, its pid stays a target; once the pid is reused, the foreign process's samples are returned as the child's. |
| profile_timeout_orphan | …_orphan | violation | A timeout returns with the child still running. |
| pipeline_pass | MC_BenchmarkPipeline | pass | Over write failures and `iterations ∈ {0,2}`: results are faithful to the invocations: the loop breaks on the first failure, success means some timing, and the error is the failing invocation's (`ResultsFaithful`). Descriptive stats summarise real results. Comparisons are exhaustive, ordered, and name the faster winner. Regressions match an exact reference classification, including a change of exactly 5%. The Markdown ranking lists exactly the runtimes with a success, highest average first, ties in sweep order, with their success rates (`ReportRankingFaithful`). The configuration carries a fourth runtime and a second category, both filtered out by `--implementations` and `--categories`. |
| pipeline_report_incomplete | …_ReportComplete | violation | A test whose only value has an unsupported type expands to nothing; every runtime records an empty list, the Markdown overview divides by zero, and the report stops after JSON and HTML. |
| pipeline_mixed_combinations | …_ComparisonSameCombination | violation | fib(20) timings are compared with fib(10) timings. With `Categories <- MC_CollidingCategories`, the same property fails through the `category_test` key collision alone, in 2 s. |
| pipeline_singletons | …_AnalysisSurvivesSingletons | violation | Two one-sample timings make the whole analysis disappear. |
| offline_pass | MC_OfflineAnalysis | pass | `process_results`: the statistics summarise exactly the successful timed runs; every test with statistics is ranked 1..n, faster first and ties in first-run order. `analyze-performance --compare`: test changes are classified against exact ±10%. The report agrees with itself and with the rankings: each test's Winner is the first row of its detailed table (`WinnerMatchesDetail`), and an implementation first in every test is "Best overall" (`UnbeatenIsBestOverall`). |
| offline_stale_baseline | …_baseline | violation | After a test where the configured baseline has no timed run, later tests are measured against another implementation. |

Every property of a passing run has a mutant in `PROJECT.json`: an operator
defined just before the one it replaces, reproducing a plausible slip in that
code. Each was checked to be caught by its property.

Some properties state a rule that the code breaks but have no run of their
own. `NoTempFileLeft`, `WinnerTieFavorsA` and
`ValgrindProfileOwn` are each violated when checked alone with their module's constants. The hazards
in `PROJECT.json` record them.

## Bounds

- **Sweep and pipeline.** Three implementations: `lambdust` (skipped),
  `guile`, and `chez` (unavailable in the sweep runs, available in the
  pipeline). In `pipeline_pass` the configuration file also has `racket` and
  a category `io`, which the command-line filters drop. Two cases of one test that differ only in a parameter. Up to two
  iterations of durations {1, 2}, which gives every mix of success, nonzero
  exit and timeout per invocation.

  Two iterations are the least that produce one- and two-sample timings,
  ties, and unequal means. Two combinations are the least that expose the
  parameter-blind grouping. The baseline has a failed entry (no ops/second),
  a matching entry per combination, and an entry exactly 5% above a
  reachable throughput.
- **Monitor.** 2 runs and 2 ticks per thread. This is the least that lets a
  thread of run 1 meet run 2. In `monitor_pass` any call may take the
  Valgrind branch, and the output directory may start empty or hold a file
  from an earlier program.
- **Expander.** It runs inside the pipeline, on the configured test: one
  parameter with two supported entries and one `List` entry between them,
  so a skipped entry happens. The report violation uses a parameter whose
  only entry is a `List`. No property checks the expansion itself: with one
  parameter its cross product and order are trivial, and a second
  parameter with two values doubles the cases of a state space that
  already takes a minute and a half.
- **Offline tools.**
  - `process_results`: every sequence of up to 3 files over 2 tests, 2
    implementations (`chez`, the configured baseline, and `lambdust`),
    success or not, and a duration of 0, 1, 2 or none, plus an unloadable
    file. That is about 37,000 inputs, each with `formats` set to JSON (the
    default) or to CSV only.
    - Three files are the least that put a test without the baseline before
      a test with it.
    - Duration 0 reaches the infinite relative performance.
    - Two implementations give ties, and with `lambdust` among them the
      report's position line is shown.
    - Test `t1` falls in "Algorithm Performance". `t2` contains both a
      micro-benchmark keyword and a data-structure keyword, so the order of
      the keyword checks decides its category.
  - `--compare`: every pair of files with at most one category of up to two
    results (names `a`/`b` in categories `c1`/`c2`) with ops/second 0, 9, 10
    or 11. This covers repeated names, one-sided categories and tests, a
    zero baseline, and exactly ±10%.
  - `--directory`: up to 3 entries, with or without "benchmark" in the
    name, unloadable or with score 0, 10, 19, 20 or 21, which gives exactly
    ±5%.

## Refinement

`SamplerSessions` is the promise of spec 4.3 and 8:

- a session starts empty;
- only its sampler appends;
- stamps do not go back;
- nothing is added after the sampler stops;
- a call returns its own session's samples.

`PerformanceMonitor` maps onto it as follows:

| abstract | `PerformanceMonitor` |
|---|---|
| `owner` | `monitorThread` |
| `live` | that thread is still in its loop |
| `history` | `metrics_history` |
| `results` | each result's `monitored` flag and system samples |

A foreground step that leaves these unchanged is a stutter.
`SessionsRefined == Sessions!Spec` is checked as a temporal property in
`monitor_pass`. It fails in two cases:

- under `JoinMayTimeOut = TRUE`, where a thread that outlives the join
  appends after `Halt`;
- under the mutants that drop the join or the history clearing.

The abstract spec is safety only, so the fairness stays on the detailed one.

## Fairness

- `run()` is a single thread with no blocking that the code leaves
  unbounded, except subprocesses, which have timeouts. `WF` on its next-state
  relation is justified. No liveness of the sweep or the pipeline is
  checked (see the plans below); `WF` only keeps their specifications
  honest for one.
- In the monitor, the foreground and every sampling thread are OS threads, so
  each gets `WF`. A child process is *not* assumed to exit: `communicate`'s
  timeout is what guarantees progress.
- `ProfileReturns` is checked in `monitor_pass`. There the join waits for
  the thread, so progress needs `WF` on the thread.
- The offline tools are single-step batch programs. No fairness is assumed,
  and no liveness is checked. Their runs do not check deadlock, because the
  program exits.

## Not modelled

- The Docker sweep (`run_docker_benchmarks`, `parse_docker_results`), apart
  from whether it adds a key to `all_results`.
- The callgrind parser of `ValgrindProfiler`: `profile_benchmark` always
  creates the profiler with `massif`, so it is never reached.
- The HTML and CSV texts of `run_comprehensive_benchmarks.py`'s report, and
  the HTML comparison and regression lists, which copy the analysis
  figures. The HTML per-runtime figures are modelled. The report
  text of `analyze-performance.py` is not modelled either. Of `generate_report.py`, the
  markup, number formatting, chart placeholders and static CSS/JS assets are
  left out.
- The code text of `run_single_test`: placeholders are replaced one
  parameter after another with `str.replace`, so a string value holding a
  later parameter's placeholder is substituted again (hazard RCB:219).
  Modelling it would need templates as token sequences.
- Test generation (`generate_tests.py`).
- The contents of the JSON/CSV files. JSON keeps dict order and float values,
  so the saved document reads back as written; only which files exist is
  modelled.
- `analyze-performance.py --file`.
- The medians, deviations, percentiles, user-time and memory figures of
  `process_results.py`.

These are subprocess calls, text parsing or rendering, with no state a
property distinguishes.

The following are planned:

- A run for the order of the expansion (hazard RCB:190), and one for the
  trend thresholds of `analyze-performance.py`, whose comments say "5% or
  more" where the code compares strictly (hazard AP:261). The strict
  comparisons are modelled; the runs are held back by the limit on the
  number of runs.
- Liveness of the whole pipeline. With `pipeline_pass`'s constants, TLC
  ran for more than 20 minutes on it, so it needs a smaller configuration
  and a run slot of its own.
- Repeated categories in `--compare` files.
- A larger monitor instance: with 3 runs TLC did not finish in 10 minutes.

Float rounding is not modelled. Means and thresholds are exact rationals.
Timestamps come from a clock that only moves forward.
