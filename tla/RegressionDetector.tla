------------------------- MODULE RegressionDetector -------------------------
(***************************************************************************)
(* BenchmarkRunner.detect_regressions as an operator over native_results   *)
(* and a loaded baseline (impl -> list of baseline records).  Throughput   *)
(* ops_per_second = 1/mean_time is an exact Ratio; the 5% thresholds are   *)
(* compared exactly, so float rounding at the boundary is not modelled.    *)
(***************************************************************************)
EXTENDS Integers, Sequences, SequencesExt, Ratio

(* run_single_test: ops_per_second = 1.0 / mean_time (mean_time > 0, as  *)
(* every elapsed time is positive) = n / sum(timings).                    *)
ops_per_second(r) == Ratio(Len(r.timing_results), FoldLeft(+, 0, r.timing_results))

(* Seeded fault: the match drops the parameters comparison.              *)
baseline_match_noparams(b, r) ==
    /\ b.case.test_name = r.case.test_name
    /\ b.case.category = r.case.category

(* The matching condition of the inner baseline loop.                    *)
baseline_match(b, r) ==
    /\ b.case.test_name = r.case.test_name
    /\ b.case.category = r.case.category
    /\ b.case.parameters = r.case.parameters

(* The first matching baseline record (the loop breaks on it), or        *)
(* <<>> when none matches.                                                *)
baseline_test(bl, r) ==
    LET ks == {k \in 1..Len(bl) : baseline_match(bl[k], r)}
    IN IF ks = {} THEN <<>> ELSE bl[CHOOSE k \in ks : \A m \in ks : k <= m]

(* change_percent = (cur - base)/base*100 against the +-5.0 thresholds:  *)
(* change < -5 iff 20*cur < 19*base; change > 5 iff 20*cur > 21*base.    *)
IsRegression(cur, base) == RLt(Ratio(20 * cur.num, cur.den), Ratio(19 * base.num, base.den))
IsImprovement(cur, base) == RLt(Ratio(21 * base.num, base.den), Ratio(20 * cur.num, cur.den))

(* The records compared: every successful result of an impl present in   *)
(* the baseline that has a matching baseline record with positive        *)
(* ops_per_second.                                                        *)
Compared(results, baseline) ==
    UNION {{<<i, r, baseline_test(baseline[i], r)>> :
              r \in {r \in Range(results[i]) : r.success}} :
           i \in DOMAIN results \cap DOMAIN baseline}

(* The record appended to regressions or improvements; no parameters.    *)
ChangeRecord(i, r, b) ==
    [implementation |-> i, test |-> r.case.test_name, category |-> r.case.category,
     current_performance |-> ops_per_second(r), baseline_performance |-> b.ops_per_second]

(* detect_regressions once the baseline file is loaded.                  *)
detect_regressions(results, baseline) ==
    LET C == {c \in Compared(results, baseline) : c[3] # <<>> /\ RPos(c[3].ops_per_second)}
    IN [regressions |->
          {ChangeRecord(c[1], c[2], c[3]) :
             c \in {c \in C : IsRegression(ops_per_second(c[2]), c[3].ops_per_second)}},
        improvements |->
          {ChangeRecord(c[1], c[2], c[3]) :
             c \in {c \in C : ~IsRegression(ops_per_second(c[2]), c[3].ops_per_second)
                              /\ IsImprovement(ops_per_second(c[2]), c[3].ops_per_second)}}]
=============================================================================
