-------------------------- MODULE StatisticsEngine --------------------------
(***************************************************************************)
(* The statistical analysis of run_comprehensive_benchmarks.py as pure     *)
(* operators over native_results (impl -> list of result records, in the   *)
(* dict's insertion order `order').  Means, ratios and the effect-size     *)
(* threshold are computed exactly with Ratio; std_dev (a square root) is   *)
(* kept only through the comparisons that use it, squared.                 *)
(* A ZeroDivisionError in compare_implementations escapes the whole        *)
(* analysis: StatsFailed.                                                  *)
(***************************************************************************)
EXTENDS Integers, Sequences, SequencesExt, TLC, Ratio

StatsFailed == [raised |-> "ZeroDivisionError"]

SumOf(s) == FoldLeft(+, 0, s)

(* f"{result['category']}_{result['test_name']}": the parameters are not *)
(* part of the key.                                                       *)
TestKey(r) == r.case.category \o "_" \o r.case.test_name

(* Seeded fault: values taken in measurement order, not sorted.          *)
calculate_descriptive_stats_unsorted(values) ==
    LET v == values
        n == Len(v)
    IN [count |-> n, mean |-> Ratio(SumOf(v), n),
        median |-> IF n % 2 = 1 THEN Ratio(v[n \div 2 + 1], 1)
                   ELSE Ratio(v[n \div 2] + v[n \div 2 + 1], 2),
        min |-> v[1], max |-> v[n],
        q25 |-> v[n \div 4 + 1], q75 |-> v[(3 * n) \div 4 + 1]]

(* calculate_descriptive_stats for a non-empty list (Python's 0-based     *)
(* values[k] is v[k+1]).                                                  *)
calculate_descriptive_stats(values) ==
    LET v == SortSeq(values, <)
        n == Len(v)
    IN [count |-> n, mean |-> Ratio(SumOf(v), n),
        median |-> IF n % 2 = 1 THEN Ratio(v[n \div 2 + 1], 1)
                   ELSE Ratio(v[n \div 2] + v[n \div 2 + 1], 2),
        min |-> v[1], max |-> v[n],
        q25 |-> v[n \div 4 + 1], q75 |-> v[(3 * n) \div 4 + 1]]

(* n * sum((x - mean)^2) for the list s, an integer.                      *)
ScaledSquares(s) == Len(s) * SumOf([k \in 1..Len(s) |-> s[k] * s[k]]) - SumOf(s) * SumOf(s)

(* compare_implementations raises ZeroDivisionError computing pooled_std *)
(* when both lists are non-empty and hold one timing each.                *)
CompareRaises(a, b) == a # <<>> /\ b # <<>> /\ Len(a) + Len(b) - 2 = 0

(* compare_implementations.  With D = n_a*n_b*(mean_a - mean_b) and the   *)
(* pooled variance SS/(n_a+n_b-2), SS = (Q_a*n_b + Q_b*n_a)/(n_a*n_b),    *)
(* |effect_size| > 0.5 iff 4*D^2*(n_a+n_b-2) > n_a*n_b*(Q_a*n_b+Q_b*n_a); *)
(* effect_size is 0 when pooled_std is 0.                                 *)
compare_implementations(a, b, impl_a, impl_b, test_key) ==
    IF a = <<>> \/ b = <<>>
    THEN [impl_a |-> impl_a, impl_b |-> impl_b, test |-> test_key,
          mean_a |-> Ratio(0, 1), mean_b |-> Ratio(0, 1), significant |-> FALSE,
          performance_ratio |-> Ratio(1, 1), winner |-> "none"]
    ELSE
    LET na == Len(a)
        nb == Len(b)
        ma == Ratio(SumOf(a), na)
        mb == Ratio(SumOf(b), nb)
        D  == SumOf(a) * nb - SumOf(b) * na
        SS == ScaledSquares(a) * nb + ScaledSquares(b) * na
    IN [impl_a |-> impl_a, impl_b |-> impl_b, test |-> test_key,
        mean_a |-> ma, mean_b |-> mb,
        significant |-> SS > 0 /\ 4 * D * D * (na + nb - 2) > na * nb * SS,
        performance_ratio |-> Ratio(mb.num * ma.den, mb.den * ma.num),
        winner |-> IF RLt(ma, mb) THEN impl_a ELSE impl_b]

(* The grouping loop.  Successful results only; for a test key, the impl  *)
(* ids in first-insertion order, and the timings of the last successful   *)
(* result of that impl under the key (later combos overwrite earlier).    *)
Successes(results, i) ==
    {k \in 1..Len(results[i]) : results[i][k].success}

GroupKeys(results) ==
    UNION {{TestKey(results[i][k]) : k \in Successes(results, i)} : i \in DOMAIN results}

GroupImpls(results, order, tk) ==
    SelectSeq(order, LAMBDA i : \E k \in Successes(results, i) : TestKey(results[i][k]) = tk)

GroupedResult(results, tk, i) ==
    LET ks == {k \in Successes(results, i) : TestKey(results[i][k]) = tk}
    IN results[i][CHOOSE k \in ks : \A m \in ks : m <= k]

(* Seeded fault: the inner loop starts at j = i, comparing an impl with  *)
(* itself.                                                                *)
comparison_pairs_selfpairs(n) == {<<x, y>> \in (1..n) \X (1..n) : x <= y}

(* for i in range(len(impl_ids)): for j in range(i + 1, len(impl_ids))    *)
comparison_pairs(n) == {<<x, y>> \in (1..n) \X (1..n) : x < y}

(* perform_statistical_analysis.  descriptive_stats is keyed by the pair  *)
(* (test_key, impl_id) that the code joins into one string.  The          *)
(* comparisons carry, as ghost fields, the test cases of the two result   *)
(* records whose timings they compare.                                    *)
perform_statistical_analysis(results, order) ==
    LET G(tk) == GroupImpls(results, order, tk)
        T(tk, i) == GroupedResult(results, tk, i).timing_results
        Pairs(tk) == comparison_pairs(Len(G(tk)))
        Compare(tk, p) ==
            compare_implementations(T(tk, G(tk)[p[1]]), T(tk, G(tk)[p[2]]),
                                    G(tk)[p[1]], G(tk)[p[2]], tk)
            @@ [case_a |-> GroupedResult(results, tk, G(tk)[p[1]]).case,
                case_b |-> GroupedResult(results, tk, G(tk)[p[2]]).case]
    IN IF \E tk \in GroupKeys(results) : \E p \in Pairs(tk) :
            CompareRaises(T(tk, G(tk)[p[1]]), T(tk, G(tk)[p[2]]))
       THEN StatsFailed
       ELSE [descriptive_stats |->
               [q \in UNION {{<<tk, i>> : i \in Range(G(tk))} : tk \in GroupKeys(results)} |->
                  calculate_descriptive_stats(T(q[1], q[2]))],
             pairwise_comparisons |->
               UNION {{Compare(tk, p) : p \in Pairs(tk)} : tk \in GroupKeys(results)}]
=============================================================================
