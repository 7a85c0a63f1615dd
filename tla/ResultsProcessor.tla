-------------------------- MODULE ResultsProcessor --------------------------
(***************************************************************************)
(* scripts/process_results.py, BenchmarkProcessor: the raw per-run records *)
(* of the container benchmarks are organised by test and implementation,   *)
(* summarised, compared against a baseline implementation and ranked.      *)
(* Python dicts iterate in insertion order; the orders are computed        *)
(* explicitly (TestOrder, ImplOrder) because the baseline fallback and the *)
(* tie-breaking of the stable sort depend on them.  Durations are whole    *)
(* numbers, means exact Ratios; medians and deviations are left out.       *)
(***************************************************************************)
EXTENDS Integers, Sequences, SequencesExt, FiniteSets, Ratio

None == "None"      \* baseline_impl = None
Infinity == [inf |-> TRUE]   \* float('inf')
NoDuration == -1    \* a record without a duration (r.get('duration') is None)

(* The elements of s in order of first occurrence.                       *)
RECURSIVE FirstOccurrences(_)
FirstOccurrences(s) ==
    IF s = <<>> THEN <<>>
    ELSE LET rest == FirstOccurrences(Front(s))
         IN IF Last(s) \in Range(rest) THEN rest ELSE Append(rest, Last(s))

(* organize_results: `if not result.get('success')' skips a record, the   *)
(* rest go to organized[test][implementation] in input order.             *)
(* Seeded fault: the success check dropped.                               *)
SuccessfulRuns_all(raw) == raw

SuccessfulRuns(raw) == SelectSeq(raw, LAMBDA r : r.success)

TestOrder(raw) ==
    LET S == SuccessfulRuns(raw) IN FirstOccurrences([k \in 1..Len(S) |-> S[k].test])

ImplOrder(raw, t) ==
    LET S == SelectSeq(SuccessfulRuns(raw), LAMBDA r : r.test = t)
    IN FirstOccurrences([k \in 1..Len(S) |-> S[k].implementation])

organize_results(raw) ==
    [t \in Range(TestOrder(raw)) |->
       [i \in Range(ImplOrder(raw, t)) |->
          SelectSeq(SuccessfulRuns(raw), LAMBDA r : r.test = t /\ r.implementation = i)]]

(* generate_statistics for one (test, impl): the durations that are not   *)
(* None; an impl without any is left out (`continue'), the test stays.    *)
Durations(runs) ==
    LET D == SelectSeq(runs, LAMBDA r : r.duration # NoDuration)
    IN [k \in 1..Len(D) |-> D[k].duration]

generate_statistics(raw) ==
    LET org == organize_results(raw) IN
    [t \in DOMAIN org |->
       [i \in {i \in DOMAIN org[t] : Durations(org[t][i]) # <<>>} |->
          LET d == Durations(org[t][i]) IN
          [count |-> Len(d),
           duration_mean |-> Ratio(FoldLeft(+, 0, d), Len(d)),
           duration_min |-> CHOOSE x \in Range(d) : \A y \in Range(d) : x <= y,
           duration_max |-> CHOOSE x \in Range(d) : \A y \in Range(d) : y <= x]]]

(* The impls of test t in stats[t]'s iteration order.                    *)
StatsImplOrder(raw, stats, t) == SelectSeq(ImplOrder(raw, t), LAMBDA i : i \in DOMAIN stats[t])

(* Seeded fault: equal times ranked later-listed first (an unstable or    *)
(* reversed tie order).                                                   *)
RankOf_laterfirst(ts, order, i) ==
    1 + Cardinality({j \in Range(order) : RLt(ts[j].duration_mean, ts[i].duration_mean)})
      + Cardinality({k \in 1..Len(order) :
                       /\ REq(ts[order[k]].duration_mean, ts[i].duration_mean)
                       /\ \E m \in 1..Len(order) : order[m] = i /\ k > m})

(* rankings.sort(key=time) is stable, then rank = position + 1: the      *)
(* impls strictly faster, plus the equally fast ones listed before it.    *)
RankOf(ts, order, i) ==
    1 + Cardinality({j \in Range(order) : RLt(ts[j].duration_mean, ts[i].duration_mean)})
      + Cardinality({k \in 1..Len(order) :
                       /\ REq(ts[order[k]].duration_mean, ts[i].duration_mean)
                       /\ \E m \in 1..Len(order) : order[m] = i /\ k < m})

(* rankings.sort(key=time) then `ranking['rank'] = i + 1': the list of   *)
(* the test's impls in sorted order, each with its time and rank.         *)
(* Seeded fault: enumerate() without the + 1.                            *)
Ranking_zero(ts, order) ==
    [k \in 1..Len(order) |->
       LET i == CHOOSE i \in Range(order) : RankOf(ts, order, i) = k
       IN [implementation |-> i, time |-> ts[i].duration_mean, rank |-> k - 1]]

Ranking(ts, order) ==
    [k \in 1..Len(order) |->
       LET i == CHOOSE i \in Range(order) : RankOf(ts, order, i) = k
       IN [implementation |-> i, time |-> ts[i].duration_mean, rank |-> k]]

(* One iteration of the test loop of generate_comparisons.  baseline_impl *)
(* is the loop-carried variable: replaced by the test's first impl when   *)
(* it has no stats there, and never set back.  A test with no baseline   *)
(* is skipped (`continue'), so rankings keeps the tests in loop order.   *)
ComparisonStep(raw, stats, acc, t) ==
    LET ts == stats[t]
        order == StatsImplOrder(raw, stats, t)
        b == IF acc.baseline \in DOMAIN ts THEN acc.baseline
             ELSE IF order # <<>> THEN order[1] ELSE None
        bt == ts[b].duration_mean
    IN IF b = None
       THEN [acc EXCEPT !.baseline = b]
       ELSE [baseline |-> b,
             relative_performance |-> acc.relative_performance @@
               (t :> [i \in DOMAIN ts |->
                        IF RPos(bt)
                        THEN Ratio(ts[i].duration_mean.num * bt.den, ts[i].duration_mean.den * bt.num)
                        ELSE Infinity]),
             rankings |-> acc.rankings @@ (t :> Ranking(ts, order)),
             ranked |-> Append(acc.ranked, t)]

(* The impls of a test's ranking list, best first.                       *)
Ranked(list) == [k \in DOMAIN list |-> list[k].implementation]

(* The rank of impl i in the ranking list of a test it appears in.       *)
RankIn(list, i) == (CHOOSE e \in Range(list) : e.implementation = i).rank

(* The position of i when order is sorted by key with Python's stable    *)
(* sorted(): the ones with a smaller key, then equal keys listed first.  *)
SortPosition(key, order, i) ==
    1 + Cardinality({j \in Range(order) : RLt(key[j], key[i])})
      + Cardinality({k \in 1..Len(order) :
                       /\ REq(key[order[k]], key[i])
                       /\ \E m \in 1..Len(order) : order[m] = i /\ k < m})

(* sorted(summary.items(), key=average_rank), kept as the impl names.     *)
(* Seeded fault: sorted(..., reverse=True), the worst average rank first *)
(* (Python keeps equal keys in order when reversing).                    *)
OverallRankings_reversed(individual, order) ==
    LET key == [j \in Range(order) |-> individual[j].average_rank]
        Pos(i) == 1 + Cardinality({j \in Range(order) : RLt(key[i], key[j])})
                    + Cardinality({k \in 1..Len(order) :
                                     /\ REq(key[order[k]], key[i])
                                     /\ \E m \in 1..Len(order) : order[m] = i /\ k < m})
    IN [k \in 1..Len(order) |-> CHOOSE i \in Range(order) : Pos(i) = k]

OverallRankings(individual, order) ==
    [k \in 1..Len(order) |->
       CHOOSE i \in Range(order) :
         SortPosition([j \in Range(order) |-> individual[j].average_rank], order, i) = k]

(* generate_overall_summary: impl_scores collects, test by test in        *)
(* rankings order and down each list, every impl's ranks (so its keys     *)
(* are in order of first appearance); individual_stats per impl, then     *)
(* overall_rankings by average rank.                                      *)
generate_overall_summary(rankings, tests) ==
    LET order == FirstOccurrences(FoldLeft(LAMBDA s, t : s \o Ranked(rankings[t]), <<>>, tests))
        In(i) == {t \in Range(tests) : i \in Range(Ranked(rankings[t]))}
        Wins(i) == Cardinality({t \in In(i) : RankIn(rankings[t], i) = 1})
        individual ==
          [i \in Range(order) |->
             [total_tests |-> Cardinality(In(i)), total_wins |-> Wins(i),
              average_rank |-> Ratio(FoldFunctionOnSet(+, 0, [t \in In(i) |-> RankIn(rankings[t], i)], In(i)),
                                     Cardinality(In(i))),
              win_percentage |-> Ratio(Wins(i) * 100, Cardinality(In(i)))]]
    IN [individual_stats |-> individual, overall_rankings |-> OverallRankings(individual, order)]

(* generate_comparisons: the loop over stats in test order, starting from *)
(* the configured baseline (output.comparisons.baseline, default chez),   *)
(* then the summary over the rankings.                                    *)
generate_comparisons(raw, configured) ==
    LET stats == generate_statistics(raw)
        acc == FoldLeft(LAMBDA a, t : ComparisonStep(raw, stats, a, t),
                        [baseline |-> configured, relative_performance |-> <<>>,
                         rankings |-> <<>>, ranked |-> <<>>],
                        TestOrder(raw))
    IN [relative_performance |-> acc.relative_performance,
        rankings |-> acc.rankings,
        rankings_order |-> acc.ranked,
        summary |-> generate_overall_summary(acc.rankings, acc.ranked)]
=============================================================================
