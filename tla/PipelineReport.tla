--------------------------- MODULE PipelineReport ---------------------------
(***************************************************************************)
(* The report stage of run_comprehensive_benchmarks.py:                   *)
(* generate_comprehensive_report renders all_results four times and        *)
(* writes each rendering as soon as it is made: the JSON results document, *)
(* the HTML report, the Markdown summary, the CSV data.  An exception in   *)
(* one rendering leaves the files before it on disk and the rest unwritten *)
(* (run() catches it).  Of the renderings only the figures a reader        *)
(* compares are kept: the HTML report's per-runtime average throughput and *)
(* success rate, and the Markdown ranking of implementations by average    *)
(* throughput with their success rates.  Markup, wording, timestamps, the  *)
(* HTML comparison and regression lists and the CSV rows are left out.     *)
(***************************************************************************)
EXTENDS Integers, Sequences, SequencesExt, FiniteSets, Ratio
LOCAL INSTANCE RegressionDetector
LOCAL INSTANCE ResultsProcessor

NoReport == [none |-> TRUE]   \* generate_comprehensive_report not called
AllFiles == <<"json", "html", "md", "csv">>

Successful(rs) == SelectSeq(rs, LAMBDA r : r.success)

(* sum(r.get('ops_per_second', 0) for r in successful_results)            *)
(*   / len(successful_results)                                            *)
AvgOps(rs) ==
    LET s == Successful(rs)
        total == FoldLeft(LAMBDA a, r : RAdd(a, ops_per_second(r)), Ratio(0, 1), s)
    IN Ratio(total.num, total.den * Len(s))

(* generate_html_report, 'Implementation Performance': one block per       *)
(* native_results entry, in its order; the success rate guarded by        *)
(* total_tests > 0, the average 0 when no result succeeded.               *)
html_implementations(native, order) ==
    [k \in 1..Len(order) |->
       LET rs == native[order[k]]
           s == Successful(rs)
       IN [implementation |-> order[k],
           avg_ops_per_sec |-> IF s = <<>> THEN Ratio(0, 1) ELSE AvgOps(rs),
           success_rate |-> IF Len(rs) > 0 THEN Ratio(100 * Len(s), Len(rs)) ELSE Ratio(0, 1)]]

(* The overview's `successful_tests/total_tests*100': ZeroDivisionError    *)
(* when native_results is there but holds no result at all.               *)
MarkdownRaises(hasNative, native) ==
    hasNative /\ \A i \in DOMAIN native : native[i] = <<>>

(* Seeded fault: impl_perf.sort without reverse=True, slowest first.     *)
markdown_rankings_ascending(native, order) ==
    LET ranked == SelectSeq(order, LAMBDA i : Successful(native[i]) # <<>>)
        key == [i \in Range(ranked) |-> AvgOps(native[i])]
    IN [k \in 1..Len(ranked) |->
          LET i == CHOOSE i \in Range(ranked) : SortPosition(key, ranked, i) = k
          IN [implementation |-> i, avg_perf |-> key[i],
              success_rate |-> Ratio(100 * Len(Successful(native[i])), Len(native[i]))]]

(* 'Performance Rankings': impl_perf collects, in native_results order,   *)
(* the impls with a successful result, then sort(key=avg, reverse=True),  *)
(* which is stable: the highest average first, equal ones in list order   *)
(* (a stable sort on the negated key).                                    *)
markdown_rankings(native, order) ==
    LET ranked == SelectSeq(order, LAMBDA i : Successful(native[i]) # <<>>)
        key == [i \in Range(ranked) |-> AvgOps(native[i])]
        negated == [i \in Range(ranked) |-> Ratio(-key[i].num, key[i].den)]
    IN [k \in 1..Len(ranked) |->
          LET i == CHOOSE i \in Range(ranked) : SortPosition(negated, ranked, i) = k
          IN [implementation |-> i, avg_perf |-> key[i],
              success_rate |-> Ratio(100 * Len(Successful(native[i])), Len(native[i]))]]

(* generate_comprehensive_report: JSON and HTML are written first (the     *)
(* HTML's per-runtime blocks only with 'native_results' in all_results);  *)
(* the Markdown rendering raises or is written with its ranking, then the *)
(* CSV.                                                                   *)
generate_comprehensive_report(hasNative, native, order) ==
    LET html == IF hasNative THEN html_implementations(native, order) ELSE <<>>
    IN IF MarkdownRaises(hasNative, native)
       THEN [files |-> SubSeq(AllFiles, 1, 2), html |-> html, rankings |-> <<>>]
       ELSE [files |-> AllFiles, html |-> html,
             rankings |-> IF hasNative THEN markdown_rankings(native, order) ELSE <<>>]
=============================================================================
