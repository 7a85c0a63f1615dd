-------------------------- MODULE ReportGenerator --------------------------
(***************************************************************************)
(* scripts/generate_report.py, ReportGenerator: reads what                 *)
(* process_results.py saved in its output directory and renders the HTML   *)
(* report.  The report is kept as what it tells the reader: the top        *)
(* performers and insights of the summary, per test its category, winner, *)
(* winner's time and top three, and per test the impls in the order of    *)
(* the detailed table.  Markup, number formatting, the timestamp, the      *)
(* chart placeholders and the static assets are left out.  The processed  *)
(* document is the record process_results builds; json.dump and          *)
(* json.load keep dict key order and float values, so it reads back as    *)
(* written.                                                               *)
(***************************************************************************)
EXTENDS Integers, Sequences, SequencesExt, FiniteSets, Ratio
LOCAL INSTANCE ResultsProcessor

CONSTANT KeywordsIn   \* test name -> the category keywords it contains

NoProcessedData == [no_processed_data |-> TRUE]   \* "No processed data found"
NoSection == [no_data |-> TRUE]                   \* "<p>No ... available.</p>"

JsonParts == {"organized.json", "statistics.json", "comparisons.json"}

(* save_results: for each configured format, save_json_results writes    *)
(* complete_results.json and one file per component, save_csv_results    *)
(* statistics.csv and comparisons.csv.                                    *)
save_results(formats) ==
    UNION {CASE f = "json" -> {"complete_results.json"} \cup JsonParts
             [] f = "csv"  -> {"statistics.csv", "comparisons.csv"} : f \in Range(formats)}

(* load_processed_data: complete_results.json if it exists, else every    *)
(* *.json keyed by its stem, which for the component files is again the   *)
(* processed document; with no JSON file the data is empty.              *)
load_processed_data(files, doc) ==
    IF "complete_results.json" \in files \/ files \cap JsonParts # {}
    THEN doc ELSE NoProcessedData

(* The category of a test by the keywords in its name, checked in order. *)
Category(t) ==
    CASE KeywordsIn[t] \cap {"arithmetic", "function_calls", "closure"} # {} -> "Micro-benchmarks"
      [] KeywordsIn[t] \cap {"fibonacci", "factorial", "quicksort"} # {}    -> "Algorithm Performance"
      [] KeywordsIn[t] \cap {"list", "vector", "string"} # {}               -> "Data Structures"
      [] OTHER                                                              -> "Other"

(* generate_summary_section: the first five of overall_rankings, the best *)
(* one, and lambdust's 1-based position when there are at least two       *)
(* (0: the line is not shown).                                            *)
generate_summary_section(cmp) ==
    LET ov == cmp.summary.overall_rankings IN
    IF ov = <<>> THEN NoSection
    ELSE [top |-> SubSeq(ov, 1, IF Len(ov) < 5 THEN Len(ov) ELSE 5),
          best |-> ov[1],
          lambdust_position |->
            IF Len(ov) > 1 /\ "lambdust" \in Range(ov)
            THEN CHOOSE k \in DOMAIN ov : ov[k] = "lambdust" ELSE 0]

(* generate_performance_section: the tests of rankings grouped by         *)
(* category in rankings order; a row per test with a non-empty ranking:  *)
(* test_rankings[0] is the winner, test_rankings[:3] the top three.       *)
generate_performance_section(cmp) ==
    LET R == cmp.rankings
        shown == SelectSeq(cmp.rankings_order, LAMBDA t : R[t] # <<>>)
    IN IF DOMAIN R = {} THEN NoSection
       ELSE [sections |-> [c \in {Category(t) : t \in DOMAIN R} |->
                             SelectSeq(shown, LAMBDA t : Category(t) = c)],
             rows |-> [t \in Range(shown) |->
                         [winner |-> R[t][1].implementation,
                          time |-> R[t][1].time,
                          top3 |-> Ranked(SubSeq(R[t], 1, IF Len(R[t]) < 3 THEN Len(R[t]) ELSE 3))]]]

(* Seeded fault: the table rows in dict order, the sort left out.        *)
generate_detailed_section_unsorted(stats, order) ==
    IF DOMAIN stats = {} THEN NoSection ELSE [t \in DOMAIN stats |-> order[t]]

(* generate_detailed_section: per test, sorted(test_stats.items(),        *)
(* key=duration_mean), a stable sort over the dict's order.              *)
generate_detailed_section(stats, order) ==
    IF DOMAIN stats = {} THEN NoSection
    ELSE [t \in DOMAIN stats |->
            [k \in 1..Len(order[t]) |->
               CHOOSE i \in Range(order[t]) :
                 SortPosition([j \in DOMAIN stats[t] |-> stats[t][j].duration_mean], order[t], i) = k]]

(* generate_html_report over the processed directory.                    *)
generate_html_report(files, doc) ==
    LET data == load_processed_data(files, doc) IN
    IF data = NoProcessedData THEN NoProcessedData
    ELSE [summary |-> generate_summary_section(data.comparisons),
          performance |-> generate_performance_section(data.comparisons),
          detailed |-> generate_detailed_section(data.statistics, data.statistics_order)]
=============================================================================
