\* Raw results: two tests, two implementations, durations 0..2 or missing,
\* up to three files.  --compare: one category of two results per file,
\* throughputs around a baseline of 10 (9 and 11 are exactly -10%/+10%).
\* --directory: scores around 20 (19 and 21 are exactly -5%/+5%).
CONSTANTS
    Tests = {"t1", "t2"}
    ImplNames = {"chez", "lambdust"}
    Configured = "chez"
    DurationVals = {0, 1, 2}
    CatNames = {"c1", "c2"}
    TestNames = {"a", "b"}
    OpsVals = {0, 9, 10, 11}
    ScoreVals = {0, 10, 19, 20, 21}
    MaxFiles = 3
    FormatChoices <- MC_FormatChoices
    KeywordsIn <- MC_KeywordsIn
SPECIFICATION Spec
CHECK_DEADLOCK FALSE
INVARIANT TypeOK
INVARIANT StatsFromSuccessfulRuns
INVARIANT RankingsSound
INVARIANT ChangesClassified
INVARIANT WinnerMatchesDetail
INVARIANT UnbeatenIsBestOverall
