CONSTANTS
    ConfigImpls <- MC_ConfigImpls
    ImplementationsArg = {"lambdust", "guile", "chez"}
    Lambdust = "lambdust"
    Available <- MC_Available
    CategoriesArg = {"arith"}
    ConfigCategories <- MC_ConfigCategories
    GenerateReport = TRUE
    Durations = {1, 2}
    Quick = FALSE
    ConfigIterations = {0, 2}
    WriteMayFail = TRUE
    BaselineArg = TRUE
    Baseline <- MC_Baseline
SPECIFICATION Spec
INVARIANT TypeOK
INVARIANT DescriptiveStatsFaithful
INVARIANT ComparisonsCorrect
INVARIANT RegressionClassification
INVARIANT ResultsFaithful
INVARIANT ReportRankingFaithful
