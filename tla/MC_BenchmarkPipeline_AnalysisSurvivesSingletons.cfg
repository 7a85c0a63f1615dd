CONSTANTS
    ConfigImpls <- MC_Impls
    ImplementationsArg = {}
    Lambdust = "lambdust"
    Available <- MC_Available
    CategoriesArg = {}
    ConfigCategories <- MC_Categories
    GenerateReport = TRUE
    Durations = {1, 2}
    Quick = FALSE
    ConfigIterations = {2}
    WriteMayFail = FALSE
    BaselineArg = TRUE
    Baseline <- MC_Baseline
SPECIFICATION Spec
INVARIANT AnalysisSurvivesSingletons
