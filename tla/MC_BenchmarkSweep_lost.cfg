CONSTANTS
    Impls <- MC_Impls
    Lambdust = "lambdust"
    Available <- MC_Available
    Cases <- MC_Cases
    Durations = {1, 2}
    Quick = FALSE
    ConfigIterations = {0, 2}
    WriteMayFail = TRUE
SPECIFICATION Spec
INVARIANT ResultsKept
