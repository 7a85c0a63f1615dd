CONSTANTS
    Runs = 2
    MaxTicks = 2
    JoinMayTimeOut = FALSE
    PidReuse = TRUE
    Valgrind = TRUE
SPECIFICATION Spec
INVARIANT TypeOK
INVARIANT RunSamplesOwn
INVARIANT MassifPeakFaithful
PROPERTY SessionsRefined
PROPERTY ProfileReturns
