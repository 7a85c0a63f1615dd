CONSTANTS
    Runs = 2
    MaxTicks = 2
    JoinMayTimeOut = TRUE
    PidReuse = FALSE
    Valgrind = FALSE
SPECIFICATION Spec
INVARIANT RunSamplesOwn
