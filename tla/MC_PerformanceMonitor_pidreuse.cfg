CONSTANTS
    Runs = 2
    MaxTicks = 2
    JoinMayTimeOut = FALSE
    PidReuse = TRUE
    Valgrind = FALSE
SPECIFICATION Spec
INVARIANT ProcessSamplesFromChild
