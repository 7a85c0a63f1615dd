CONSTANTS
    Runs = 1
    MaxTicks = 2
    JoinMayTimeOut = FALSE
    PidReuse = FALSE
    Valgrind = FALSE
SPECIFICATION Spec
INVARIANT ChildTerminatedOnReturn
