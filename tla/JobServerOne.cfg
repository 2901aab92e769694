\* One process, two jobs, mining within its budget, row writes that may fail.
SPECIFICATION FairSpec
CONSTANTS
    Procs = {p1}
    Jobs = {j1, j2}
    NoProc = NoProc
    MaxTicks = 1
    MiningCanTimeOut = FALSE
    DiskCanFail = TRUE
INVARIANTS
    TypeOK
    RunningHasThread
    StageIsRecorded
PROPERTIES
    ImplementsLifecycle
    JobSettles
CHECK_DEADLOCK TRUE
