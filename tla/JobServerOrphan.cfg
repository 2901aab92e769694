\* One process, one job, a mining pass that outlasts its budget.
SPECIFICATION Spec
CONSTANTS
    Procs = {p1}
    Jobs = {j1}
    NoProc = NoProc
    MaxTicks = 2
    MiningCanTimeOut = TRUE
    DiskCanFail = FALSE
PROPERTIES
    EndedStaysEnded
CHECK_DEADLOCK TRUE
