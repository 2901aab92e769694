\* One process, one job, nothing fails but the process itself.
SPECIFICATION Spec
CONSTANTS
    Procs = {p1}
    Jobs = {j1}
    NoProc = NoProc
    MaxTicks = 1
    MiningCanTimeOut = FALSE
    DiskCanFail = FALSE
INVARIANTS
    InterruptedHadNotEnded
CHECK_DEADLOCK TRUE
