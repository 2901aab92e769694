\* Two processes on the one per-user database, one job, nothing fails.
SPECIFICATION Spec
CONSTANTS
    Procs = {p1, p2}
    Jobs = {j1}
    NoProc = NoProc
    MaxTicks = 1
    MiningCanTimeOut = FALSE
    DiskCanFail = FALSE
INVARIANTS
    InterruptedIsDead
CHECK_DEADLOCK TRUE
