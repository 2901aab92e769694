\* One process, mining that may time out and leave its worker behind, two
\* callbacks per stage, and row writes that succeed.
SPECIFICATION Spec
CONSTANTS
    Procs = {p1}
    Jobs = {j1}
    NoProc = NoProc
    MaxTicks = 2
    MiningCanTimeOut = TRUE
    DiskCanFail = FALSE
INVARIANTS
    StageIsRecorded
CHECK_DEADLOCK TRUE
