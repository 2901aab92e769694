SPECIFICATION Spec
CONSTANTS
    Procs = {p1, p2}
    Jobs = {j1}
    NoProc = NoProc
    MaxTicks = 2
    MiningCanTimeOut = TRUE
    DiskCanFail = TRUE
SYMMETRY Symmetry
INVARIANTS
    DoneHasReport
    NoFalseOutcome
PROPERTIES
    AnswersKeepStanding
    DoneRowIsFinal
CHECK_DEADLOCK TRUE
