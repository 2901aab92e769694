\* Two jobs; two calls under way; a load and one more load, crash or reordering.
CONSTANTS
    j1 = j1
    j2 = j2
    Jobs = {j1, j2}
    NoJob = NoJob
    MaxCalls = 2
    MaxEvents = 2
SPECIFICATION Spec
\* The user may leave the page alone.
CHECK_DEADLOCK FALSE
INVARIANTS
    TypeOK
    ReportsWereDone
    OneLoadOneReport
    OneLoadShowsProgress
    StopIsNotLost
PROPERTIES
    PollingEnds
    FinishedLoadIsShown
    ProgressEnds
