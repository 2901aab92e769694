\* One job, one call under way; two loads or crashes.
CONSTANTS
    j1 = j1
    Jobs = {j1}
    NoJob = NoJob
    MaxCalls = 1
    MaxEvents = 2
SPECIFICATION Spec
\* The user may leave the page alone.
CHECK_DEADLOCK FALSE
PROPERTY
    EveryEndIsSurfaced
