\* Two callers, a HEAD that only moves forward past three commits.
SPECIFICATION FairSpec
CONSTANTS
    Callers = {c1, c2}
    Subdirs <- PlainSubdirs
    Heads <- MCHeads
    FirstHead = 1
    Commits <- MCHeads
    History <- MCHistory
    Moves <- Forwards
INVARIANTS
    TypeOK
    AnswersItsRequest
    NeverStale
PROPERTIES
    CallEnds
CHECK_DEADLOCK TRUE
