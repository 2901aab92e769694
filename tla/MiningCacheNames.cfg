\* One caller, a HEAD that never moves, two directories of one file name.
SPECIFICATION Spec
CONSTANTS
    Callers = {c1}
    Subdirs <- LookalikeSubdirs
    Heads <- MCHeads
    FirstHead = 2
    Commits <- MCHeads
    History <- MCHistory
    Moves <- Nowhere
PROPERTIES
    HitIsKeyed
CHECK_DEADLOCK TRUE
