\* One caller, a user who checks commits out in any order.
SPECIFICATION Spec
CONSTANTS
    Callers = {c1}
    Subdirs <- OneSubdir
    Heads <- MCHeads
    FirstHead = 2
    Commits <- MCHeads
    History <- MCHistory
    Moves <- Anywhere
PROPERTIES
    HitIsKeyed
CHECK_DEADLOCK TRUE
