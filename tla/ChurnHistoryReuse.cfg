\* Three rule names that may be used twice.
SPECIFICATION Spec
CONSTANTS
    Rules = {a, b, c}
    Others = {x}
    NoName = NoName
    Days = {0}
    StaleDays = 0
    Share <- TwoThirds
    MaxCommits = 4
    Reuse = TRUE
SYMMETRY RuleSymmetry
INVARIANTS
    UnknownMeansExcluded
CHECK_DEADLOCK TRUE
