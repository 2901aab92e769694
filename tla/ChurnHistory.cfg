\* Four rule names, one name outside, none used twice, four commits.
SPECIFICATION Spec
CONSTANTS
    Rules = {a, b, c, d}
    Others = {x}
    NoName = NoName
    Days = {0, 1}
    StaleDays = 0
    Share <- TwoThirds
    MaxCommits = 4
    Reuse = FALSE
SYMMETRY RuleSymmetry
INVARIANTS
    TypeOK
    TouchesFollowTheFile
    EverRevisedIsTrue
    BehaviorIsNotFresher
CHECK_DEADLOCK TRUE
