\* Two rule files and two edits.
CONSTANTS
    None = None
    NoText = NoText
    StaleDays = 1
    RecentDays = 1
    FieldTable <- MCFieldTable
    ValueTable <- MCValueTable
    SelectionNames = {"selection", "other", "filter"}
    MaxNesting = 5
    Drafts <- MCDrafts
    Order <- MCOrder
    History <- MCHistory
    FirstEdits <- MCFirstEdits
    LaterEdits <- MCLaterEdits
    Days = {0, 2}
    MaxEdits = 2
SPECIFICATION Spec
INVARIANTS
    TypeOK
    TierIsEvasionCost
    FilterIsNoiseReduction
    ScoredFilesLoad
    EveryFileAccounted
    NeverRevisedIsTrue
    CosmeticsDoNotRefresh
    OnlyBadDatesFail
    AllRulesCounted
    AttentionAgreesWithLabels
    LongestStaleFirst
