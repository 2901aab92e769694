\* Three rule files, one with a version that is broken and mended.
CONSTANTS
    None = None
    NoText = NoText
    StaleDays = 1
    RecentDays = 1
    FieldTable <- MCFieldTable
    ValueTable <- MCValueTable
    SelectionNames = {"selection", "other", "filter"}
    MaxNesting = 5
    Drafts <- MCThreeDrafts
    Order <- MCThreeOrder
    History <- MCMendedHistory
    FirstEdits <- MCNoEdits
    LaterEdits <- MCNoEdits
    Days = {0, 1}
    MaxEdits = 0
SPECIFICATION Spec
INVARIANT
    FaultsAreIsolated
