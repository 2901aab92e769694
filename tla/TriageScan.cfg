\* Three rule files and two edits.
CONSTANTS
    None = None
    NoText = NoText
    StaleDays = 1
    RecentDays = 1
    FieldTable <- MCFieldTable
    ValueTable <- MCValueTable
    SelectionNames = {"selection", "other", "filter"}
    MaxNesting = 5
    Drafts <- MCThreeDrafts
    Order <- MCThreeOrder
    History <- MCThreeHistory
    FirstEdits <- MCThreeEdits
    LaterEdits <- MCNoEdits
    Days = {0, 1}
    MaxEdits = 2
SPECIFICATION Spec
INVARIANT
    NoFileKillsTheBatch
