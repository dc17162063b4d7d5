SPECIFICATION Spec
CONSTANTS
    Requests = {1, 2}
    Fetchers = {1, 2}
    Lanes = 1
    Sizes = {0, 5}
    Window = 4
    Align = 2
    Asks <- SomeAsks
    LinkTTL = 2
    RefreshGap = 1
    MaxRetries = 1
    MaxRefs = 2
    Scenarios <- Meetings
    MaxEvents = 2
INVARIANTS BytesExact NothingStranded
PROPERTIES AllSettles
CHECK_DEADLOCK FALSE
