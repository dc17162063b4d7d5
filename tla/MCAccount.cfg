SPECIFICATION FairSpec
CONSTANTS
    w = w  p = p
    Users = {w, p}
    Watcher = w
    Slots = {1, 2}
    InboxSize = 1
    Scenarios <- Meetings
    MaxEvents = 3
    MaxPrompts = 2
INVARIANTS TransportOwned SessionIsLatest AnswersPrompt
PROPERTIES OwnerSettles
CHECK_DEADLOCK FALSE
