SPECIFICATION AutomationSpec
CONSTANTS
    a = a  b = b  x = x  Nobody = Nobody
    Tasks = {a, b, x}
    Foreign = {x}
    Completed <- Bytes
    Policies <- Connecting
    Limits = {1, 2}
    Buffer = 2
    Threshold = 2
    Window = 2
    Cooldown = 1
    Stall = 2
    Slots = {1, 2}
    Loops = {1, 2, 3}
    MaxInbox = 2
    Episodes <- Meetings
    MaxEvents = 5
INVARIANTS AutomationOwned
PROPERTIES Justified AllSettles
CHECK_DEADLOCK FALSE
