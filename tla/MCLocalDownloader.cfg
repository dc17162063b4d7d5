SPECIFICATION FairSpec
CONSTANTS
    i1 = i1  i2 = i2  s1 = s1  s2 = s2  panel = panel  bot = bot
    Ids = {i1, i2}
    Slots = {s1, s2}
    Total = 1
    QueueSize = 1
    Deleters = {panel, bot}
    Events = {"add", "control", "delete", "list", "stop", "crash", "fail"}
    MaxEvents = 4
    None = None
INVARIANTS OneExecution CompleteMeansWhole
PROPERTIES ControlsHold
CHECK_DEADLOCK FALSE
