SPECIFICATION QueueFairSpec
CONSTANTS
    j1 = j1  j2 = j2
    Ids = {j1, j2}
    Routed = {j1}
    JobMessage <- Messages
    Policies <- TwoPolicies
    Events = {"enqueue", "control", "reconfigure", "shutdown", "crash", "expire", "canceled", "fault"}
    MaxEvents = 4
    NoJob = NoJob
INVARIANTS WorkerTracksStore RecordsTrue DuplicatesExcused
PROPERTIES ControlsHold
