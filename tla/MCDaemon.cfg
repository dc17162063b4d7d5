SPECIFICATION ProcessSpec
CONSTANTS
    Calls = {1, 2}
    Edits <- SomeEdits
    OldFiles <- Files
    Releases <- Published
    Latest = "new"
    MaxRestarts = 1
    Scenarios <- Meetings
    MaxOutside = 4
INVARIANTS RequestsHonoured ProcessSound
PROPERTIES AllSettles
CHECK_DEADLOCK FALSE
