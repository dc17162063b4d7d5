SPECIFICATION FairSpec
CONSTANTS
    c1 = c1  c2 = c2  c3 = c3  mA = mA  mB = mB  mC = mC  mD = mD
    Calls = {c1, c2, c3}
    Messages = {mA, mB, mC, mD}
    Submissions <- Mixed
    Listening <- TwoSources
    ByRule = {mB}
    Targets = {tX, tY}
    MaxFaults = 1
    MaxExpiry = 1
    MaxLapses = 1
    None = None
INVARIANTS DrainedOnce StoredExactly
PROPERTIES QuietAfterStop CallsReturn
CHECK_DEADLOCK FALSE
