SPECIFICATION Spec
CONSTANTS
    u1 = u1  u2 = u2  None = None
    Lifecycle = lifecycle
    Users = {u1, u2}
    Governors = {zerospeed}
    Observers = {o1}
    Gids = {1, 2, 3}
    Scenarios <- Meetings
CHECK_DEADLOCK FALSE
INVARIANTS OneControl GoneStaysGone
PROPERTIES ControlsPrevail
