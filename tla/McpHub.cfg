SPECIFICATION FairSpec
CONSTANTS
    MaxSlots = 2
    Connects = {o1, o2}
    Calls = {c1, c2}
    Threshold = 2
    MaxRestarts = 1
    MaxInFlight = 2
CHECK_DEADLOCK FALSE
INVARIANTS OneProcess NothingLeft
PROPERTIES ImplementsConnection ShutdownEnds
