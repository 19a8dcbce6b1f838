SPECIFICATION FairSpec
CONSTANTS
    Commands = {}
    Sessions = {s1}
    MaxCloud = 4
    MaxFaults = 1
    Fence <- OwnLeases
PROPERTIES
    RevocationHolds
    EventuallyDrained
CHECK_DEADLOCK FALSE
