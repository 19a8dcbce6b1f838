SPECIFICATION Spec
CONSTANTS
    Commands = {c1, c2}
    Sessions = {}
    MaxCloud = 3
    MaxFaults = 1
    Fence <- OwnLeases
INVARIANT LinkSound
PROPERTIES
    NewerLeaseWins
    EdgeToCloud
CHECK_DEADLOCK FALSE
