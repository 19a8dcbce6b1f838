SPECIFICATION FairSpec
CONSTANTS
    NumDevices = 2
    Workers = {w1, w2}
    MaxPeriods = 2
    Kind = "RECURRING"
    Policy = "COALESCE_LATEST"
    MaxTicks = 2
    MaxFaults = 1
    MaxFires = 1
INVARIANT OccurrencesSound
PROPERTIES
    PeriodsDecided
