SPECIFICATION FairSpec
CONSTANTS
    p1 = p1
    t1 = t1
    t2 = t2
    d1 = d1
    Plans = {p1}
    Targets = {t1, t2}
    Devices = {d1}
    Order <- MCOrder
    DeviceOf <- MCDeviceOf
    Approval = {p1}
    Confirm = {t2}
    MaxRuns <- MCMaxRuns
    MaxFence = 2
INVARIANT CommitSafe
PROPERTY PlanRunEnds
CHECK_DEADLOCK FALSE
