SPECIFICATION Spec
CONSTANTS
    NumTasks = 1
    d1 = d1
    d2 = d2
    acct = acct
    publish = publish
    confirm = confirm
    operator = operator
    legacy = legacy
    workflow = workflow
    NoAccount = NoAccount
    Devices = {d1}
    DeviceOf <- OneTask
    AccountOf <- OneAccount
    Actions = {publish}
    QueueTasks = {1}
    SplitTasks = {}
    Viewers = {operator, legacy}
    LegacyViewers = {legacy}
    Workflows = {workflow}
    ViewerDevice <- TwoViewers
    FinishCodes = {"SAFE"}
    CandidateLimit = 2
    MaxFence = 4
    MaxSession = 2
CHECK_DEADLOCK FALSE
INVARIANT OccupationOwned
