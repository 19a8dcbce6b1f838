SPECIFICATION Spec
CONSTANTS
    NumTasks = 2
    d1 = d1
    d2 = d2
    acct = acct
    publish = publish
    confirm = confirm
    operator = operator
    legacy = legacy
    workflow = workflow
    NoAccount = NoAccount
    Devices = {d1}
    DeviceOf <- OneDevice
    AccountOf <- SameAccount
    Actions = {publish}
    QueueTasks = {}
    SplitTasks = {}
    Viewers = {}
    LegacyViewers = {}
    Workflows = {}
    ViewerDevice <- NoViewer
    FinishCodes = {"SAFE"}
    CandidateLimit = 2
    MaxFence = 2
    MaxSession = 0
CHECK_DEADLOCK FALSE
PROPERTY
    UnknownNeverRedispatched
