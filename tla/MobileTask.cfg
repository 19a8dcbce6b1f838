SPECIFICATION Spec
CONSTANTS
    NumTasks = 2
    d1 = d1
    d2 = d2
    acct = acct
    publish = publish
    confirm = confirm
    operator = operator
    legacy = legacy
    workflow = workflow
    NoAccount = NoAccount
    Devices = {d1}
    DeviceOf <- OneDevice
    AccountOf <- SameAccount
    Actions = {publish, confirm}
    QueueTasks = {}
    SplitTasks = {2}
    Viewers = {}
    LegacyViewers = {}
    Workflows = {}
    ViewerDevice <- NoViewer
    FinishCodes = {"COMMIT_UNKNOWN"}
    CandidateLimit = 2
    MaxFence = 2
    MaxSession = 1
SYMMETRY ActionSymmetry
CHECK_DEADLOCK FALSE
INVARIANTS
    OpenCommitParked
    SingleAuthorization
    RetryOnlyUncommitted
    SettledAgreement
    OccupationOwned
