SPECIFICATION Spec
CONSTANTS
    w1 = w1  w2 = w2  Workers = {w1, w2}  MaxRequests = 9
    Services = {"wechat", "queue", "im", "orders", "listings", "maintenance", "scripts",
                "apk", "recipes", "lock", "debug", "accounts", "control", "install", "driver",
                "live", "slice", "identity", "companion", "packages", "drafts"}
    Budget <- MCBudget
    d1 = d1  Drafts = {d1}
    QueueLength = 2  MaxAttempts = 2
    Msgs = {1, 2}  RuleMsgs = {2}  LegacyMsgs = {}  QueueCap = 1  MaxReclass = 2
    k1 = k1  o1 = o1  o2 = o2  r1 = r1  r2 = r2  none = none
    OrderKeys = {k1}  Statuses = {o1, o2}  OrderTasks = {1, 2}  MaxScreen = 2  Runs = {r1, r2}  None = none
    i1 = i1  i2 = i2  h1 = h1  h2 = h2  Items = {i1, i2}  Hashes = {h1, h2}  MaxPush = 3
    a1 = a1  a2 = a2  RunTargets = 2  Approvals = {a1, a2}
    MaxEdits = 2
    Releases = {1, 2}  MaxSessions = 2
    x1 = x1  key1 = key1  key2 = key2  key3 = key3
    Recipe = {1, 2}  Slots = {x1}  ActionKeys = {key1, key2, key3}  Configs = {"f1", "f2"}
    Ttls = {1, 2}  MaxTime = 3
    s1 = s1  s2 = s2  Sessions = {s1, s2}  DebugTtl = 2  MaxClock = 4
    ExternalIds = {"x", "y"}  Contents = {0, 1, 2}  Files <- MCFiles  MaxWrites = 2  PageSize = 1
    c1 = c1  c2 = c2  phone = phone  Accts = {c1, c2}  Devs = {phone}  MaxTasks = 2
    FeedTasks = {1}  MaxOpen = 2  MaxKeep = 3  MaxInline = 2  PullLimit = 1
    Beats = 2  MaxVersion = 3
    MaxDriverSessions = 2  MaxFence = 2  LockTtl = 2
    LiveIds = {"s1", "s2"}  LegacyIds = {"g1", "g2"}  MaxSeq = 2  RateLimit = 1  DropAfter = 2
    Codes = {"c1", "c2"}  Apps = {"p1", "p2"}  Profiles <- MCProfiles
    EdgeCodes = {"e1", "e2"}  MaxAsks = 1  MaxCommands = 2
    Products = {"p1", "p2"}  Spus = {"spu1", "spu2"}  Prices = {1, 2}  Keys = {"k1"}  ContentItems = {"c1"}
    Groups = {"g1"}  Seeded = {"p1"}  SpuOf <- MCSpuOf  Digests = {"b1", "b2"}  RenderOf <- MCRenderOf
    Uploads = {"u1"}  Derivs = {"d1"}  MGroups = {"m1"}  TaskKeys = {"t1"}  Absent = "absent"
SYMMETRY MCSymmetry
INVARIANTS
    SubmittedOnce QueueHonest InboxTrue OrdersTrue ListingHistory RunFannedOut ScriptGated
    RolloutTruthful RegistrySound LockExclusive DebugFenced BindingHonoured
    SkipsExplained WindowAccountable DriverAccountable LiveSingleWriter IdentitySound
    CompanionAccountable
CHECK_DEADLOCK FALSE
