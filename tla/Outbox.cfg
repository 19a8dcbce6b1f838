SPECIFICATION FairSpec
CONSTANTS
    NoOwner = NoOwner
    NumEvents = 3
    NumSinks = 2
    Dispatchers = {p1, p2}
    BatchSize = 2
    Poison = {1}
    MaxFailures = 1
    MaxOverruns = 2
PROPERTIES
    AtLeastOnce
    ClaimReleasedByHolder
    HealthyDelivered
