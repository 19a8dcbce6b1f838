SPECIFICATION FairSpec
CONSTANTS
    NumItems = 2
    Workers = {w1, w2}
    MaxFaults = 2
INVARIANT TaskTruthful
PROPERTY Settles
