SPECIFICATION Spec
CONSTANTS
    n1 = n1
    n2 = n2
    n3 = n3
    Nodes = {n1, n2, n3}
    Voting = {n1, n2}
    Lifetime = 3
    FutureLifetime = 3
    AutoUpdate = FALSE
    LastKnownEpoch = 2
    Lag = 1
    MaxEpoch = 4
    ByHand = {n2}
    ManualFiles <- SomeManualFiles
INVARIANTS
    DisjointFiles
    AtMostThreeActive
    ListedKeysExist
PROPERTIES
    NeverOverwrites
    CoveredAfterUpdate
    AppendsLifetimes
