SPECIFICATION Spec
CONSTANTS
    n1 = n1
    n2 = n2
    n3 = n3
    Nodes = {n1}
    Voting = {n1}
    Lifetime = 3
    FutureLifetime = 2
    AutoUpdate = FALSE
    LastKnownEpoch = 1
    Lag = 0
    MaxEpoch = 5
    ByHand = {n1}
    ManualFiles <- SomeManualFiles
PROPERTIES
    KeepsFilesByHand
