SPECIFICATION FairSpec
CONSTANTS
    MaxRestarts = 2
    MaxCrashes = 3
    MaxStops = 1
INVARIANTS
    LaunchedClean
    FlagRaised
PROPERTIES
    ComesBack
