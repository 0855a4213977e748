SPECIFICATION Spec
CONSTANTS
    MaxRestarts = 2
    MaxCrashes = 1
    MaxStops = 0
INVARIANTS
    RecoveryAlone
