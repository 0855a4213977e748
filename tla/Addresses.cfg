SPECIFICATION Spec
CONSTANTS
    NodeKinds = {"Main", "Transport", "VRF"}
    PrivateNetwork = TRUE
    CustomPresets <- SomeCustoms
    UserKeys = 2
    MaxGenerations = 2
    Passwords = {1, 2}
    Requests <- SmallRequests
INVARIANTS
    PromptsAnswerable
    BalancesAsAsked
PROPERTIES
    NeverPlainAgain
    StoredKept
    CompletedUpgrades
