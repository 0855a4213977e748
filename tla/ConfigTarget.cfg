SPECIFICATION Spec
CONSTANTS
    Names = {"a", "b"}
    Networks <- SomeNetworks
INVARIANTS
    NodesMatch
    DataOfSeed
PROPERTIES
    CompletedIsConsistent
    KeysKept
    StartBootsPreset
    NemesisOfNodes
