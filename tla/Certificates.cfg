SPECIFICATION Spec
CONSTANTS
    a = a
    b = b
    Nodes <- TwoNodes
    Keys = {1, 2}
    CaDays = 2
    NodeDays = 2
    WarningDays = 1
    MaxDay = 2
SYMMETRY NodesAlike
INVARIANTS
    MetadataTells
PROPERTIES
    RenewalKeepsAuthority
    CreationHeals
    CompletedIsCurrent
