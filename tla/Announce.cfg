SPECIFICATION Spec
CONSTANTS
    Accounts <- MCAccounts
    Main <- MCMain
    Provider = "s"
    Balances <- MCBalances
    Multisigs <- MCMultisigs
    Modifications <- MCModifications
    MaxChanges = 1
CHECK_DEADLOCK FALSE
INVARIANTS
    LockedFirst
    NoOrphanLock
    DeclinedLeavesNothing
    NodesIndependent
    FeeCoversCosignatures
PROPERTIES
    SignedEnough
