SPECIFICATION Spec
CONSTANTS
    Accounts <- MCAccounts
    Main <- MCMain
    Provider = "s"
    Balances <- MCBalances
    Multisigs <- MCMultisigs
    Modifications <- MCModifications
    MaxChanges = 0
CHECK_DEADLOCK FALSE
INVARIANTS
    ValidatedForMain
