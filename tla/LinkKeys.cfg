SPECIFICATION Spec
CONSTANTS
    Links <- MCLinks
    OwnKeys <- MCOwnKeys
    LastKnownEpoch = 1
    MaxEpoch = 2
    MaxChanges = 1
INVARIANTS
    UnlinkedIsReplaced
    NoConsentNoRemoval
    LinkIsIdempotent
PROPERTIES
    RefusedWithCause
    FilesLinked
    NothingLeftLinked
    ChangesAsPromised
