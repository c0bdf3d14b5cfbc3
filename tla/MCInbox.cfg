SPECIFICATION Spec
CONSTANTS
    portal = portal
    sequencer = sequencer
    NoKey = NoKey
    Accounts <- MCAccounts
    Messages <- MCMessages
    Versions <- MCVersions
    MaxCount = 2
    MaxFee = 2
    VersionMod = 4
    BatchSize = 2
    MaxTime = 4
    MaxSends = 2
    MaxDepth = 2
INVARIANTS
    TypeOK
    Solvency
    EachCopyOnce
    ExactlyOneExit
PROPERTIES
    CancelledIsFinal
