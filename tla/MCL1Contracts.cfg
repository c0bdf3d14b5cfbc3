SPECIFICATION Spec
CONSTANTS
    portal = portal
    r1 = r1
    r2 = r2
    i1 = i1
    i2 = i2
    o1 = o1
    txs = txs
    a1 = a1
    Dead = Dead
    NoKey = NoKey
    NoArchive = NoArchive
    ChainId = 1
    Rollups <- MCRollups
    Inboxes <- MCInboxes
    Outboxes <- MCOutboxes
    Messages <- MCMessages
    OutMessages <- MCOutMessages
    TxsHashes <- MCTxsHashes
    Archives <- MCArchives
    ChainIds <- MCChainIds
    MaxCount = 2
    MaxFee = 1
    VersionMod = 4
    BatchSize = 1
    MaxTime = 3
    MaxSends = 1
    MaxBlocks = 2
    MaxVersions = 3
INVARIANTS
    Consistent
    WithdrawnBacked
    ChainLinked
PROPERTIES
    KeepsBridge
SYMMETRY BridgeSymmetry
