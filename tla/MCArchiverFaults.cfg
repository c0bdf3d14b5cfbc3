SPECIFICATION Spec
CONSTANTS
    Messages <- MCMessages
    Lags = TRUE
    MaxHeight = 3
    MaxBlocks = 1
    MaxCopies = 1
    MaxExtended = 2
    MaxCrashes = 1
INVARIANTS
    StoreSane
    NoGhostPending
