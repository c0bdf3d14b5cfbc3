SPECIFICATION Spec
CONSTANTS
    Messages <- MCOneMessage
    Lags = FALSE
    MaxHeight = 3
    MaxBlocks = 2
    MaxCopies = 2
    MaxExtended = 2
    MaxCrashes = 1
INVARIANTS
    CrashSafe
    ReadOnce
PROPERTIES
    CatchesUpUnlessAhead
