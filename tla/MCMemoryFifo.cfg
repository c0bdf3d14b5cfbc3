SPECIFICATION Spec
CONSTANTS
    Getters = {g1, g2}
    Loop = Loop
    MaxItems = 4
CHECK_DEADLOCK FALSE
INVARIANTS
    FifoOrder
    NobodyStranded
PROPERTIES
    DrainsUntilThrown
