SPECIFICATION Spec
CONSTANTS
    Poller = Poller
    Loop = Loop
    Callers = {c1}
    QueueSize = 2
    BatchSize = 2
    MaxBlocks = 5
CHECK_DEADLOCK FALSE
INVARIANTS
    BlocksInOrder
    QueueBounded
PROPERTIES
    EveryBlockHandled
    StopsUnlessBlocked
