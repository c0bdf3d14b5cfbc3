SPECIFICATION Spec
CONSTANTS
  Strategies = {"mutex", "atomic", "queued", "moody", "spawning"}
  NumCpus = 3
  MaxCalls = 2
  MaxIterations = 3
  DirectSizes = {0, 2}
  LoopSizes = {1, 4}
  InlineUpTo = 1
INVARIANTS
  CountersSound
  PointsOnce
PROPERTIES
  Terminates
  ImplementsParallelFor
CHECK_DEADLOCK FALSE
