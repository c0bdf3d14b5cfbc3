SPECIFICATION Spec
CONSTANTS
  Depth = 3
  InitialSize = 4
  NumThreads = 3
  MaxBatches = 3
  Batches <- MCBatches
INVARIANTS
  TreeSound
  NoDataRace
  PathsSequential
PROPERTIES
  BatchCompletes
CHECK_DEADLOCK FALSE
