SPECIFICATION Spec
CONSTANTS
  Sessions <- MCSessions
  Ranges = {1, 4}
  NumBits = {2, 4}
  LimbBits = 1
INVARIANTS
  BuilderSound
  ChecksExactly
PROPERTIES
  CheckRestores
