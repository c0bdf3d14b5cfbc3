SPECIFICATION Spec
CONSTANTS
  Depth = 3
  Values = {0, 3, 4}
  InitialSize = 2
  Kinds = {"plain", "nullifier"}
  MaxUpdates = 3
  MaxCommits = 2
INVARIANTS
  TreesAgree
  NullifiersSound
CHECK_DEADLOCK FALSE
