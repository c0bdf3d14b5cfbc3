SPECIFICATION Spec
CONSTANTS
  P = 8209
  Word = 8
  Byte = 4
  MEM_SIZE = 5
  CALLSTACK_OFFSET = 3
  AVM_TRACE_SIZE = 13
  UINT32_MAX = 1000
  MaxRows = 20
  Programs <- MCPrograms
  Corrupted <- MCCorrupted
  Scripts <- MCScripts
  CallData <- MCCallData
INVARIANTS
  SatisfiesRelations
  MachineSound
PROPERTIES
  Ends
CHECK_DEADLOCK FALSE
