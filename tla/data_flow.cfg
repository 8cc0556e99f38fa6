SPECIFICATION Spec
CHECK_DEADLOCK FALSE
CONSTANTS
  Kind <- MCKind
  Address <- MCAddress
  Related <- MCRelated
  Width <- MCWidth
  StackPointer = 90
  Programs <- MCPrograms
  MaxPath = 5
  ReturnRegister = 60
  MemoryMirror = 900
  CopyName <- MCCopyName
  FirstClassName = 1000
INVARIANTS
  TracePreserved
  UsesMapExact
  NothingDead
  ArgumentsFound
  LivenessRight
PROPERTIES
  InterferenceFree
  EliminationPreserves
