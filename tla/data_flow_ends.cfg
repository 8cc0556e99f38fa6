SPECIFICATION Spec
CHECK_DEADLOCK FALSE
CONSTANTS
  Kind <- MCKind
  Address <- MCAddress
  Related <- MCRelated
  Width <- MCWidth
  StackPointer = 90
  Programs <- MCFewPrograms
  MaxPath = 5
  ReturnRegister = 60
  MemoryMirror = 900
  CopyName <- MCCopyName
  FirstClassName = 1000
PROPERTIES
  TranslationEnds
