SPECIFICATION Spec
CONSTANTS
  Names <- MCNames
  Memory <- MCMemory
  Related <- MCRelated
  Programs <- MCPrograms
INVARIANTS
  SingleAssignment
  DefinitionsDominateUses
  ArgumentsFilled
  UsesAgree
  SwitchReadsIdiom
PROPERTIES
  ConstructionEnds
CHECK_DEADLOCK FALSE
