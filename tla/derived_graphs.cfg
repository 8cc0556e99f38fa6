SPECIFICATION FairSpec
CONSTANTS
  FlowGraphs <- MCFlowGraphs
  MaxLevels = 5
INVARIANTS
  TypeOK
  IntervalsDisjoint
  HeaderDominates
  CollapsesProgram
  LimitTellsReducible
PROPERTIES
  LevelsShrink
  EndsInLimitGraph
CHECK_DEADLOCK FALSE
