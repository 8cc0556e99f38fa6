SPECIFICATION StructureSpec
CONSTANTS
  FlowGraphs <- MCBranchGraphs
  MaxLevels <- MCMaxLevels
INVARIANTS
  SwitchesTerminate
  EveryBranchStructured
CHECK_DEADLOCK FALSE
