SPECIFICATION CodeSpec
CONSTANTS
  FlowGraphs <- MCCodeGraphs
  MaxLevels <- MCMaxLevels
INVARIANTS
  GotosLeadToBlocks
  DecidedOnce
  TextFollowsGraph
CHECK_DEADLOCK FALSE
