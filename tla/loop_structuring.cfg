SPECIFICATION LoopSpec
CONSTANTS
  FlowGraphs <- MCLoopGraphs
  MaxLevels <- MCMaxLevels
INVARIANTS
  NaturalLoops
  AllLoopsFound
  ExitsFollowed
CHECK_DEADLOCK FALSE
