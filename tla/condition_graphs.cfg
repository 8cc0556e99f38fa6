SPECIFICATION FairSpec
CONSTANTS
  Charts <- ConditionCharts
  Env <- ConditionEnv
  CaseOf <- ConditionCaseOf
INVARIANTS
  NothingLeftToReduce
PROPERTIES
  ReducesByContraction
  Terminates
CHECK_DEADLOCK FALSE
