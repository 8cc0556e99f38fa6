SPECIFICATION Spec
CONSTANTS
  WordBits = 3
  Tasks <- MCTasks
INVARIANTS
  ComputesTheSame
  BranchesTheSame
CHECK_DEADLOCK FALSE
