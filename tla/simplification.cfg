SPECIFICATION Spec
CONSTANTS
  WordBits = 4
  Tasks <- MCTasks
  Valuations <- MCValuations
INVARIANTS
  SimplificationPreserves
CHECK_DEADLOCK FALSE
