SPECIFICATION Spec
CONSTANTS
  Atoms <- MCAtoms
  LowLevel <- MCLowLevel
  Env <- MCEnv
  MaxOperands = 5
INVARIANTS
  Describes
  TestsInOrder
CHECK_DEADLOCK FALSE
