SPECIFICATION Spec
CONSTANTS
  Charts <- SmallCharts
  Env <- SmallEnv
  CaseOf <- SmallCaseOf
INVARIANTS
  TypeOK
  GraphConsistent
  StaysDefined
CHECK_DEADLOCK FALSE
