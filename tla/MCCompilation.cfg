SPECIFICATION FairSpec
CONSTANTS
  Operation <- MCOperation
  Operand <- MCOperand
  Compilations = {c1, c2}
  Backend = {cpu, acl_cl}
  Models <- MCModels
INVARIANTS TypeOK AcceptedModelsCompile PlanRunsTheGraph TensorsArePrivate WeightsAreFilled
PROPERTY FinishEnds
CHECK_DEADLOCK FALSE
