SPECIFICATION Spec
CONSTANTS
  Operation <- MCOperation
  Operand <- MCOperand
  Compilations = {c1, c2}
  Backend = {cpu, acl_cl}
  Models <- MCModels
INVARIANT ModelMayBeReused
CHECK_DEADLOCK FALSE
