SPECIFICATION Spec
CONSTANTS
  Operation <- MCOperation
  Operand <- MCOperand
  Executions = {e1, e2}
  Plan = {p1, p2}
  Backend = {cpu, acl_cl}
  Cpu = cpu
  Models <- MCModels
PROPERTY ScratchIsKept
CHECK_DEADLOCK FALSE
