CONSTANTS
  Operation = {p1, p2, p3}
  Operand = {x1, x2, x3}
SPECIFICATION FairSpec
INVARIANTS TypeOK DefsBeforeUses EveryOperationOnce
PROPERTY ImplementsTopologicalOrder
CHECK_DEADLOCK FALSE
