CONSTANTS
  Operation = {p1, p2, p3}
  Operand = {x1, x2, x3}
SPECIFICATION FairSpec
INVARIANTS TypeOK VerdictExact NoFalseAlarm OnStackIsTheCallStack
PROPERTY Terminates
CHECK_DEADLOCK FALSE
