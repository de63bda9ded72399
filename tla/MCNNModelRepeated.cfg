SPECIFICATION Spec
CONSTANTS
  MaxOperands = 4
  MaxOperations = 2
  MaxInserted = 1
  MaxIdentified = 2
  InputLists <- MCInputLists
  OutputLists <- MCOutputLists
INVARIANT DocumentedModelsFinish
CHECK_DEADLOCK FALSE
