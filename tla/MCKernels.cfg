SPECIFICATION Spec
CONSTANTS
  Inputs <- MCInputs
  Items = 2
  Groups = 2
  Bits = 1
  TotalBits = 4
  MaxRuns = 1
  Jobs <- MCJobs
  VecSize = 2
  MaxRounds = 2
  Models <- MCModels
  MaxComputes = 2
  StaticBuffer = 35
INVARIANTS TypeOK TopKOfEachRow KernelIsRight InferenceIsRight
PROPERTIES TopKEnds
