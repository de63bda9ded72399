SPECIFICATION FairSpec
CONSTANTS
  Clients <- MCClients
  MaxEntries = 3
  OpIndex <- MCOpIndex
INVARIANTS
  TypeOK StagesFindTheirTensors ViewsLieInTheirBase ConstantsSurvive RightWhenUnshared
  ProfiledByOperation EndedUntilTheRingWraps
PROPERTIES
  LogsTheLastEvents ReadyComputes TensorsStay FinishEnds ComputeEnds
CHECK_DEADLOCK FALSE
