SPECIFICATION ScalingSpec
CONSTANTS
  c1 = c1
  c2 = c2
  Clients = {c1, c2}
  MayRun <- OneChanges
  Regions = 2
  Region = 0
  Faults = TRUE
  Polls = 1
  MaxBrokers = 3
  MaxPartitions = 2
  MaxChanges = 2
INVARIANTS
  TypeOK
  BrokersLeaveFirst
  WaitVerdictSound
  FailoverKeepsRegion
PROPERTIES
  ChangesEnd
  CommandsEnd
