SPECIFICATION Spec
CONSTANTS
  c1 = c1
  c2 = c2
  Clients = {c1, c2}
  MayRun <- AllScale
  Regions = 1
  Region = 0
  Faults = TRUE
  Polls = 2
  MaxBrokers = 2
  MaxPartitions = 1
  MaxChanges = 2
INVARIANTS
  BrokersLeaveFirst
