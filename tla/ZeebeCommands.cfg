SPECIFICATION ProgressSpec
CONSTANTS
  c1 = c1
  c2 = c2
  Clients = {c1, c2}
  Commands <- AllCommands
  MaxPartitions = 2
  KeyBits = 3
  MaxInstances = 2
  MaxCommands = 2
  Faults = TRUE
INVARIANTS
  TypeOK
PROPERTIES
  VerifiedSound
  PublishReaches
  CommandsEnd
