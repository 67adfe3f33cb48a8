SPECIFICATION ProgressSpec
CONSTANTS
  c1 = c1
  c2 = c2
  N = 3
  Clients = {c1}
  Ops <- AllOps
  MaxCommands = 3
  Faults = TRUE
  Beside = FALSE
INVARIANTS
  TypeOK
  NoMixture
PROPERTIES
  RestoreSound
  CommandsEnd
  SetupTakesEffect
  RestoreBringsBack
