SPECIFICATION Spec
CONSTANTS
  c1 = c1
  c2 = c2
  N = 1
  Clients = {c1}
  Ops <- AllOps
  MaxCommands = 2
  Faults = FALSE
  Beside = FALSE
PROPERTIES
  NeverSetBack
