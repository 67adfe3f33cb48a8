SPECIFICATION ProgressSpec
CONSTANTS
  g1 = g1
  g2 = g2
  w1 = w1
  w2 = w2
  NoPod = NoPod
  Workers = {w1}
  SaaS = TRUE
  N = 3
  Gateways = {g1}
  Scripts <- Experiments
  Faults = TRUE
  Pauses = TRUE
INVARIANTS
  TypeOK
  LostStaysDown
  OneLossAtATime
PROPERTIES
  RoleFound
  AllRecover
