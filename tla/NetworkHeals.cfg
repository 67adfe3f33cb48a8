SPECIFICATION HealSpec
CONSTANTS
  b1 = b1
  b2 = b2
  b3 = b3
  g1 = g1
  c1 = c1
  NoPod = NoPod
  Brokers = {b1, b2}
  Gateways = {g1}
  Clients = {c1}
  Settled = FALSE
  Faults = TRUE
  Restartable = {}
  MaxDisconnects = 1
  MaxRestarts = 1
  MaxContainers = 2
PROPERTIES
  BrokersHeal
