SPECIFICATION Spec
CONSTANTS
  g1 = g1
  g2 = g2
  w1 = w1
  w2 = w2
  NoPod = NoPod
  Workers = {}
  SaaS = FALSE
  N = 2
  Gateways = {g1, g2}
  Scripts <- GatewayTwice
  Faults = FALSE
  Pauses = FALSE
INVARIANTS
  GatewayOnly
