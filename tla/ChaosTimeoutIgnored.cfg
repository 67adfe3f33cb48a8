SPECIFICATION TimerSpec
CONSTANTS
  w1 = w1
  w2 = w2
  r1 = r1
  NoRun = NoRun
  NoVersion = NoVersion
  Runs = {r1}
  Workers = {w1, w2}
  MaxExperiments = 1
  Probes <- OneEach
  Method <- OneEach
  Pauses <- PauseOnce
  Retries = 2
  Inputs = {"valid"}
  Manifest <- Unbounded
  ClusterPlan = "g3-s"
  Version = 84
  Targets <- NoTarget
PROPERTIES
  CommandStopsAtTimeout
