SPECIFICATION Spec
CONSTANTS
  w1 = w1
  w2 = w2
  r1 = r1
  NoRun = NoRun
  NoVersion = NoVersion
  Runs = {r1}
  Workers = {w1, w2}
  MaxExperiments = 4
  Probes <- OneEach
  Method <- OneEach
  Pauses <- PauseOnce
  Retries = 2
  Inputs = {"valid", "unparseable", "noImageTag", "noCluster"}
  Manifest <- Bounds
  ClusterPlan = "g3-s"
  Version = 84
  Targets <- AnyTarget
INVARIANTS
  TypeOK
  VerdictSound
  StepsInOrder
  NoOverlap
  ErrorsNeverExhaustRetries
  RunsWhatFits
PROPERTIES
  AdvancesOneStep
  VerdictFinal
  KeepsPromise
  EveryRunStarts
  EveryRunDecided
  EveryStepLeft
