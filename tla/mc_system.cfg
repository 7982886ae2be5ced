SPECIFICATION FairSystemSpec
CONSTANTS
  e1 = e1 e2 = e2 e3 = e3 c1 = c1 c2 = c2 c3 = c3 a1 = a1 a2 = a2 a3 = a3
  n1 = n1 n2 = n2 cfg1 = cfg1 None = None
  Execution = {e1, e2, e3}
  Command = {c1, c2, c3}
  Asset = {a1, a2, a3}
  Node = {n1, n2}
  Supported = {n1, n2}
  Config = {cfg1}
  Requests <- LayoutRequests
  DoubleSlip = {a1}
  DedupSize = 1
  Installed <- OneConfiguration
  Capacity = 2
  MaxCore = 1
  MaxEpoch = 2
  MaxBoot = 2
  HttpCalls = 0
  Expiring = {e1, e2}
  Scenarios <- LayoutScenarios
INVARIANT SystemTypeOK
INVARIANT ReleasedAtRest
INVARIANT MotionExclusive
INVARIANT CompletedTruthful
INVARIANT AdmissionFenced
INVARIANT OneOutstandingPerAsset
INVARIANT CapacityRespected
INVARIANT PermitBacked
 
 
PROPERTY DueLeavesQueue
PROPERTY ServiceImplemented
CHECK_DEADLOCK FALSE
