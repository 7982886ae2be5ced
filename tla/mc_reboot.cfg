SPECIFICATION CoreSpec
CONSTANTS
  e1 = e1 e2 = e2 e3 = e3 c1 = c1 c2 = c2 c3 = c3 a1 = a1 a2 = a2 a3 = a3
  n1 = n1 n2 = n2 cfg1 = cfg1 None = None
  Execution = {e1}
  Command = {c1}
  Asset = {a1}
  Node = {n1}
  Supported = {n1}
  Config = {cfg1}
  Requests <- OneTurnout
  Capacity = 1
  MaxCore = 1
  MaxEpoch = 1
  MaxBoot = 2
  HttpCalls = 0
  Expiring = {}
PROPERTY RebootMakesUncertain
CHECK_DEADLOCK FALSE
