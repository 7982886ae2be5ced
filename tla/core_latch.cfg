SPECIFICATION Spec
CONSTANTS
  t1 = t1 t2 = t2 k1 = k1 k2 = k2 k3 = k3 k4 = k4 l1 = l1 m1 = m1 None = None
  Thread = {t1, t2}
  Asset = {l1}
  Address = {1}
  CommandId = {k1, k2}
  Commands <- LatchCommands
  MaxSession = 1
  MaxRevision = 1
  MaxDccRestarts = 0
  MaxMcRestarts = 0
  MaxArrivals = 2
SYMMETRY ThreadSymmetry
PROPERTY NoMotionWhileLatched
CHECK_DEADLOCK FALSE
