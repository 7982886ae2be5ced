SPECIFICATION Spec
CONSTANTS
  t1 = t1 t2 = t2 k1 = k1 k2 = k2 k3 = k3 k4 = k4 l1 = l1 m1 = m1 None = None
  Thread = {t1, t2}
  Asset = {l1, m1}
  Address = {1}
  CommandId = {k1, k2, k3, k4}
  Commands <- OtherCommands
  MaxSession = 2
  MaxRevision = 2
  MaxDccRestarts = 0
  MaxMcRestarts = 1
  MaxArrivals = 2
SYMMETRY ThreadSymmetry
INVARIANT ExecutedOnce
INVARIANT JournalTruthful
PROPERTY FinalResult
CHECK_DEADLOCK FALSE
