SPECIFICATION Spec
CONSTANTS
  t1 = t1 t2 = t2 k1 = k1 k2 = k2 k3 = k3 k4 = k4 l1 = l1 m1 = m1 None = None
  Thread = {t1, t2}
  Asset = {l1}
  Address = {1, 2}
  CommandId = {k1, k2, k3}
  Commands <- ProgramCommands
  MaxSession = 2
  MaxRevision = 2
  MaxDccRestarts = 1
  MaxMcRestarts = 0
  MaxArrivals = 3
SYMMETRY ThreadSymmetry
 
INVARIANT TokensIssued
 
PROPERTY TokenUnique
CHECK_DEADLOCK FALSE
