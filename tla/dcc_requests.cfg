SPECIFICATION FairSpec
CONSTANTS
  t1 = t1 t2 = t2 t3 = t3 t4 = t4 l1 = l1 l2 = l2
  Watchdog = Watchdog None = None
  Thread = {t1, t2}
  Asset = {l1, l2}
  Commands <- CrowdCommands
  QueueCapacity = 1
  MaxCore = 1
  MaxLosses = 1
  SerialMayFail = TRUE
INVARIANT SlotsBacked
INVARIANT OneStopPerLoss
 
PROPERTY RequestsAnswered
CHECK_DEADLOCK FALSE
