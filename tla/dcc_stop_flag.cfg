SPECIFICATION Spec
CONSTANTS
  t1 = t1 t2 = t2 t3 = t3 t4 = t4 l1 = l1 l2 = l2
  Watchdog = Watchdog None = None
  Thread = {t1}
  Asset = {l1}
  Commands <- DriveCommands
  QueueCapacity = 1
  MaxCore = 1
  MaxLosses = 2
  SerialMayFail = FALSE
INVARIANT WatchdogStops
CHECK_DEADLOCK FALSE
