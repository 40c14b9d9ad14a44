SPECIFICATION StoreSpec
CONSTANTS
  Writers = {w1, w2, w3}
  Updates = 1
  LOCK_ATTEMPTS = 2
  MayOverstay = FALSE
  MaxCrashes = 1
  MaxFailures = 0
  None = None
  Partial = Partial
INVARIANTS
  MissedLockIsLoud
CHECK_DEADLOCK FALSE
