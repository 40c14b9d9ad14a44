SPECIFICATION FairSpec
CONSTANTS
  Writers = {w1, w2, w3}
  Updates = 1
  LOCK_ATTEMPTS = 2
  MayOverstay = TRUE
  MaxCrashes = 1
  MaxFailures = 1
  None = None
  Partial = Partial
INVARIANTS
  StoreTypeOK
  ExclusiveUntilStolen
  LossNeedsTheft
PROPERTIES
  StoreRecovers
CHECK_DEADLOCK FALSE
