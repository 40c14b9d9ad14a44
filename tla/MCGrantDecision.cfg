CONSTANTS
  People = {requester, approver}
  Requester = requester
  Tiers = {2, 3}
  NamedFrom = 3
  TTL = 1
  NoRow = NoRow
  MaxClock = 2
  MaxWrites = 3
  MaxApprovals = 2
SPECIFICATION Spec
INVARIANT TypeOK
INVARIANT AllowedHeldAtOnce
INVARIANT StaleAtMostTTL
