CONSTANTS
  People = {requester, approver}
  Requester = requester
  Tiers = {3}
  NamedFrom = 3
  TTL = 1
  NoRow = NoRow
  MaxClock = 2
  MaxWrites = 1
  MaxApprovals = 2
SPECIFICATION Spec
PROPERTY DepartureIsSeen
