SPECIFICATION Spec
CONSTANTS
  alpha = alpha
  beta = beta
  a1 = a1
  a2 = a2
  b1 = b1
  Processes = {alpha, beta}
  Handlers = {a1, a2, b1}
  home <- TwoServers
  People = {ann, bob}
  Initiator = ann
  Gates = 2
  MAX_RUNS = 2
  MaxRevision = 2
  MaxCrashes = 1
  MaxMishaps = 1
  None = None
SYMMETRY SameServer
INVARIANTS
  TypeOK
  PartsStartOnce
  ExecutionIsDecided
  OneOpenRun
  SnapshotWhenQuiet
  RunningIsAttended
PROPERTIES
  ClosedStaysClosed
CHECK_DEADLOCK FALSE
