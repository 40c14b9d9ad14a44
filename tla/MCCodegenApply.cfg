CONSTANTS
  N = 2
  Contents = {a, b}
  Foreign = {x}
  Blocked = Blocked
  Gone = Gone
  MaxApplies = 3
  MaxMishaps = 2
SPECIFICATION Spec
INVARIANT FailureRestores
INVARIANT StatusTellsDisk
INVARIANT RerunNeedsNoForce
PROPERTY OnlyForceOverwrites
SYMMETRY Symmetry
