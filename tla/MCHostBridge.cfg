CONSTANTS
  Requests = {r1, r2}
  Attempts = {a1, a2}
  maxInvocations = 1
  MaxChanges = 1
SPECIFICATION Spec
INVARIANT TypeOK
INVARIANT FreshAuthority
INVARIANT UsedOnce
SYMMETRY Symmetry
CHECK_DEADLOCK FALSE
