CONSTANTS
  Clients = {c1, c2}
  Actors = {ann, bea}
  Definitions = {d1}
  MaxRevision = 3
  MaxFailures = 1
  MaxCrashes = 1
  Partial = Partial
  None = None
SPECIFICATION Spec

PROPERTY HistoryPromise
SYMMETRY Symmetry
