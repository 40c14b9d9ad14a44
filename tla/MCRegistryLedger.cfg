SPECIFICATION Spec
CONSTANTS
  Artifacts = {"clock"}
  Projects = {"p1"}
  Kinds = {"app", "script"}
  Versions = {"v1", "v2"}
  Scopes = {"read", "write"}
  f1 = f1
  f2 = f2
  f3 = f3
  Files = {f1, f2, f3}
  Revisions <- OneArtifact
  Actors <- MCActors
  MaxHistory = 9
  None = None
SYMMETRY FirstFiles
INVARIANTS
  TypeOK
  AtMostOneRegistered
  ReuseIsConsented
  OpenCeilingFollowsRegistered
  ProjectRowNeedsCeiling
  HistoryExplainsLedger
PROPERTIES
  SignatureIsFinal
  CataloguePromise
CHECK_DEADLOCK FALSE
