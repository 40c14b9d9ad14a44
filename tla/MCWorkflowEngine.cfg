CONSTANTS
  Graphs <- MCGraphs
  Data = {"yes", "no"}
  Runs = {r1, r2}
  Started = {r1}
  Resumes = {u1, u2}
  People = {ann, bea}
  Initiator = ann
  maxSteps = 6
  MaxRestarts = 1
  None = None
SPECIFICATION Spec
INVARIANTS TypeOK OutputIsApproved EffectsOnce 
CHECK_DEADLOCK FALSE
SYMMETRY Symmetry
