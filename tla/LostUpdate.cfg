SPECIFICATION Spec
CONSTANTS
  Students = {1, 2}
  Keys = {k}
  MaxVersion = 1
  Requests = {r1, r2}
  Routes = {"process", "save"}
  MinConsensus = 4
  InitialRows = {"pending", "executed"}
  RestoreTargets = {}
  Crashes = FALSE
SYMMETRY RequestSymmetry
PROPERTY GradingOnlyCleared
