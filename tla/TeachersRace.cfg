SPECIFICATION Spec
CONSTANTS
  Students = {1}
  Keys = {}
  MaxVersion = 1
  Requests = {r1, r2}
  Routes = {"reset", "archive", "restore", "import", "delete"}
  MinConsensus = 4
  InitialRows = {"executed"}
  RestoreTargets = {"pending", "unknown"}
  Crashes = FALSE
SYMMETRY RequestSymmetry
INVARIANT TypeOK
CHECK_DEADLOCK FALSE
