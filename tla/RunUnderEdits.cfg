SPECIFICATION Spec
CONSTANTS
  Students = {1, 2}
  Keys = {}
  MaxVersion = 2
  Requests = {r1, r2}
  Routes = {"preEvaluate", "upload", "delete"}
  MinConsensus = 4
  InitialRows = {"executed"}
  RestoreTargets = {}
  Crashes = TRUE
SYMMETRY RequestSymmetry
INVARIANT RunSlotExclusive
INVARIANT EveryTargetAccounted
