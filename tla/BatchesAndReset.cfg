SPECIFICATION Spec
CONSTANTS
  Students = {1}
  Keys = {}
  MaxVersion = 1
  Requests = {r1, r2, r3}
  Routes = {"process", "preEvaluate", "resetPreEval"}
  MinConsensus = 4
  InitialRows = {"pending", "error"}
  RestoreTargets = {}
  Crashes = TRUE
SYMMETRY RequestSymmetry
INVARIANT SectionsQueued
INVARIANT MetadataFresh
INVARIANT ResultsFresh
INVARIANT PreEvaluatedHasEnvelope
PROPERTY RowsFollowLifecycle
