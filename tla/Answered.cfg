SPECIFICATION FairSpec
CONSTANTS
  Students = {1}
  Keys = {}
  MaxVersion = 1
  Requests = {r1, r2}
  Routes = {"process", "preEvaluate", "resetPreEval"}
  MinConsensus = 1
  InitialRows = {"pending"}
  RestoreTargets = {}
  Crashes = FALSE
INVARIANT ExecutingIsOwned
PROPERTY RequestsAnswered
PROPERTY RunSlotFreed
