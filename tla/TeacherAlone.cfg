SPECIFICATION ToolSpec
CONSTANTS
  Students = {1, 2}
  Keys = {k}
  MaxVersion = 2
  Requests = {r1}
  Routes = {"save", "grade", "archive", "restore", "upload", "delete", "run"}
  MinConsensus = 4
  InitialRows = {"pending"}
  RestoreTargets = {}
  Crashes = FALSE
  Tools = {"process-submission", "process-all", "archive-submission", "save-grading", "pre-evaluate", "pre-evaluate-all"}
CONSTRAINT OneRowTaught
INVARIANT GradedHasGrade
INVARIANT ArchivedRemembers
INVARIANT NothingLeftRunning
INVARIANT EnvelopeMatchesResult
PROPERTY GradingOnlyCleared
