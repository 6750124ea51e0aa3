SPECIFICATION Spec
CONSTANTS
  MaxRuns = 2
  MaxCalls = 1
  Threads = {t1}
  Tools = {"save-grading"}
  DenyTools = {}
  AllowedTools = {}
  SessionCap = 1
  Modes = {"ask"}
  Selected = FALSE
  Restarts = FALSE
  MaxQueued = 1
PROPERTY RevertRestores
CHECK_DEADLOCK FALSE
