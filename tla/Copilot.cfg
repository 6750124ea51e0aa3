SPECIFICATION Spec
CONSTANTS
  MaxRuns = 2
  MaxCalls = 1
  Threads = {t1}
  Tools = {"save-grading"}
  DenyTools = {}
  AllowedTools = {"save-grading"}
  SessionCap = 1
  Modes = {"ask"}
  Selected = TRUE
  Restarts = FALSE
  MaxQueued = 1
INVARIANT CapBoundsUnattended
CHECK_DEADLOCK FALSE
