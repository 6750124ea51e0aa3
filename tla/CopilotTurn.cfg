SPECIFICATION FairSpec
CONSTANTS
  MaxRuns = 1
  MaxCalls = 2
  Threads = {t1, t2}
  Tools = {"save-grading"}
  DenyTools = {}
  AllowedTools = {}
  SessionCap = 1
  Modes = {"ask", "read-only", "auto-approve-all", "unreadable"}
  Selected = TRUE
  Restarts = TRUE
  MaxQueued = 0
INVARIANT CheckpointPrecedesWrite
PROPERTY CallsPassTheGate
PROPERTY TurnsEnd
PROPERTY LoopsEnd
CHECK_DEADLOCK FALSE
