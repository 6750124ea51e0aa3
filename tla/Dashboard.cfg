SPECIFICATION MCSpec
CONSTANTS
  Courses = {c1, c2}
  RowIds = {1, 2}
  SingleRow = {1}
  AtFirst = {"pre-evaluated","archived"}
  SingleAtFirst = {"executed"}
  Deeds = {"archive","restore","delete","reset","switch","filter"}
  SingleDeeds = {"process","preEval","delete","switch","upload","takeBack","reload","leave"}
  MaxDeeds = 2
  MaxLost = 1
  MaxFlying = 1
  SingleFlying = 2
INVARIANT PreEvalIsPolled
PROPERTY ArchivesItsOwn
PROPERTY PollingStops
CHECK_DEADLOCK FALSE
