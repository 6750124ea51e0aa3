SPECIFICATION Spec
CONSTANTS
  Services = {"executor"}
  MaxAttempts = 2
  MaxRetries = 1
  Chunks = 2
  RubricKeys <- MCRubric
  Sections <- MCSections
  Notebooks <- MCNotebooks
  Dimensions <- MCDimensions
  Outcomes <- MCOutcomes
  RawScores = {400, 500, 600}
  Measured = {"code_execution_results", "methods"}
  Consensus = 3
  CohortSize = 6
  MaxCalibrations = 4
  SmallCohort = 3
  Turns = 2
  Overlaps = {TRUE, FALSE}
  Edits = {e1}
  EditKinds = {"rename", "delete"}
  Before = {2}
  LastMessages = 1
  PerTurn = 1
  Batches = 3
  MaxFailed = 1
  RateLimitAbort = 2
  MaxJobs = 3
  DocsCrashes = TRUE
  Submitted <- MCSubmitted
  PassLimit = 2
  KernelDies = FALSE
  MaxSent = 2
  Handed <- MCHanded
  Handlers = {h1}
  MaxHandled = 4
  Shown = {"x", "y"}
  MaxCalls = 1
  MaxFlights = 3
  Reviewed = {"s1", "s2"}
  MaxEdits = 2
  MaxSaves = 2
  StoredCategories = {"c1", "c2"}
  RubricCategories = {"c1"}
  Ticks = {"t1"}
  FixedCells = {"i1"}
  MaxEntries = 1
  MaxLoads = 2
  MaxPosts = 2
INVARIANT FixedRanWhole
CHECK_DEADLOCK FALSE
