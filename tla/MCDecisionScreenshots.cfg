CONSTANTS
  i1 = i1
  i2 = i2
  w1 = w1
  Providers = {"OPENAI_CODEX"}
  NumRecords = 1
  Issues <- MCIssues
  Urls <- MCUrls
  Scans = {"CLEAN"}
  Responses <- MCResponses
  MaxRanked = 1
  MaxVersion = 1
  MaxMoves = 1
  MaxBatches = 1
  None = None
SPECIFICATION Spec
CHECK_DEADLOCK FALSE
INVARIANTS
  ScreenshotsReachTheModel
