CONSTANTS
  i1 = i1
  i2 = i2
  w1 = w1
  Providers = {"OLLAMA_CLOUD", "OPENAI_CODEX"}
  NumRecords = 2
  Issues <- MCIssues
  Urls <- MCUrls
  Scans = {}
  Responses <- MCResponses
  MaxRanked = 1
  MaxVersion = 2
  MaxMoves = 1
  MaxBatches = 2
  None = None
SPECIFICATION Spec
CHECK_DEADLOCK FALSE
INVARIANTS
  RiskIsReviewed
  PlanIsGrounded
