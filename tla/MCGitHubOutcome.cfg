CONSTANTS
  asDecided = asDecided
  changedButValid = changedButValid
  drifted = drifted
  Worlds <- MCWorlds
  ValidWorlds <- MCValidWorlds
  MaxArtifacts = 5
  MaxFailures = 2
  MaxEdits = 2
  MaxChanges = 2
  NoRow = NoRow
SPECIFICATION FairSpec
CHECK_DEADLOCK FALSE
INVARIANTS
  NoDuplicate
  ConfirmedIsExact
PROPERTIES
  NoWriteAfterDrift
  ImplementsOutcome
  Settles
