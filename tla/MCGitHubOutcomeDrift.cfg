CONSTANTS
  asDecided = asDecided
  changedButValid = changedButValid
  drifted = drifted
  Worlds <- MCWorlds
  ValidWorlds <- MCValidWorlds
  MaxArtifacts = 2
  MaxFailures = 1
  MaxEdits = 0
  MaxChanges = 1
  NoRow = NoRow
SPECIFICATION FairSpec
CHECK_DEADLOCK FALSE
PROPERTIES
  DriftIsRefreshed
