CONSTANTS
  asDecided = asDecided
  changedButValid = changedButValid
  drifted = drifted
  Worlds <- MCWorlds
  ValidWorlds <- MCValidWorlds
  MaxArtifacts = 4
  MaxFailures = 2
  MaxEdits = 1
  MaxChanges = 0
  NoRow = NoRow
SPECIFICATION Spec
CHECK_DEADLOCK FALSE
INVARIANTS
  NoDuplicateComment
