CONSTANTS
  p1 = p1
  p2 = p2
  Runners <- MCRunners
  NumRecords = 2
  MaxAttempts = 1
  MaxUnits = 1
  MaxRequeues = 0
  MaxCrashes = 0
  MaxFaults = 1
  Switches = {"pause", "setup"}
  Lockable = {1, 2}
  NoRunner = NoRunner
  NoLease = NoLease
SPECIFICATION FairSpec
PROPERTIES
  EveryRecordSettles
