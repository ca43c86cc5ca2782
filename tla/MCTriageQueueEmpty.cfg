CONSTANTS
  p1 = p1
  p2 = p2
  Runners <- MCRunners
  NumRecords = 2
  MaxAttempts = 2
  MaxUnits = 1
  MaxRequeues = 0
  MaxCrashes = 0
  MaxFaults = 0
  Switches = {"pause"}
  Lockable = {}
  NoRunner = NoRunner
  NoLease = NoLease
SPECIFICATION FairSpec
PROPERTIES
  QueueEmptyMeansDrained
