CONSTANTS
  p1 = p1
  p2 = p2
  Runners <- MCRunners
  NumRecords = 1
  MaxAttempts = 2
  MaxUnits = 1
  MaxRequeues = 1
  MaxCrashes = 0
  MaxFaults = 0
  Switches = {"pause"}
  Lockable = {}
  NoRunner = NoRunner
  NoLease = NoLease
SPECIFICATION Spec
SYMMETRY RunnerSymmetry
INVARIANTS
  TriagedUnitsAreTerminal
