CONSTANTS
  p1 = p1
  p2 = p2
  Runners <- MCRunners
  NumRecords = 1
  MaxAttempts = 2
  MaxUnits = 2
  MaxRequeues = 1
  MaxCrashes = 1
  MaxFaults = 1
  Switches = {}
  Lockable = {1}
  NoRunner = NoRunner
  NoLease = NoLease
SPECIFICATION Spec
SYMMETRY RunnerSymmetry
INVARIANTS
  OneDrainer
  TerminalIsApplied
  AppliedInOrder
  OnePlanPerRequeue
  TriagedIsApplied
  LeaseHoldsRecord
  InProgressIsOwned
PROPERTIES
  CallsAsAgreed
  TriagedIsFinal
  ImplementsLifecycle
