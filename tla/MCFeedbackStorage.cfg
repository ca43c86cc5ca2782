CONSTANTS
  q1 = q1
  q2 = q2
  j1 = j1
  j2 = j2
  Requests <- MCRequests
  Jobs <- MCJobs
  MaxFiles = 2
  MaxFaults = 3
  None = None
SPECIFICATION FairSpec
CHECK_DEADLOCK FALSE
INVARIANTS
  LaunchMatchesRecord
  RemovedMeansNoFiles
  RemovalAuditedOnce
  NoStrayFile
PROPERTIES
  RemovedOnlyWhenDue
  RetentionCompletes
  ImplementsLifecycle
