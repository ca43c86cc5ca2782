CONSTANTS
  s1 = s1
  s2 = s2
  r1 = r1
  r2 = r2
  Subjects <- MCSubjects
  Requests <- MCRequests
  Offered <- MCOffered
  MaxVersion = 3
  None = None
SPECIFICATION Spec
SYMMETRY MCSymmetry
PROPERTY ImplementsAccounts
INVARIANTS
  LastOwner
  ActsInAHeldRole
