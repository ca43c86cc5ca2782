CONSTANTS
  l1 = l1
  l2 = l2
  a1 = a1
  a2 = a2
  Logins <- MCLogins
  Accounts <- MCAccounts
  MaxRestarts = 1
  None = None
SPECIFICATION Spec
CHECK_DEADLOCK FALSE
INVARIANTS
  HomeIsOwned
  OneSavePerVersion
PROPERTIES
  EveryHomeIsRemoved
  PageSettles
