CONSTANTS
  t1 = t1
  t2 = t2
  ollama = ollama
  codex = codex
  other = other
  m1 = m1
  m2 = m2
  Requests <- MCRequests
  Providers <- MCProviders
  Models <- MCModels
  Known <- MCKnown
  MaxOperations = 3
  MaxFaults = 1
  None = None
SPECIFICATION Spec
CHECK_DEADLOCK FALSE
INVARIANTS
  CredentialIsBound
