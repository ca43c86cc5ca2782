CONSTANTS
  u1 = u1
  u2 = u2
  l1 = l1
  l2 = l2
  t1 = t1
  t2 = t2
  k1 = k1
  k2 = k2
  m1 = m1
  m2 = m2
  repo1 = repo1
  repo2 = repo2
  Updates <- MCUpdates
  Launches <- MCLaunches
  Tokens <- MCTokens
  Kids = {k1, k2}
  Materials = {m1, m2}
  SignedBy <- MCSignedBy
  Forms <- MCForms
  MaxVersion = 3
  None = None
SPECIFICATION Spec
SYMMETRY MCSymmetry
INVARIANTS
  OneSessionPerLaunch
  QueuedKeepsTarget
PROPERTIES
  ReplacesTheVersionSeen
  KidKeepsKey
