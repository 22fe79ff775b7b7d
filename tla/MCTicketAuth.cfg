CONSTANTS
  r1 = r1
  r2 = r2
  l1 = l1
  l2 = l2
  l3 = l3
  l4 = l4
  None = None
  Requests <- TwoRequests
  Logins <- FourLogins
SPECIFICATION Spec
INVARIANTS
  OneLogin
PROPERTIES
  KeepsLogin
  IsAtomicLogin
  RequestsGoOn
  Recovers
