CONSTANTS
  r1 = r1
  r2 = r2
  u1 = u1
  u2 = u2
  p1 = p1
  p2 = p2
  k1 = k1
  k2 = k2
  v1 = v1
  v2 = v2
  None = None
  Requests = {r1, r2}
  Users = {u1, u2}
  Phones = {p1, p2}
  Keys = {k1, k2}
  Values = {v1, v2}
  InitialPhone <- MCInitialPhone
  TTL = 1
  Retention = 0
  MaxCodes = 2
  MaxTime = 2
  Crashes = TRUE
  Calls <- MCCalls
SPECIFICATION Spec
CHECK_DEADLOCK FALSE
SYMMETRY Symmetry
INVARIANTS TypeOK OnlyOverlappingIssuesCoexist NoPhantomMessage
PROPERTIES ImplementsOneTimeCodes
