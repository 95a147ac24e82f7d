CONSTANTS
  r1 = r1
  r2 = r2
  r3 = r3
  e1 = e1
  t1 = t1
  t2 = t2
  t3 = t3
  None = None
  Requests = {r1, r2, r3}
  Staff = {e1}
  Tokens = {t1, t2, t3}
  FailMax = 2
  Crashes = TRUE
SPECIFICATION Spec
CHECK_DEADLOCK FALSE
SYMMETRY Symmetry
INVARIANTS TypeOK FailuresBounded
PROPERTIES LoginsShareToken NoEndedTokenHandedOut OnlyStaleEditsRevive
