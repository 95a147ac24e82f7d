CONSTANTS
  r1 = r1
  r2 = r2
  u1 = u1
  s1 = s1
  c1 = c1
  t1 = t1
  t2 = t2
  None = None
  Requests = {r1, r2}
  Users = {u1}
  Sessions = {s1}
  Codes = {c1}
  Tokens = {t1, t2}
  MaxAttempts = 2
  MaxPassword = 1
  Crashes = TRUE
  Operations = {"login", "confirm", "resend", "profile", "reset", "deactivate"}
SPECIFICATION Spec
CHECK_DEADLOCK FALSE
SYMMETRY Symmetry
INVARIANTS TypeOK GuessesBounded DroppedSessionsStayGone EarlierTokensEnd
PROPERTIES OnlyProfileEditsRevert
