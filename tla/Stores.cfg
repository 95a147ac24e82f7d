CONSTANTS
  r1 = r1
  r2 = r2
  s1 = s1
  s2 = s2
  c1 = c1
  bad = bad
  free = free
  basic = basic
  month = month
  year = year
  x1 = x1
  x2 = x2
  k1 = k1
  owner = owner
  None = None
  Requests = {r1, r2}
  Tariffs = {free, basic}
  Free = free
  Durations = {month, year}
  AdminOf <- MCAdminOf
  InitialBalance <- MCBalance
  StoreOf <- MCStoreOf
  Amount <- MCAmount
  Price <- MCPrice
  Stores = {s1, s2}
  Codes = {c1, bad}
  Keys = {k1}
  Slides = {x1, x2}
  Places = {0, 1}
  MaxSlides = 1
  MaxLedger = 2
  Galleries = {s1}
  MaxEdits = 2
  Operations = {"promo", "tariff", "slide", "edit_store", "edit_slide", "reorder"}
SPECIFICATION Spec
CHECK_DEADLOCK FALSE
SYMMETRY Symmetry
INVARIANTS TypeOK BalanceNonNegative CodeCreditedOnce OneEntryPerKey
PROPERTIES LedgerRecordsBalance OnlyStaleEditsLoseMoney OnlyStaleEditsUndoSlides
