CONSTANTS
  r1 = r1
  r2 = r2
  cat1 = cat1
  cat2 = cat2
  cat3 = cat3
  p1 = p1
  p2 = p2
  s1 = s1
  s2 = s2
  u1 = u1
  None = None
  Keep = Keep
  Requests = {r1, r2}
  Categories = {cat1, cat2, cat3}
  Products = {p1, p2}
  Initial = {cat1, cat2, cat3, p1}
  plain = plain
  hidden = hidden
  Places = {plain, hidden}
  Plain = plain
  Hidden = hidden
  blank = blank
  text = text
  Texts = {blank, text}
  Blank = blank
  Stores = {s1, s2}
  Home = s1
  Customers = {u1}
  MaxCalls = 3
  Operations = {"create", "edit", "bulk", "copy", "arrange", "favour"}
SPECIFICATION Spec
CHECK_DEADLOCK FALSE
SYMMETRY Symmetry
INVARIANTS TypeOK WalksAreShort OneFavourite
PROPERTIES CyclesNeedOverlap StoresAgree OnlyStaleWritesUndo
