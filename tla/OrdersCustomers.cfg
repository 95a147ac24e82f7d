CONSTANTS
  r1 = r1
  r2 = r2
  r3 = r3
  p1 = p1
  p2 = p2
  o1 = o1
  o2 = o2
  o3 = o3
  u1 = u1
  admin = admin
  k1 = k1
  None = None
  Requests = {r1, r2, r3}
  Orders = {o1, o2, o3}
  Products = {p1, p2}
  Users = {u1, admin}
  Staff = {admin}
  Keys = {k1}
  MaxQty = 2
  Operations = {"create", "delete", "bulk"}
  OwnerOf <- MCOwnerOf
  NameRank <- MCNameRank
  InitialStock <- MCInitialStock
  Baskets <- FewBaskets
  StatusPatches <- NoStatusPatch
SPECIFICATION Spec
CHECK_DEADLOCK FALSE
SYMMETRY Symmetry
INVARIANTS TypeOK StockNonNegative OneOrderPerKey StockConserved
