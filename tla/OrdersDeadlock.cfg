CONSTANTS
  r1 = r1
  r2 = r2
  r3 = r3
  p1 = p1
  p2 = p2
  o1 = o1
  o2 = o2
  o3 = o3
  u1 = u1
  admin = admin
  k1 = k1
  None = None
  Requests = {r1, r2}
  Orders = {o1, o2}
  Products = {p1, p2}
  Users = {u1, admin}
  Staff = {admin}
  Keys = {}
  MaxQty = 2
  Operations = {"create", "patch"}
  OwnerOf <- MCOwnerOf
  NameRank <- MCNameRank
  InitialStock <- AmpleStock
  Baskets <- CrossBaskets
  StatusPatches <- NoStatusPatch
SPECIFICATION Spec
CHECK_DEADLOCK FALSE
INVARIANT NoWaitCycle
