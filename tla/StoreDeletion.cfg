CONSTANTS
  r1 = r1
  r2 = r2
  p1 = p1
  p2 = p2
  o1 = o1
  o2 = o2
  u1 = u1
  admin = admin
  w1 = w1
  w2 = w2
  None = None
  Requests = {r1, r2}
  Users = {u1, admin}
  Staff = {admin}
  Savers = {w1}
  Keys = {}
  MaxQty = 2
  OwnerOf <- MCOwnerOf
  NameRank <- MCNameRank
  InitialStock <- MCInitialStock
  Baskets <- MCBaskets
  StatusPatches <- Rejections
  Orders = {o1}
  Products = {p1}
  Operations = {"create"}
SPECIFICATION SaverSpec
CHECK_DEADLOCK FALSE
SYMMETRY Symmetry
PROPERTY NoActiveOrderAtDeletion
