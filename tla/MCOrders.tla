------------------------------ MODULE MCOrders ------------------------------
(***************************************************************************)
(* Instances of Orders for TLC: constants and symmetry.                    *)
(***************************************************************************)
EXTENDS Orders, TLC

CONSTANTS r1, r2, r3, p1, p2, o1, o2, o3, u1, admin, k1

RequestSymmetry == Permutations(Requests)
Symmetry == RequestSymmetry \cup Permutations(Orders)

MCOwnerOf == [p \in Products |-> IF p = p1 THEN u1 ELSE admin]
MCNameRank == [p \in Products |-> IF p = p1 THEN 1 ELSE 2]
MCInitialStock == [p \in Products |-> IF p = p1 THEN 2 ELSE 1]
AmpleStock == [p \in Products |-> 4]

\* A basket of a units of p1 and b of every other product.
Basket(a, b) == [p \in Products |-> IF p = p1 THEN a ELSE b]

FewBaskets == {Basket(1, 0), Basket(1, 1), Basket(2, 0)}

OneBasket == {Basket(1, 1)}
CrossBaskets == {Basket(1, 2), Basket(2, 1)}
MoreBaskets == {Basket(1, 2), Basket(2, 1), Basket(2, 0)}

Set(field, value) == [NoChange EXCEPT ![field] = value]

NoStatusPatch == {NoChange}

\* Every order status, a step of another column, and one that no map allows at first.
MixedPatches ==
  {NoChange, Set("delivery", "IN_PROGRESS"), Set("payment", "REFUNDED")}
    \cup {Set("order", v) : v \in StatusValues.order}
=============================================================================
