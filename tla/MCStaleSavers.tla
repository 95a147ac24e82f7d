--------------------------- MODULE MCStaleSavers ---------------------------
(***************************************************************************)
(* Instances of StaleSavers: two requests of Orders and one or two calls   *)
(* of the other writers.                                                   *)
(***************************************************************************)
EXTENDS StaleSavers, TLC

CONSTANTS r1, r2, p1, p2, o1, o2, u1, admin, w1, w2

Symmetry == Permutations(Requests) \cup Permutations(Savers) \cup Permutations(Orders)

MCOwnerOf == [p \in Products |-> u1]
MCNameRank == [p \in Products |-> IF p = p1 THEN 1 ELSE 2]
MCInitialStock == [p \in Products |-> IF p = p1 THEN 2 ELSE 1]

Units(n) == [p \in Products |-> n]
MCBaskets == {Units(1), [p \in Products |-> IF p = p1 THEN 2 ELSE 0]}
Rejections == {[NoChange EXCEPT !.order = "REJECTED"]}
=============================================================================
