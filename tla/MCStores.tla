------------------------------ MODULE MCStores ------------------------------
(***************************************************************************)
(* Instances of Stores: two stores of one owner, a code of each, one with  *)
(* a bad amount, the free tariff and a paid one, for a month or a year.    *)
(***************************************************************************)
EXTENDS Stores, TLC

CONSTANTS r1, r2, s1, s2, c1, bad, free, basic, month, year, x1, x2, k1, owner

Symmetry == Permutations(Requests) \cup Permutations(Slides)

MCAdminOf == [s \in Stores |-> owner]
MCBalance == [s \in Stores |-> IF s = s1 THEN 1 ELSE 0]
MCStoreOf == [c \in Codes |-> IF c = bad THEN s2 ELSE s1]
MCAmount == [c \in Codes |-> IF c = bad THEN -1 ELSE 2]
MCPrice ==
  [p \in (Tariffs \X Durations) \ {<<free, year>>} |->
     IF p[1] = free THEN 0 ELSE IF p[2] = month THEN 2 ELSE 3]
=============================================================================
