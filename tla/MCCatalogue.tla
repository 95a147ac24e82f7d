---------------------------- MODULE MCCatalogue ----------------------------
(***************************************************************************)
(* Instances of Catalogue: three categories, two products, two stores, two *)
(* requests at a time.                                                     *)
(***************************************************************************)
EXTENDS Catalogue, TLC

CONSTANTS r1, r2, cat1, cat2, cat3, p1, p2, s1, s2, plain, hidden, blank, text, u1

Symmetry == Permutations(Requests) \cup Permutations(Categories)
=============================================================================
