------------------------------ MODULE MCLogin ------------------------------
(***************************************************************************)
(* Instances of Login: one user, two requests at a time.                   *)
(***************************************************************************)
EXTENDS Login, TLC

CONSTANTS r1, r2, u1, s1, c1, t1, t2

Symmetry == Permutations(Requests) \cup Permutations(Tokens)
=============================================================================
