---------------------------- MODULE MCEmployees ----------------------------
(***************************************************************************)
(* Instances of Employees: one employee, three requests at a time.         *)
(***************************************************************************)
EXTENDS Employees, TLC

CONSTANTS r1, r2, r3, e1, t1, t2, t3

Symmetry == Permutations(Requests) \cup Permutations(Staff) \cup Permutations(Tokens)
=============================================================================
