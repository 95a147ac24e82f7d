------------------------------ MODULE MCCodes ------------------------------
(***************************************************************************)
(* Instances of VerificationCodes: a new user and one with an account, two *)
(* phones, two requests at a time.                                         *)
(***************************************************************************)
EXTENDS VerificationCodes, TLC

CONSTANTS r1, r2, u1, u2, p1, p2, k1, k2, v1, v2

Symmetry == Permutations(Requests) \cup Permutations(Keys) \cup Permutations(Values)

\* Each endpoint for a phone that its checks let through.
MCCalls == {<<"register", p1>>, <<"resend", p1>>, <<"verify", p1>>, <<"change", p1>>,
            <<"forgot", p2>>, <<"reset", p2>>, <<"move", None>>}

MCInitialPhone == [u \in Users |-> IF u = u2 THEN p2 ELSE None]

\* Nobody is registered yet, so that no card number is taken.
Nobody == [u \in Users |-> None]
=============================================================================
