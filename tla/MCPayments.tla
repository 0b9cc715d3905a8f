----------------------------- MODULE MCPayments -----------------------------
(***************************************************************************)
(* Payments on a small instance: orders with two webhook handlers, or one  *)
(* code with two users.                                                    *)
(***************************************************************************)
EXTENDS Payments, TLC

CONSTANTS o1, o2, h1, h2, c1, u1, u2

MCSymmetry == Permutations({o1, o2}) \cup Permutations({h1, h2}) \cup Permutations({u1, u2})

=============================================================================
