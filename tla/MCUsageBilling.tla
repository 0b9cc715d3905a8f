--------------------------- MODULE MCUsageBilling ---------------------------
(***************************************************************************)
(* UsageBilling on a small instance: two or three runs, money in units.    *)
(***************************************************************************)
EXTENDS UsageBilling, TLC

LOCAL INSTANCE FiniteSetsExt

CONSTANTS r1, r2, r3

MCSymmetry == Permutations({r1, r2, r3})

\* Sum counts units; it is the sum that SQL's SUM folds over the rows.
ASSUME SumIsTheFold ==
    \A f \in [1 .. 4 -> 0 .. 3] : \A S \in SUBSET (1 .. 4) :
        Sum(f, S) = MapThenSumSet(LAMBDA x : f[x], S)

=============================================================================
