--------------------------- MODULE MCUsageSession ---------------------------
(***************************************************************************)
(* UsageSession on small instances: one run requested twice, and two runs  *)
(* requested once each.                                                    *)
(***************************************************************************)
EXTENDS UsageSession, TLC

CONSTANTS r1, r2, s1, s2

MCRunOfTwice == s1 :> r1 @@ s2 :> r1

MCRunOfApart == s1 :> r1 @@ s2 :> r2

=============================================================================
