-------------------------- MODULE MCSubscriptions --------------------------
(***************************************************************************)
(* Subscriptions on a small instance: orders for three plans, two of which *)
(* rank the same, and an administrator.                                    *)
(***************************************************************************)
EXTENDS Subscriptions, TLC

CONSTANTS low, lower, mid, high, admin

MCRank == low :> 1 @@ lower :> 1 @@ mid :> 2 @@ high :> 3 @@ admin :> 2

MCDuration == low :> 3 @@ lower :> 2 @@ mid :> 2 @@ high :> 2 @@ admin :> 2

=============================================================================
