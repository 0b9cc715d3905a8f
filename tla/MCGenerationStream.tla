------------------------- MODULE MCGenerationStream -------------------------
(***************************************************************************)
(* GenerationStream on a small instance.  Nodes are interchangeable, and   *)
(* so are executions: e1 may as well be the first that is registered, and  *)
(* its node n1.                                                            *)
(***************************************************************************)
EXTENDS GenerationStream, TLC

CONSTANTS e1, n1

\* A process closed or stopped with no execution has nothing to do with the run;
\* and one process goes on, to which clients turn.
MCBound ==
    /\ \E n \in Node : ~closed[n]
    /\ phase[e1] = "idle" => \A e \in Execution : phase[e] = "idle"
    /\ \A n \in Node : closed[n] =>
          \E e \in Execution : node[e] = n /\ phase[e] # "idle"

MCInit == Init /\ node[e1] = n1

MCSpec == MCInit /\ [][Next]_vars /\ StreamFair

=============================================================================
