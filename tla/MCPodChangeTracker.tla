------------------------- MODULE MCPodChangeTracker -------------------------
(* One pod whose container is restarted and whose interfaces change, and one *)
(* that comes and goes.                                                      *)
EXTENDS PodChangeTracker, TLC

CONSTANTS p1, p2, c1, c2, c3, net1, net2

MCPodObject ==
    (p1 :> {[target |-> TRUE,  container |-> c1, status |-> net1],
            [target |-> TRUE,  container |-> c2, status |-> net1],
            [target |-> TRUE,  container |-> c2, status |-> net2],
            [target |-> FALSE, container |-> NoContainer, status |-> net1]})
    @@ (p2 :> {[target |-> TRUE, container |-> c3, status |-> net1]})
=============================================================================
