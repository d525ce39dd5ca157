------------------------- MODULE MCSliceController -------------------------
(* Which mishaps happen, and how often, differs from run to run.            *)
EXTENDS SliceController, TLC

MCMishaps(kinds) == [m \in Mishaps |-> IF m \in kinds THEN 1 ELSE 0]

MCRemoved == MCMishaps({"removed"})

MCFailedOrRemoved == MCMishaps({"failed", "removed"})

MCLostOrFailover == MCMishaps({"lost", "failover"})

MCLost == MCMishaps({"lost"})

MCSymmetry == Permutations(Worker)
=============================================================================
