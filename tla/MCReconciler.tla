---------------------------- MODULE MCReconciler ----------------------------
(* Three pods of two port lists.  All can be ready and in the first list;    *)
(* besides, the first may be unready, the second in the other list, and the  *)
(* third without an address.                                                 *)
EXTENDS Reconciler, TLC

CONSTANTS a1, a2, a3, ports1, ready, unready

MCPod(ports, condition, addressed) ==
    [ports |-> ports, condition |-> condition, addressed |-> addressed]

MCPodState ==
       a1 :> {MCPod(ports1, ready, TRUE), MCPod(ports1, unready, TRUE)}
    @@ a2 :> {MCPod(ports1, ready, TRUE), MCPod(EmptyPorts, ready, TRUE)}
    @@ a3 :> {MCPod(ports1, ready, TRUE), MCPod(ports1, ready, FALSE)}

MCSymmetry == Permutations(SliceName)
=============================================================================
