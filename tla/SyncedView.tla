----------------------------- MODULE SyncedView -----------------------------
(***************************************************************************)
(* What every cache of multus-proxy promises to syncServiceForwarding.     *)
(*                                                                         *)
(* Informer events move "observed"; a synchronisation publishes it.  The   *)
(* published table never shows anything but a state that was observed, and *)
(* publishing brings every key up to date at once, whatever sequence of    *)
(* additions, updates, deletions and resyncs was coalesced in between.     *)
(* The service tracker and the EndpointSlice cache implement this          *)
(* specification with lists of pending differences.                        *)
(***************************************************************************)

CONSTANTS
    Key,      \* the objects events are about: services, or pods
    Nothing   \* the value of a key nothing is known about

VARIABLES
    observed,  \* what the delivered events amount to, key by key
    table      \* what the last synchronisation published

viewVars == <<observed, table>>

ViewInit ==
    /\ observed = [k \in Key |-> Nothing]
    /\ table = [k \in Key |-> Nothing]

\* An event about k, or a whole batch of them, makes anything of it.
Observe(k) ==
    /\ observed' = [observed EXCEPT ![k] = observed'[k]]
    /\ UNCHANGED table

\* A synchronisation.
Publish ==
    /\ table' = observed
    /\ UNCHANGED observed

ViewNext ==
    \/ \E k \in Key : Observe(k)
    \/ Publish

ViewSpec == ViewInit /\ [][ViewNext]_viewVars
=============================================================================
