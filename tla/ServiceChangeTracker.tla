------------------------ MODULE ServiceChangeTracker ------------------------
(***************************************************************************)
(* The service tracker of multus-proxy (pkg/proxy/controllers/service.go): *)
(* ServiceChangeTracker collects, under its own lock, one difference per   *)
(* service from the informer's callbacks; ServiceMap.Update, called under  *)
(* the server's lock by syncServiceForwarding, applies the differences to  *)
(* the map the NAT rules are generated from and forgets them.              *)
(***************************************************************************)
CONSTANTS
    Service,      \* namespaced service names
    Port,         \* (port name, protocol) pairs of a service
    ClusterIP,    \* cluster addresses
    Network,      \* values of the service-network annotation
    NoNetwork,    \* the annotation is missing
    NoService,    \* no object: nil in the code
    NilMap,       \* the nil ServiceMap, which is not an empty one
    NoChange      \* the tracker holds no item for a service

VARIABLES
    seen,        \* the object of each service the last callback was about
    items,       \* ServiceChangeTracker.items
    serviceMap   \* Server.serviceMap

vars == <<seen, items, serviceMap>>
-----------------------------------------------------------------------------
ServicePortName == Service \X Port

ServicePortInfo == [ClusterIP : ClusterIP, TargetNetwork : Network]

\* What the tracker reads of a Service object.
ServiceObject ==
    [ports : SUBSET Port, ClusterIP : ClusterIP, network : Network \cup {NoNetwork}]

ServiceMap == UNION {[K -> ServicePortInfo] : K \in SUBSET ServicePortName}

Change ==
    [previous : ServiceMap \cup {NilMap}, current : ServiceMap \cup {NilMap}]

ASSUME AbsentAssumption ==
    /\ NoNetwork \notin Network
    /\ NoService \notin ServiceObject
    /\ NilMap \notin ServiceMap
    /\ NoChange \notin Change

\* The entries of a possibly nil map: ranging over nil ranges over nothing.
Entries(m) == IF m = NilMap THEN [k \in {} |-> k] ELSE m

\* The part of a map that belongs to one service.
PartOf(m, s) == [k \in {j \in DOMAIN m : j[1] = s} |-> m[k]]

\* Faulty variant: the annotation is not looked for.
AnyServiceToServiceMap(s, service) ==
    IF service = NoService
    THEN NilMap
    ELSE [k \in {s} \X service.ports |->
            [ClusterIP |-> service.ClusterIP, TargetNetwork |-> service.network]]

\* serviceToServiceMap.  A service without the annotation has the nil map, one
\* with the annotation and no port an empty map; DeepEqual tells them apart.
ServiceToServiceMap(s, service) ==
    IF service = NoService \/ service.network = NoNetwork
    THEN NilMap
    ELSE [k \in {s} \X service.ports |->
            [ClusterIP |-> service.ClusterIP, TargetNetwork |-> service.network]]
-----------------------------------------------------------------------------
Init ==
    /\ seen = [s \in Service |-> NoService]
    /\ items = [s \in Service |-> NoChange]
    /\ serviceMap = [k \in {} |-> k]

\* Faulty variant: every event overwrites "previous".
UpdateOverwriting(s, previous, current) ==
    LET prev == ServiceToServiceMap(s, previous)
        cur  == ServiceToServiceMap(s, current)
    IN  items' = [items EXCEPT ![s] =
                    IF prev = cur THEN NoChange
                                  ELSE [previous |-> prev, current |-> cur]]

\* ServiceChangeTracker.Update: "previous" counts only for the first event
\* after the last apply, "current" always; a difference that cancels out is
\* dropped.
Update(s, previous, current) ==
    LET prev == IF items[s] = NoChange THEN ServiceToServiceMap(s, previous)
                                       ELSE items[s].previous
        cur  == ServiceToServiceMap(s, current)
    IN  items' = [items EXCEPT ![s] =
                    IF prev = cur THEN NoChange
                                  ELSE [previous |-> prev, current |-> cur]]

\* OnServiceAdd, OnServiceUpdate (also a periodic resync, whose two objects are
\* the same, and a relist that hides a deletion) and OnServiceDelete (also from
\* a tombstone): the informer hands over the object of its previous callback.
OnServiceAdd(s) ==
    \E service \in ServiceObject :
        /\ seen[s] = NoService
        /\ seen' = [seen EXCEPT ![s] = service]
        /\ Update(s, NoService, service)
        /\ UNCHANGED serviceMap

OnServiceUpdate(s) ==
    \E service \in ServiceObject :
        /\ seen[s] # NoService
        /\ seen' = [seen EXCEPT ![s] = service]
        /\ Update(s, seen[s], service)
        /\ UNCHANGED serviceMap

OnServiceDelete(s) ==
    /\ seen[s] # NoService
    /\ seen' = [seen EXCEPT ![s] = NoService]
    /\ Update(s, seen[s], NoService)
    /\ UNCHANGED serviceMap

\* ServiceMap.apply: unmerge every previous, merge every current, clear the
\* items.  The items are visited in no particular order, which does not matter:
\* the keys of a change start with the name of its service.
Pending == {s \in Service : items[s] # NoChange}

Unmerged == UNION {DOMAIN Entries(items[s].previous) : s \in Pending}

Merged == UNION {DOMAIN Entries(items[s].current) : s \in Pending}

\* Faulty variant: the applied items are not cleared.
ApplyKeepingItems ==
    /\ serviceMap' =
         [k \in (DOMAIN serviceMap \ Unmerged) \cup Merged |->
            IF k \in Merged THEN items[k[1]].current[k] ELSE serviceMap[k]]
    /\ UNCHANGED <<items, seen>>

Apply ==
    /\ serviceMap' =
         [k \in (DOMAIN serviceMap \ Unmerged) \cup Merged |->
            IF k \in Merged THEN items[k[1]].current[k] ELSE serviceMap[k]]
    /\ items' = [s \in Service |-> NoChange]
    /\ UNCHANGED seen

Next ==
    \/ \E s \in Service : OnServiceAdd(s) \/ OnServiceUpdate(s) \/ OnServiceDelete(s)
    \/ Apply

Spec == Init /\ [][Next]_vars
-----------------------------------------------------------------------------
\* Types of the three variables.
TypeOK ==
    /\ seen \in [Service -> ServiceObject \cup {NoService}]
    /\ items \in [Service -> Change \cup {NoChange}]
    /\ serviceMap \in ServiceMap

\* What a synchronisation would leave in the map for service s.
AfterApply(s) ==
    IF items[s] = NoChange THEN PartOf(serviceMap, s) ELSE Entries(items[s].current)

Wanted(s) == Entries(ServiceToServiceMap(s, seen[s]))

\* Nothing is lost between two synchronisations: whatever additions, updates,
\* deletions and recreations a service went through (service.go:267-300), its
\* pending change always leads from what the map holds to the last object.
NothingLost ==
    \A s \in Service :
        /\ AfterApply(s) = Wanted(s)
        /\ items[s] # NoChange =>
             Entries(items[s].previous) = PartOf(serviceMap, s)
-----------------------------------------------------------------------------
\* The tracker implements the abstract view: the differences it keeps amount
\* to publishing, on every synchronisation, all that was observed.
View == INSTANCE SyncedView WITH
    Key <- Service,
    Nothing <- [k \in {} |-> k],
    observed <- [s \in Service |-> Wanted(s)],
    table <- [s \in Service |-> PartOf(serviceMap, s)]

\* Every event is one observation and every apply publishes every service.
ImplementsView == View!ViewSpec
=============================================================================
