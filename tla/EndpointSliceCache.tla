------------------------- MODULE EndpointSliceCache -------------------------
(***************************************************************************)
(* The EndpointSlice cache of multus-proxy                                 *)
(* (pkg/proxy/controllers/endpointslice.go).  For every service it keeps   *)
(* the slices that were applied to Server.endpointsMap and the slices that *)
(* are pending; callbacks add to the latter under the cache's lock, and    *)
(* EndpointsMap.Update, called under the server's lock, moves them over    *)
(* and rebuilds the entries of the services concerned.                     *)
(*                                                                         *)
(* Only the "ip:port" strings of endpoints reach the NAT rules, so that is *)
(* what an endpoint is here; readiness, locality and the stale connection  *)
(* lists are computed by the code and read by nobody.  Every slice has a   *)
(* label that names its service: one without is logged and passed over     *)
(* (endpointSliceCacheKeys), and is none of the slices here.               *)
(***************************************************************************)
EXTENDS Naturals

CONSTANTS
    Service,       \* namespaced service names
    SliceName,     \* names of EndpointSlices
    PortName,      \* port names, without the nil name
    PortNumber,    \* port numbers; 0 stands for 0 and nil
    Address,       \* first addresses of endpoints
    IPv4,          \* those of the family the proxy was started for
    PortList,      \* the port lists slices can have: sets of <<name, number>>
    EndpointList,  \* the endpoint lists slices can have: sets of addresses
    NoSlice,       \* no slice of that name
    NoInfo         \* no entry in applied or pending

VARIABLES
    slices,        \* the object of each slice the last callback was about
    tracker,       \* EndpointSliceCache.trackerByServiceMap
    endpointsMap   \* Server.endpointsMap

vars == <<slices, tracker, endpointsMap>>
-----------------------------------------------------------------------------
EndpointSlice == [service : Service, ports : PortList, endpoints : EndpointList]

\* An entry of applied, and of pending, which may also ask for a removal.
AppliedInfo == [ports : PortList, endpoints : EndpointList, remove : {FALSE}]

EndpointSliceInfo ==
    AppliedInfo \cup [ports : PortList, endpoints : {{}}, remove : {TRUE}]

ASSUME SliceAssumption ==
    /\ NoSlice \notin EndpointSlice
    /\ NoInfo \notin EndpointSliceInfo

\* newEndpointSliceInfo.  A list of two or more ports has a number in each: the
\* code's sort by number panics at a nil one (byPort.Less), which is left out.
NewEndpointSliceInfo(es, remove) ==
    [ports |-> es.ports, endpoints |-> IF remove THEN {} ELSE es.endpoints,
     remove |-> remove]

\* Faulty variant: addresses of the other family are kept.
EndpointsOfAnyFamily(infos, name) ==
    {e \in Address \X PortNumber :
        /\ e[2] # 0
        /\ \E sl \in SliceName :
             /\ infos[sl] # NoInfo
             /\ <<name, e[2]>> \in infos[sl].ports
             /\ e[1] \in infos[sl].endpoints}

\* addEndpoints and endpointInfoByServicePort: the endpoints of all slices of
\* a service under one port name.  Nil names, the port 0, and addresses of the
\* other family are passed over; duplicates fall together.
EndpointsOfPort(infos, name) ==
    {e \in IPv4 \X PortNumber :
        /\ e[2] # 0
        /\ \E sl \in SliceName :
             /\ infos[sl] # NoInfo
             /\ <<name, e[2]>> \in infos[sl].ports
             /\ e[1] \in infos[sl].endpoints}

\* getEndpointsMap and endpointsMapFromEndpointInfo: ports without endpoints
\* are left out.
GetEndpointsMap(serviceNN, infos) ==
    [k \in {serviceNN} \X {n \in PortName : EndpointsOfPort(infos, n) # {}} |->
        EndpointsOfPort(infos, k[2])]

\* Faulty variant: the applied entry is compared first.
EsInfoChangedFromApplied(serviceKey, sliceKey, esInfo) ==
    LET applied == tracker[serviceKey].applied[sliceKey]
        pending == tracker[serviceKey].pending[sliceKey]
    IN  IF applied # NoInfo THEN esInfo # applied
        ELSE IF pending # NoInfo THEN esInfo # pending
        ELSE ~esInfo.remove

\* esInfoChanged: a pending entry is compared first, then the applied one.
EsInfoChanged(serviceKey, sliceKey, esInfo) ==
    LET applied == tracker[serviceKey].applied[sliceKey]
        pending == tracker[serviceKey].pending[sliceKey]
    IN  IF pending # NoInfo THEN esInfo # pending
        ELSE IF applied # NoInfo THEN esInfo # applied
        ELSE ~esInfo.remove
-----------------------------------------------------------------------------
NoInfos == [sl \in SliceName |-> NoInfo]

Init ==
    /\ slices = [sl \in SliceName |-> NoSlice]
    /\ tracker = [s \in Service |-> [applied |-> NoInfos, pending |-> NoInfos]]
    /\ endpointsMap = [k \in {} |-> {}]

\* EndpointSliceCache.EndpointSliceUpdate(es, remove) for the slice sl.  The
\* tracker of a service is created on first use; one that was not created yet
\* is one without entries.
EndpointSliceUpdate(sl, es, remove) ==
    LET esInfo == NewEndpointSliceInfo(es, remove)
    IN  tracker' = IF EsInfoChanged(es.service, sl, esInfo)
                   THEN [tracker EXCEPT ![es.service].pending[sl] = esInfo]
                   ELSE tracker

OnEndpointSliceAdd(sl) ==
    \E es \in EndpointSlice :
        /\ slices[sl] = NoSlice
        /\ slices' = [slices EXCEPT ![sl] = es]
        /\ EndpointSliceUpdate(sl, es, FALSE)
        /\ UNCHANGED endpointsMap

\* Also a periodic resync, whose two objects are the same.  The old object is
\* not looked at.
OnEndpointSliceUpdate(sl, es) ==
    /\ slices[sl] # NoSlice
    /\ slices' = [slices EXCEPT ![sl] = es]
    /\ EndpointSliceUpdate(sl, es, FALSE)
    /\ UNCHANGED endpointsMap

\* An update by multus-service-controller, which never changes the label that
\* names the service of a slice.
OnEndpointSliceUpdateInPlace(sl) ==
    \E es \in EndpointSlice :
        /\ slices[sl] # NoSlice /\ es.service = slices[sl].service
        /\ OnEndpointSliceUpdate(sl, es)

OnEndpointSliceDelete(sl) ==
    /\ slices[sl] # NoSlice
    /\ slices' = [slices EXCEPT ![sl] = NoSlice]
    /\ EndpointSliceUpdate(sl, slices[sl], TRUE)
    /\ UNCHANGED endpointsMap

\* Faulty variant: a removed slice stays applied.
OverlayWithoutRemoval(t) ==
    [sl \in SliceName |->
        IF t.pending[sl] = NoInfo \/ t.pending[sl].remove THEN t.applied[sl]
        ELSE t.pending[sl]]

\* What a slice will be once the pending entries of a service are applied.
Overlay(t) ==
    [sl \in SliceName |->
        IF t.pending[sl] = NoInfo THEN t.applied[sl]
        ELSE IF t.pending[sl].remove THEN NoInfo
        ELSE t.pending[sl]]

\* checkoutChanges: every service with pending entries has them applied, and
\* its change is the map before and the map after.
Changed == {s \in Service : tracker[s].pending # NoInfos}

CheckoutChanges ==
    tracker' = [s \in Service |->
                  IF s \in Changed
                  THEN [applied |-> Overlay(tracker[s]), pending |-> NoInfos]
                  ELSE tracker[s]]

Previous(s) == GetEndpointsMap(s, tracker[s].applied)

Current(s) == GetEndpointsMap(s, Overlay(tracker[s]))

\* EndpointsMap.apply: unmerge the previous map of every change, merge the
\* current one.  Keys start with the service, so the order does not matter.
Unmerged == UNION {DOMAIN Previous(s) : s \in Changed}

Merged == UNION {DOMAIN Current(s) : s \in Changed}

\* Faulty variant: previous maps are not unmerged.
ApplyWithoutUnmerge ==
    /\ CheckoutChanges
    /\ endpointsMap' =
         [k \in DOMAIN endpointsMap \cup Merged |->
            IF k \in Merged THEN Current(k[1])[k] ELSE endpointsMap[k]]
    /\ UNCHANGED slices

Apply ==
    /\ CheckoutChanges
    /\ endpointsMap' =
         [k \in (DOMAIN endpointsMap \ Unmerged) \cup Merged |->
            IF k \in Merged THEN Current(k[1])[k] ELSE endpointsMap[k]]
    /\ UNCHANGED slices

Next ==
    \/ \E sl \in SliceName :
         \/ OnEndpointSliceAdd(sl)
         \/ OnEndpointSliceUpdateInPlace(sl)
         \/ OnEndpointSliceDelete(sl)
    \/ Apply

Spec == Init /\ [][Next]_vars

\* A user may edit the label of a slice as well; the callback is the same
\* OnEndpointSliceUpdate.
NextRelabel ==
    \/ Next
    \/ \E sl \in SliceName, es \in EndpointSlice : OnEndpointSliceUpdate(sl, es)

SpecRelabel == Init /\ [][NextRelabel]_vars
-----------------------------------------------------------------------------
\* Types of the three variables.  No port is listed without endpoints, and no
\* endpoint of the other family or with the port 0 gets to the rules.
TypeOK ==
    /\ slices \in [SliceName -> EndpointSlice \cup {NoSlice}]
    /\ tracker \in [Service -> [applied : [SliceName -> AppliedInfo \cup {NoInfo}],
                                pending : [SliceName -> EndpointSliceInfo \cup {NoInfo}]]]
    /\ endpointsMap \in [DOMAIN endpointsMap ->
                           (SUBSET (IPv4 \X (PortNumber \ {0}))) \ {{}}]
    /\ DOMAIN endpointsMap \subseteq Service \X PortName

PartOf(m, s) == [k \in {j \in DOMAIN m : j[1] = s} |-> m[k]]

\* The slices of a service, as the callbacks have described them.
Described(s) ==
    [sl \in SliceName |->
        IF slices[sl] # NoSlice /\ slices[sl].service = s
        THEN NewEndpointSliceInfo(slices[sl], FALSE)
        ELSE NoInfo]

\* Whatever was added, changed back and removed between two synchronisations
\* (endpointslice.go:399-422, 542-568), the pending entries lead from what was
\* applied to exactly the slices the service has.
PendingLeadsToSlices ==
    \A s \in Service : Overlay(tracker[s]) = Described(s)

\* The map rules are generated from shows the applied slices of every service
\* and nothing else: unmerging the recomputed previous map (endpointslice.go:
\* 439, 451, 719) removes every entry the last merge left.
MapShowsApplied ==
    \A s \in Service : PartOf(endpointsMap, s) = GetEndpointsMap(s, tracker[s].applied)

\* "EndpointsMap maps a service name to a list of all its Endpoints"
\* (endpointslice.go:702): once nothing is pending, a service has in the map
\* the endpoints of its slices and no others.
AllItsEndpoints ==
    Changed = {} =>
        \A s \in Service :
            PartOf(endpointsMap, s) = GetEndpointsMap(s, Described(s))
-----------------------------------------------------------------------------
View == INSTANCE SyncedView WITH
    Key <- Service,
    Nothing <- [k \in {} |-> {}],
    observed <- [s \in Service |-> GetEndpointsMap(s, Described(s))],
    table <- [s \in Service |-> PartOf(endpointsMap, s)]

\* The cache implements the abstract view (endpointslice.go:399-456, 711-737):
\* a callback is one observation about a service, an apply publishes them all.
ImplementsView == View!ViewSpec
=============================================================================
