----------------------------- MODULE Reconciler -----------------------------
(***************************************************************************)
(* The reconciler of multus-service-controller (pkg/service-controller/    *)
(* reconciler.go) for one service and one address type: rounds of          *)
(* reconcileByAddressType, each of which compares the pods the service     *)
(* selects with its EndpointSlices, one port map after the other           *)
(* (reconcileByPortMapping), and then issues creates, updates and deletes  *)
(* (finalize), any of which may fail and end the round.                    *)
(*                                                                         *)
(* Rounds see the slices as they are; SliceController adds the informer    *)
(* cache that may lag behind.  Where the code ranges over a map, takes an  *)
(* unsorted list or pops any endpoint, the model chooses.                  *)
(***************************************************************************)
EXTENDS Integers, FiniteSets, Sequences

CONSTANTS
    Address,       \* pod addresses, which identify endpoints
    Condition,     \* the rest of an endpoint: readiness, node, target
    PortMap,       \* port lists of endpoints (hashed to PortMapKey)
    EmptyPorts,    \* the port list of a placeholder
    SliceName,     \* names of EndpointSlices; bounds how many can exist
    MaxEndpoints,  \* maxEndpointsPerSlice
    PodState,      \* address -> the states its pod can be in
    MaxMishaps,    \* bound on slices lost, services relabelled and recreated
    NoPod,         \* no selected pod that should be in endpoints
    NoSlice        \* no slice of that name

ASSUME ReconcilerAssumption ==
    /\ MaxEndpoints \in Nat \ {0} /\ MaxMishaps \in Nat
    /\ EmptyPorts \in PortMap
    /\ PodState \in [Address -> SUBSET [ports : PortMap, condition : Condition,
                                         addressed : BOOLEAN]]

Endpoints == UNION {[S -> Condition] : S \in SUBSET Address}

\* current: its labels are the service's; owned: its owner is the service.
EndpointSlice ==
    [ports : PortMap, endpoints : Endpoints, current : BOOLEAN, owned : BOOLEAN]

ASSUME AbsentAssumption ==
    /\ NoSlice \notin EndpointSlice
    /\ \A a \in Address : NoPod \notin PodState[a]
ASSUME FiniteAssumption == IsFiniteSet(Address) /\ IsFiniteSet(SliceName)

VARIABLES
    slices,     \* EndpointSlices of the service in the API server
    pods,       \* what each address's pod is at the start of the round
    deleting,   \* service.DeletionTimestamp # nil
    phase,      \* where the round is
    todo,       \* port maps still to be reconciled
    left,       \* desiredSet: endpoints that have no slice yet
    toScan,     \* existing slices of the port map step 1 has yet to visit
    work,       \* slicesByName: the slices as they are to become
    unchanged,  \* sliceNamesUnchanged
    updated,    \* sliceNamesToUpdate of the port map
    unfilled,   \* those of them step 2 has yet to visit
    toCreate,   \* slicesToCreate
    toUpdate,   \* names of slicesToUpdate
    toDelete,   \* names of slicesToDelete
    counts,     \* the round's entry of the metrics cache
    mishaps     \* slices lost, services relabelled and recreated so far

packing == <<todo, left, toScan, work, unchanged, updated, unfilled>>
plan == <<toCreate, toUpdate, toDelete>>
notes == <<counts, mishaps>>
vars == <<slices, pods, deleting, phase, packing, plan, notes>>
-----------------------------------------------------------------------------
\* Which pod has each address.
PodStates == UNION {PodState[a] : a \in Address}

Pods == {f \in [Address -> PodStates \cup {NoPod}] :
            \A a \in Address : f[a] \in PodState[a] \cup {NoPod}}

Names == {sl \in SliceName : slices[sl] # NoSlice}

Owned == {sl \in Names : slices[sl].owned}

DesiredPorts == {pods[a].ports : a \in {b \in Address : pods[b] # NoPod}}

\* The endpoints one port map wants: a pod without an address of the right
\* family makes its port map desired and contributes nothing to it.
Desired(pm) ==
    [a \in {b \in Address : pods[b] # NoPod /\ pods[b].addressed /\ pods[b].ports = pm}
        |-> pods[a].condition]

Size(endpoints) == Cardinality(DOMAIN endpoints)

\* newEndpointSlice: owned by the service, with its labels.
NewEndpointSlice(ports, endpoints) ==
    [ports |-> ports, endpoints |-> endpoints, current |-> TRUE, owned |-> TRUE]

NoEndpoints == [a \in {} |-> a]
NoCounts    == [pm \in {} |-> 0]

Join(f, g) ==
    [a \in DOMAIN f \cup DOMAIN g |-> IF a \in DOMAIN f THEN f[a] ELSE g[a]]

Only(f, S) == [a \in S |-> f[a]]

Lesser(m, n) == IF m < n THEN m ELSE n

\* PopAny until the endpoints are used up or the slice is full.
Fillings(endpoints) ==
    {S \in SUBSET DOMAIN left :
        Cardinality(S) = Lesser(Size(left), MaxEndpoints - Size(endpoints))}

Init ==
    /\ slices = [sl \in SliceName |-> NoSlice]
    /\ pods = [a \in Address |-> NoPod]
    /\ deleting = FALSE
    /\ phase = "idle"
    /\ todo = {} /\ left = NoEndpoints /\ toScan = {}
    /\ work = slices
    /\ unchanged = {} /\ updated = {} /\ unfilled = {}
    /\ toCreate = << >> /\ toUpdate = {} /\ toDelete = {}
    /\ counts = NoCounts /\ mishaps = 0
-----------------------------------------------------------------------------
\* Between rounds: pods come, go and change; the labels of the service change;
\* somebody deletes a slice; the service is deleted and created again under
\* its name, which leaves slices of the old one for the garbage collector.
AtRest == phase \in {"idle", "synced"}

Mishap ==
    /\ AtRest /\ phase' = "idle"
    /\ mishaps < MaxMishaps
    /\ mishaps' = mishaps + 1
    /\ counts' = NoCounts

ServiceRelabelled ==
    /\ Mishap
    /\ slices' = [sl \in SliceName |-> IF slices[sl] = NoSlice THEN NoSlice
                                       ELSE [slices[sl] EXCEPT !.current = FALSE]]
    /\ work' = slices'
    /\ UNCHANGED <<pods, deleting, todo, left, toScan, unchanged, updated, unfilled, plan>>

ServiceRecreated ==
    /\ Mishap
    /\ slices' = [sl \in SliceName |-> IF slices[sl] = NoSlice THEN NoSlice
                                       ELSE [slices[sl] EXCEPT !.owned = FALSE]]
    /\ work' = slices'
    /\ UNCHANGED <<pods, deleting, todo, left, toScan, unchanged, updated, unfilled, plan>>

SliceLost(sl) ==
    /\ Mishap
    /\ slices[sl] # NoSlice
    /\ slices' = [slices EXCEPT ![sl] = NoSlice]
    /\ work' = slices'
    /\ UNCHANGED <<pods, deleting, todo, left, toScan, unchanged, updated, unfilled, plan>>

\* reconcileByAddressType, first part: slices of another owner are to be
\* deleted, the pods are sorted by port map.
Start ==
    /\ AtRest
    /\ pods' \in Pods
    /\ deleting' \in BOOLEAN
    /\ phase' = "groups"
    /\ todo' = DesiredPorts'
    /\ toCreate' = << >> /\ toUpdate' = {} /\ toDelete' = Names \ Owned
    /\ counts' = NoCounts
    /\ UNCHANGED <<slices, left, toScan, work, unchanged, updated, unfilled, mishaps>>

\* ... unless the node of one of them is not known: the round fails before
\* anything is written.
StartNodeMissing ==
    /\ AtRest
    /\ pods' \in Pods
    /\ DesiredPorts' # {}
    /\ phase' = "idle"
    /\ counts' = NoCounts
    /\ UNCHANGED <<slices, deleting, packing, plan, mishaps>>

\* reconcileByPortMapping
StartGroup(pm) ==
    /\ phase = "groups" /\ pm \in todo
    /\ phase' = "scan"
    /\ todo' = todo \ {pm}
    /\ left' = Desired(pm)
    /\ toScan' = {sl \in Owned : slices[sl].ports = pm}
    /\ UNCHANGED <<slices, pods, deleting, work, unchanged, updated, unfilled, plan, notes>>

\* The port map being reconciled, as far as its placed and its left endpoints
\* tell: that of the pods.
PortsOf(endpoints) == pods[CHOOSE a \in DOMAIN endpoints : TRUE].ports

\* Faulty variant: the reserved labels of the slice are compared, too.
LabelsAlwaysChanged(sl) == TRUE

\* setEndpointSliceLabels: do the slice's labels differ from the service's?
LabelsChanged(sl) == ~slices[sl].current

\* Step 1 for one slice: endpoints that are wanted stay, in their new
\* condition, and are off the list; a slice none of them stay in goes.
ScanSlice(sl) ==
    LET old  == slices[sl].endpoints
        kept == Only(left, DOMAIN old \cap DOMAIN left)
    IN  /\ phase = "scan" /\ sl \in toScan
        /\ toScan' = toScan \ {sl}
        /\ left' = Only(left, DOMAIN left \ DOMAIN kept)
        /\ \/ /\ kept # old /\ kept = NoEndpoints
              /\ toDelete' = toDelete \cup {sl}
              /\ UNCHANGED <<work, updated, unchanged>>
           \/ /\ kept # old /\ kept # NoEndpoints
              /\ work' = [work EXCEPT ![sl].endpoints = kept, ![sl].current = TRUE]
              /\ updated' = updated \cup {sl}
              /\ UNCHANGED <<toDelete, unchanged>>
           \/ /\ kept = old /\ LabelsChanged(sl)
              /\ work' = [work EXCEPT ![sl].current = TRUE]
              /\ updated' = updated \cup {sl}
              /\ UNCHANGED <<toDelete, unchanged>>
           \/ /\ kept = old /\ ~LabelsChanged(sl)
              /\ unchanged' = unchanged \cup {sl}
              /\ UNCHANGED <<work, updated, toDelete>>
        /\ UNCHANGED <<slices, pods, deleting, phase, todo, unfilled, toCreate, toUpdate, notes>>

ScanDone ==
    /\ phase = "scan" /\ toScan = {}
    /\ phase' = "fill"
    /\ unfilled' = updated
    /\ UNCHANGED <<slices, pods, deleting, todo, left, toScan, work, unchanged, updated, plan, notes>>

\* Step 2: the slices to be written anyway take what they have room for, the
\* fullest first.
FillUpdated(sl) ==
    /\ phase = "fill" /\ left # NoEndpoints /\ sl \in unfilled
    /\ \A other \in unfilled :
          Size(work[other].endpoints) <= Size(work[sl].endpoints)
    /\ \E S \in Fillings(work[sl].endpoints) :
          /\ work' = [work EXCEPT ![sl].endpoints = Join(@, Only(left, S))]
          /\ left' = Only(left, DOMAIN left \ S)
    /\ unfilled' = unfilled \ {sl}
    /\ UNCHANGED <<slices, pods, deleting, phase, todo, toScan, unchanged, updated, plan, notes>>

FillDone ==
    /\ phase = "fill" /\ (left = NoEndpoints \/ unfilled = {})
    /\ phase' = "place"
    /\ UNCHANGED <<slices, pods, deleting, packing, plan, notes>>

\* Faulty variant: the endpoints to add are not counted.
SlicesToFillOfAnyNumber(n) ==
    LET room(sl) == MaxEndpoints - Size(work[sl].endpoints)
        fits     == {sl \in unchanged : room(sl) >= 0 /\ room(sl) < MaxEndpoints}
    IN  {sl \in fits : \A other \in fits : room(sl) <= room(other)}

\* getSliceToFill: the slices that n more endpoints bring closest to full,
\* without bringing it beyond.
SlicesToFill(n) ==
    LET room(sl) == MaxEndpoints - (n + Size(work[sl].endpoints))
        fits     == {sl \in unchanged : room(sl) >= 0 /\ room(sl) < MaxEndpoints}
    IN  {sl \in fits : \A other \in fits : room(sl) <= room(other)}

\* Step 3: what is less than a slice goes into one slice not written yet, if
\* there is one with that much room; anything else into new slices.
PlaceInUnchanged ==
    /\ phase = "place" /\ left # NoEndpoints
    /\ Size(left) < MaxEndpoints
    /\ \E sl \in SlicesToFill(Size(left)) :
          /\ work' = [work EXCEPT ![sl].endpoints = Join(@, left)]
          /\ updated' = updated \cup {sl}
          /\ unchanged' = unchanged \ {sl}
    /\ left' = NoEndpoints
    /\ UNCHANGED <<slices, pods, deleting, phase, todo, toScan, unfilled, plan, notes>>

PlaceInNew ==
    /\ phase = "place" /\ left # NoEndpoints
    /\ Size(left) < MaxEndpoints => SlicesToFill(Size(left)) = {}
    /\ \E S \in Fillings(NoEndpoints) :
          /\ toCreate' = Append(toCreate,
                                NewEndpointSlice(PortsOf(left), Only(left, S)))
          /\ left' = Only(left, DOMAIN left \ S)
    /\ UNCHANGED <<slices, pods, deleting, phase, todo, toScan, work, unchanged,
                   updated, unfilled, toUpdate, toDelete, notes>>

GroupDone ==
    /\ phase = "place" /\ left = NoEndpoints
    /\ phase' = "groups"
    /\ toUpdate' = toUpdate \cup updated
    /\ unchanged' = {} /\ updated' = {} /\ unfilled' = {}
    /\ UNCHANGED <<slices, pods, deleting, todo, left, toScan, work, toCreate, toDelete, notes>>
-----------------------------------------------------------------------------
\* reconcileByAddressType, last part, and the first loop of finalize.  Slices
\* whose ports nobody wants go; a service that would have no slice gets a
\* placeholder; slices to create take over owned slices to delete, the last
\* one first, as long as there are both.
\*
\* Faulty variant: the slices of ports nobody wants stay.
NoneObsolete == {}

Obsolete == {sl \in Owned : slices[sl].ports \notin DesiredPorts}

Placeholder == NewEndpointSlice(EmptyPorts, NoEndpoints)

\* Faulty variant: the placeholder is not counted.
CountsWithoutPlaceholder(empty) ==
    [pm \in DesiredPorts |->
        [endpoints |-> Size(Desired(pm)),
         slices |-> Cardinality({sl \in Owned \ toDelete : slices[sl].ports = pm})
                    + Cardinality({i \in DOMAIN toCreate : toCreate[i].ports = pm})]]

\* spMetrics: endpoints and slices of each port map.  The cache gets them
\* before anything is written; between rounds the model does not keep them.
Counts(empty) ==
    [pm \in DesiredPorts \cup (IF empty THEN {EmptyPorts} ELSE {}) |->
        IF empty /\ pm = EmptyPorts THEN [endpoints |-> 0, slices |-> 1]
        ELSE [endpoints |-> Size(Desired(pm)),
              slices |-> Cardinality({sl \in Owned \ toDelete : slices[sl].ports = pm})
                         + Cardinality({i \in DOMAIN toCreate : toCreate[i].ports = pm})]]

\* Faulty variant: a slice turned into an update is deleted all the same.
AllDeletes(dels, reusing) == dels

RemainingDeletes(dels, reusing) == dels \ reusing

Assemble ==
    LET dels    == toDelete \cup Obsolete
        empty   == Cardinality(Names) = Cardinality(dels) /\ toCreate = << >>
        creates == IF empty THEN <<Placeholder>> ELSE toCreate
        reused  == Lesser(Len(creates), Cardinality(dels \cap Owned))
        kept    == Len(creates) - reused
    IN  /\ phase = "groups" /\ todo = {}
        /\ phase' = "finalize"
        /\ \E R \in SUBSET (dels \cap Owned) :
             /\ Cardinality(R) = reused
             /\ \E f \in [R -> (kept + 1)..Len(creates)] :
                  /\ \A sl, other \in R : f[sl] = f[other] => sl = other
                  /\ work' = [sl \in SliceName |->
                                IF sl \in R THEN creates[f[sl]] ELSE work[sl]]
             /\ toUpdate' = toUpdate \cup R
             /\ toDelete' = RemainingDeletes(dels, R)
        /\ counts' = Counts(empty)
        /\ toCreate' = IF deleting THEN << >> ELSE SubSeq(creates, 1, kept)
        /\ UNCHANGED <<slices, pods, deleting, todo, left, toScan, unchanged,
                       updated, unfilled, mishaps>>

\* finalize: one API call after the other, creates before updates before
\* deletes.  The API server picks the name of a new slice.
CreateSlice ==
    /\ phase = "finalize" /\ toCreate # << >>
    /\ \E sl \in SliceName \ Names :
          slices' = [slices EXCEPT ![sl] = Head(toCreate)]
    /\ toCreate' = Tail(toCreate)
    /\ UNCHANGED <<pods, deleting, phase, packing, toUpdate, toDelete, notes>>

UpdateSlice(sl) ==
    /\ phase = "finalize" /\ toCreate = << >> /\ sl \in toUpdate
    /\ slices' = [slices EXCEPT ![sl] = work[sl]]
    /\ toUpdate' = toUpdate \ {sl}
    /\ UNCHANGED <<pods, deleting, phase, packing, toCreate, toDelete, notes>>

\* Faulty variant: deletes go first.
DeleteSliceFirst(sl) ==
    /\ phase = "finalize" /\ sl \in toDelete
    /\ slices' = [slices EXCEPT ![sl] = NoSlice]
    /\ toDelete' = toDelete \ {sl}
    /\ UNCHANGED <<pods, deleting, phase, packing, toCreate, toUpdate, notes>>

DeleteSlice(sl) ==
    /\ phase = "finalize" /\ toCreate = << >> /\ toUpdate = {} /\ sl \in toDelete
    /\ slices' = [slices EXCEPT ![sl] = NoSlice]
    /\ toDelete' = toDelete \ {sl}
    /\ UNCHANGED <<pods, deleting, phase, packing, toCreate, toUpdate, notes>>

\* The first call that fails ends the round; what was written stays.  A create
\* refused because the namespace is terminating ends it without an error.
CallFails ==
    /\ phase = "finalize" /\ (toCreate # << >> \/ toUpdate # {} \/ toDelete # {})
    /\ phase' = "idle"
    /\ work' = slices
    /\ toCreate' = << >> /\ toUpdate' = {} /\ toDelete' = {}
    /\ counts' = NoCounts
    /\ UNCHANGED <<slices, pods, deleting, todo, left, toScan, unchanged, updated, unfilled, mishaps>>

FinalizeDone ==
    /\ phase = "finalize" /\ toCreate = << >> /\ toUpdate = {} /\ toDelete = {}
    /\ phase' = "synced"
    /\ work' = slices
    /\ UNCHANGED <<slices, pods, deleting, todo, left, toScan, unchanged, updated, unfilled, plan, notes>>

Next ==
    \/ ServiceRelabelled \/ ServiceRecreated
    \/ \E sl \in SliceName : SliceLost(sl)
    \/ Start \/ StartNodeMissing
    \/ \E pm \in PortMap : StartGroup(pm)
    \/ \E sl \in SliceName : ScanSlice(sl)
    \/ ScanDone
    \/ \E sl \in SliceName : FillUpdated(sl)
    \/ FillDone
    \/ PlaceInUnchanged \/ PlaceInNew \/ GroupDone
    \/ Assemble
    \/ CreateSlice
    \/ \E sl \in SliceName : UpdateSlice(sl) \/ DeleteSlice(sl)
    \/ CallFails \/ FinalizeDone

Spec == Init /\ [][Next]_vars
-----------------------------------------------------------------------------
\* A round never plans to write a slice it also plans to delete, nor one that
\* does not exist (finalize turns deletes into updates).
TypeOK ==
    /\ slices \in [SliceName -> EndpointSlice \cup {NoSlice}]
    /\ pods \in Pods
    /\ deleting \in BOOLEAN
    /\ phase \in {"idle", "groups", "scan", "fill", "place", "finalize", "synced"}
    /\ todo \subseteq PortMap
    /\ left \in Endpoints
    /\ toScan \subseteq SliceName
    /\ work \in [SliceName -> EndpointSlice \cup {NoSlice}]
    /\ unchanged \subseteq Names /\ updated \subseteq SliceName
    /\ unfilled \subseteq updated
    /\ toCreate \in Seq(EndpointSlice)
    /\ toUpdate \cup toDelete \subseteq Names
    /\ toUpdate \cap toDelete = {}
    /\ DOMAIN counts \subseteq PortMap
    /\ mishaps \in 0..MaxMishaps

\* maxEndpointsPerSlice bounds every slice, whatever way its endpoints got
\* there: kept, filled up with, packed into an unchanged slice or created
\* (NewController hands the limit to reconcileByPortMapping).
Capacity ==
    \A sl \in Names : Size(slices[sl].endpoints) <= MaxEndpoints

\* The slices say what the pods say: every endpoint a port map wants is in
\* exactly one of the service's slices with these ports, in its present
\* condition, and no slice holds another; labels are the service's; no slice
\* of another owner, and none without a reason, exists.
UpToDate ==
    /\ Names # {}
    /\ \A sl \in Names :
          /\ slices[sl].owned /\ slices[sl].current
          /\ \/ slices[sl].ports \in DesiredPorts
             \/ Names = {sl} /\ slices[sl] = Placeholder
          /\ \A a \in DOMAIN slices[sl].endpoints :
                /\ a \in DOMAIN Desired(slices[sl].ports)
                /\ slices[sl].endpoints[a] = pods[a].condition
    /\ \A a \in Address : pods[a] # NoPod /\ pods[a].addressed =>
          Cardinality({sl \in Names : a \in DOMAIN slices[sl].endpoints}) = 1

\* A round that ends without an error leaves the slices up to date, whatever
\* earlier rounds left half done (reconcileByAddressType and finalize).  The
\* service must not be pending deletion: nothing is created for it then.
Exact == phase = "synced" /\ ~deleting => UpToDate

\* When a round has ended without an error, the metrics cache counts the slices
\* there are and the endpoints in them, port list by port list: what
\* UpdateServicePortCache was told before finalize came true.
MetricsExact ==
    phase = "synced" /\ ~deleting =>
        \A pm \in PortMap :
            LET real == {sl \in Names : slices[sl].ports = pm}
                said == IF pm \in DOMAIN counts THEN counts[pm]
                        ELSE [endpoints |-> 0, slices |-> 0]
            IN  /\ said.slices = Cardinality(real)
                /\ said.endpoints = Cardinality(UNION {DOMAIN slices[sl].endpoints : sl \in real})

\* Nothing is written when the slices of a service with endpoints are up to
\* date, or each resync would rewrite every slice (sliceNamesUnchanged; the
\* placeholder of a service without endpoints is rewritten by every round).
Stable ==
    /\ phase = "finalize" /\ UpToDate
    /\ \E a \in Address : pods[a] # NoPod /\ pods[a].addressed
    => toCreate = << >> /\ toUpdate = {} /\ toDelete = {}

Published(a, pm) ==
    \E sl \in Names : slices[sl].ports = pm /\ a \in DOMAIN slices[sl].endpoints

\* A round never takes an endpoint that stays wanted away, not even for the
\* time between two of its calls: clients of the service would notice
\* (creates, then updates, then deletes in finalize; a created slice takes an
\* obsolete slice over, never one that endpoints stay in).
NeverLost ==
    [][\A a \in Address, pm \in PortMap :
          phase = "finalize" /\ ~deleting /\ a \in DOMAIN Desired(pm) /\ Published(a, pm)
          => Published(a, pm)']_vars
=============================================================================
