----------------------- MODULE EndpointSliceCacheProofs -----------------------
(***************************************************************************)
(* Proofs about EndpointSliceCache, for any services, slices, port lists   *)
(* and endpoint lists, as long as no slice moves to another service.       *)
(*                                                                         *)
(* The inductive invariant joins the two halves of the cache: pending laid *)
(* over applied gives the slices the callbacks described, and the map of   *)
(* the server shows applied.  Apply moves both on by the same step.        *)
(***************************************************************************)
EXTENDS EndpointSliceCache, TLAPS

IInv == TypeOK /\ PendingLeadsToSlices /\ MapShowsApplied
-----------------------------------------------------------------------------
\* What getEndpointsMap returns for one service.
LEMMA GetEndpointsMapType ==
    ASSUME NEW s \in Service, NEW infos
    PROVE  LET m == GetEndpointsMap(s, infos) IN
           /\ m = [k \in DOMAIN m |-> m[k]]
           /\ DOMAIN m \subseteq Service \X PortName
           /\ \A k \in DOMAIN m :
                /\ k[1] = s
                /\ m[k] \in (SUBSET (IPv4 \X (PortNumber \ {0}))) \ {{}}
<1> DEFINE N == {n \in PortName : EndpointsOfPort(infos, n) # {}}
<1>1. GetEndpointsMap(s, infos) = [k \in {s} \X N |-> EndpointsOfPort(infos, k[2])]
    BY DEF GetEndpointsMap
<1>2. \A n \in N : EndpointsOfPort(infos, n) \in (SUBSET (IPv4 \X (PortNumber \ {0}))) \ {{}}
    <2>1. ASSUME NEW n, NEW e \in EndpointsOfPort(infos, n)
          PROVE  e \in IPv4 \X (PortNumber \ {0})
        BY <2>1 DEF EndpointsOfPort
    <2>2. \A n : EndpointsOfPort(infos, n) \subseteq IPv4 \X (PortNumber \ {0})
        BY <2>1
    <2> QED BY <2>2
<1>3. \A k \in {s} \X N : k[1] = s /\ k[2] \in N /\ k \in Service \X PortName
    OBVIOUS
<1> HIDE DEF N
<1> QED BY <1>1, <1>2, <1>3

LEMMA InfoType ==
    ASSUME NEW es \in EndpointSlice, NEW remove \in BOOLEAN
    PROVE  LET i == NewEndpointSliceInfo(es, remove) IN
           /\ i \in EndpointSliceInfo /\ i # NoInfo /\ i.remove = remove
           /\ ~remove => i \in AppliedInfo
<1> DEFINE i == NewEndpointSliceInfo(es, remove)
<1>1. es.ports \in PortList /\ es.endpoints \in EndpointList
    BY DEF EndpointSlice
<1>2. i.remove = remove
    BY DEF NewEndpointSliceInfo
<1>3. ~remove => i \in AppliedInfo
    BY <1>1 DEF NewEndpointSliceInfo, AppliedInfo
<1>4. remove => i \in [ports : PortList, endpoints : {{}}, remove : {TRUE}]
    BY <1>1 DEF NewEndpointSliceInfo
<1>5. i \in EndpointSliceInfo
    BY <1>3, <1>4 DEF EndpointSliceInfo
<1> QED BY <1>2, <1>3, <1>5, SliceAssumption

\* The tracker of a service is two functions on slice names.
LEMMA TrackerType ==
    ASSUME TypeOK, NEW s \in Service
    PROVE  /\ tracker[s] = [applied |-> tracker[s].applied, pending |-> tracker[s].pending]
           /\ tracker[s].applied \in [SliceName -> AppliedInfo \cup {NoInfo}]
           /\ tracker[s].pending \in [SliceName -> EndpointSliceInfo \cup {NoInfo}]
           /\ Overlay(tracker[s]) \in [SliceName -> AppliedInfo \cup {NoInfo}]
<1>1. tracker[s] \in [applied : [SliceName -> AppliedInfo \cup {NoInfo}],
                      pending : [SliceName -> EndpointSliceInfo \cup {NoInfo}]]
    BY DEF TypeOK
<1>2. \A sl \in SliceName : tracker[s].pending[sl] # NoInfo
            /\ ~tracker[s].pending[sl].remove => tracker[s].pending[sl] \in AppliedInfo
    BY <1>1 DEF EndpointSliceInfo, AppliedInfo
<1>3. \A sl \in SliceName : Overlay(tracker[s])[sl] \in AppliedInfo \cup {NoInfo}
    BY <1>1, <1>2 DEF Overlay
<1>4. Overlay(tracker[s]) = [sl \in SliceName |-> Overlay(tracker[s])[sl]]
    BY DEF Overlay
<1> QED BY <1>1, <1>3, <1>4

\* EndpointSliceUpdate makes the overlay show the new slice, or no slice, and
\* changes nothing else in it; what is applied stays.
LEMMA UpdateOverlay ==
    ASSUME TypeOK, NEW sl \in SliceName, NEW es \in EndpointSlice,
           NEW remove \in BOOLEAN, EndpointSliceUpdate(sl, es, remove)
    PROVE  /\ tracker' \in [Service -> [applied : [SliceName -> AppliedInfo \cup {NoInfo}],
                                        pending : [SliceName -> EndpointSliceInfo \cup {NoInfo}]]]
           /\ \A s \in Service : tracker'[s].applied = tracker[s].applied
           /\ \A s \in Service \ {es.service} : tracker'[s] = tracker[s]
           /\ Overlay(tracker'[es.service]) =
                [Overlay(tracker[es.service]) EXCEPT ![sl] =
                    IF remove THEN NoInfo ELSE NewEndpointSliceInfo(es, FALSE)]
<1> DEFINE v == es.service
           i == NewEndpointSliceInfo(es, remove)
           new == IF remove THEN NoInfo ELSE i
<1>1. v \in Service
    BY DEF EndpointSlice
<1>2. i \in EndpointSliceInfo /\ i # NoInfo /\ i.remove = remove
    BY InfoType
<1>3. /\ tracker[v] = [applied |-> tracker[v].applied, pending |-> tracker[v].pending]
      /\ tracker[v].applied \in [SliceName -> AppliedInfo \cup {NoInfo}]
      /\ tracker[v].pending \in [SliceName -> EndpointSliceInfo \cup {NoInfo}]
    BY <1>1, TrackerType
<1>4. ~remove => i = NewEndpointSliceInfo(es, FALSE)
    OBVIOUS
<1> HIDE DEF i
<1>5. CASE EsInfoChanged(v, sl, i)
    <2>1. tracker' = [tracker EXCEPT ![v].pending[sl] = i]
        BY <1>5 DEF EndpointSliceUpdate, i
    <2> DEFINE p == [tracker[v].pending EXCEPT ![sl] = i]
    <2>2. tracker'[v] = [applied |-> tracker[v].applied, pending |-> p]
        BY <2>1, <1>1, <1>3 DEF TypeOK
    <2>3. \A s \in Service \ {v} : tracker'[s] = tracker[s]
        BY <2>1 DEF TypeOK
    <2>4. DOMAIN tracker' = Service /\ tracker' = [s \in Service |-> tracker'[s]]
        BY <2>1 DEF TypeOK
    <2>5. p \in [SliceName -> EndpointSliceInfo \cup {NoInfo}]
        BY <1>2, <1>3
    <2>6. \A s \in Service : tracker'[s] \in [applied : [SliceName -> AppliedInfo \cup {NoInfo}],
                                 pending : [SliceName -> EndpointSliceInfo \cup {NoInfo}]]
        <3> SUFFICES ASSUME NEW s \in Service
                     PROVE  tracker'[s] \in
                                [applied : [SliceName -> AppliedInfo \cup {NoInfo}],
                                 pending : [SliceName -> EndpointSliceInfo \cup {NoInfo}]]
            OBVIOUS
        <3> HIDE DEF p, v
        <3>1. CASE s = v
            BY <3>1, <2>2, <2>5, <1>3
        <3>2. CASE s # v
            <4>1. tracker'[s] = tracker[s]
                BY <2>3, <3>2
            <4> QED BY <4>1 DEF TypeOK
        <3> QED BY <3>1, <3>2
    <2>7. \A t \in SliceName : p[t] = IF t = sl THEN i ELSE tracker[v].pending[t]
        BY <1>3
    <2> HIDE DEF p
    <2>8. tracker'[v].pending = p /\ tracker'[v].applied = tracker[v].applied
        BY <2>2
    <2>9. \A t \in SliceName : Overlay(tracker'[v])[t] =
                                 IF t = sl THEN new ELSE Overlay(tracker[v])[t]
        BY <2>7, <2>8, <1>2 DEF Overlay
    <2>10. Overlay(tracker'[v]) = [Overlay(tracker[v]) EXCEPT ![sl] = new]
        BY <2>9 DEF Overlay
    <2>11. \A s \in Service : tracker'[s].applied = tracker[s].applied
        BY <2>3, <2>8
    <2> QED BY <2>3, <2>4, <2>6, <2>10, <2>11, <1>4
<1>6. CASE ~EsInfoChanged(v, sl, i)
    <2>1. tracker' = tracker
        BY <1>6 DEF EndpointSliceUpdate, i
    <2>2. Overlay(tracker[v])[sl] = new
        <3>1. CASE tracker[v].pending[sl] # NoInfo
            <4>1. tracker[v].pending[sl] = i
                BY <1>6, <3>1 DEF EsInfoChanged
            <4> QED BY <4>1, <3>1, <1>2 DEF Overlay
        <3>2. CASE tracker[v].pending[sl] = NoInfo /\ tracker[v].applied[sl] # NoInfo
            <4>1. tracker[v].applied[sl] = i
                BY <1>6, <3>2 DEF EsInfoChanged
            <4>2. i \in AppliedInfo
                BY <4>1, <3>2, <1>3
            <4>3. ~remove
                BY <4>2, <1>2 DEF AppliedInfo
            <4> QED BY <4>1, <4>3, <3>2 DEF Overlay
        <3>3. CASE tracker[v].pending[sl] = NoInfo /\ tracker[v].applied[sl] = NoInfo
            <4>1. i.remove
                BY <1>6, <3>3 DEF EsInfoChanged
            <4> QED BY <4>1, <3>3, <1>2 DEF Overlay
        <3> QED BY <3>1, <3>2, <3>3
    <2>3. Overlay(tracker[v]) = [Overlay(tracker[v]) EXCEPT ![sl] = new]
        BY <2>2 DEF Overlay
    <2> QED BY <2>1, <2>3, <1>4 DEF TypeOK
<1> QED BY <1>5, <1>6

\* Each of the three callbacks replaces the last object of one slice by "to",
\* and tells the cache about es, which the slice of that name has been or is.
LEMMA EventPreserves ==
    ASSUME IInv, NEW sl \in SliceName, NEW es \in EndpointSlice,
           NEW remove \in BOOLEAN,
           slices[sl] # NoSlice => slices[sl].service = es.service,
           slices' = [slices EXCEPT ![sl] = IF remove THEN NoSlice ELSE es],
           EndpointSliceUpdate(sl, es, remove),
           UNCHANGED endpointsMap
    PROVE  /\ IInv'
           /\ \A s \in Service \ {es.service} : Described(s)' = Described(s)
<1> USE DEF IInv
<1> DEFINE v == es.service
<1>1. /\ tracker' \in [Service -> [applied : [SliceName -> AppliedInfo \cup {NoInfo}],
                                   pending : [SliceName -> EndpointSliceInfo \cup {NoInfo}]]]
      /\ \A s \in Service : tracker'[s].applied = tracker[s].applied
      /\ \A s \in Service \ {v} : tracker'[s] = tracker[s]
      /\ Overlay(tracker'[v]) =
           [Overlay(tracker[v]) EXCEPT ![sl] =
               IF remove THEN NoInfo ELSE NewEndpointSliceInfo(es, FALSE)]
    BY UpdateOverlay
<1>2. slices' \in [SliceName -> EndpointSlice \cup {NoSlice}]
      /\ slices'[sl] = (IF remove THEN NoSlice ELSE es)
      /\ \A t \in SliceName \ {sl} : slices'[t] = slices[t]
    BY DEF TypeOK
<1>3. TypeOK'
    BY <1>1, <1>2 DEF TypeOK
<1>4. es # NoSlice /\ v \in Service
    BY SliceAssumption DEF EndpointSlice
<1>5. ASSUME NEW s \in Service \ {v}
      PROVE  Described(s)' = Described(s)
    <2>1. (slices[sl] # NoSlice /\ slices[sl].service = s) <=> FALSE
        BY <1>5
    <2>2. (slices'[sl] # NoSlice /\ slices'[sl].service = s) <=> FALSE
        BY <1>2, <1>5
    <2>3. \A t \in SliceName : Described(s)'[t] = Described(s)[t]
        BY <1>2, <2>1, <2>2 DEF Described
    <2>4. Described(s)' = [t \in SliceName |-> Described(s)'[t]]
        BY DEF Described
    <2>5. Described(s) = [t \in SliceName |-> Described(s)[t]]
        BY DEF Described
    <2> QED BY <2>3, <2>4, <2>5
<1>6. Described(v)' = [Described(v) EXCEPT ![sl] =
                          IF remove THEN NoInfo ELSE NewEndpointSliceInfo(es, FALSE)]
    <2>1. \A t \in SliceName : Described(v)'[t] =
             IF t = sl THEN IF remove THEN NoInfo ELSE NewEndpointSliceInfo(es, FALSE)
             ELSE Described(v)[t]
        BY <1>2, <1>4 DEF Described
    <2>2. Described(v)' = [t \in SliceName |-> Described(v)'[t]]
        BY DEF Described
    <2>3. Described(v) = [t \in SliceName |-> Described(v)[t]]
        BY DEF Described
    <2> QED BY <2>1, <2>2, <2>3
<1>7. ASSUME NEW s \in Service
      PROVE  Overlay(tracker'[s]) = Described(s)'
    <2>1. CASE s = v
        BY <2>1, <1>1, <1>4, <1>6 DEF PendingLeadsToSlices
    <2>2. CASE s # v
        BY <2>2, <1>1, <1>5 DEF PendingLeadsToSlices
    <2> QED BY <2>1, <2>2
<1>8. PendingLeadsToSlices'
    BY <1>7 DEF PendingLeadsToSlices
<1>9. MapShowsApplied'
    <2>1. ASSUME NEW s \in Service
          PROVE  (PartOf(endpointsMap, s) = GetEndpointsMap(s, tracker[s].applied))'
        <3>1. PartOf(endpointsMap, s) = GetEndpointsMap(s, tracker[s].applied)
            BY DEF MapShowsApplied
        <3>2. PartOf(endpointsMap, s)' = PartOf(endpointsMap, s)
            BY DEF PartOf
        <3>3. tracker'[s].applied = tracker[s].applied
            BY <1>1
        <3>4. GetEndpointsMap(s, tracker[s].applied)' = GetEndpointsMap(s, tracker[s].applied)
            BY <3>3 DEF GetEndpointsMap, EndpointsOfPort
        <3> QED BY <3>1, <3>2, <3>4
    <2> QED BY <2>1 DEF MapShowsApplied
<1> QED BY <1>3, <1>5, <1>8, <1>9

\* Apply makes the part of every service the map of its overlaid slices.
LEMMA ApplyPart ==
    ASSUME IInv, NEW s \in Service, Apply
    PROVE  /\ PartOf(endpointsMap, s)' = Current(s)
           /\ tracker'[s] = [applied |-> Overlay(tracker[s]), pending |-> NoInfos]
<1> USE DEF IInv
<1> DEFINE keys == (DOMAIN endpointsMap \ Unmerged) \cup Merged
           D == {j \in DOMAIN endpointsMap' : j[1] = s}
<1>1. /\ DOMAIN endpointsMap' = keys
      /\ \A k \in keys : endpointsMap'[k] = IF k \in Merged THEN Current(k[1])[k]
                                                            ELSE endpointsMap[k]
    BY DEF Apply
<1>2. \A t \in Service : /\ \A k \in DOMAIN Previous(t) : k[1] = t
                         /\ \A k \in DOMAIN Current(t) : k[1] = t
    BY GetEndpointsMapType DEF Previous, Current
<1>3. \A k : k[1] = s => (k \in Unmerged <=> s \in Changed /\ k \in DOMAIN Previous(s))
    BY <1>2 DEF Unmerged, Changed
<1>4. \A k : k[1] = s => (k \in Merged <=> s \in Changed /\ k \in DOMAIN Current(s))
    BY <1>2 DEF Merged, Changed
<1>5. PartOf(endpointsMap, s)' = [k \in D |-> endpointsMap'[k]]
    BY DEF PartOf
<1>6. {j \in DOMAIN endpointsMap : j[1] = s} = DOMAIN Previous(s)
      /\ PartOf(endpointsMap, s) = Previous(s)
    <2>1. PartOf(endpointsMap, s) = Previous(s)
        BY DEF MapShowsApplied, Previous
    <2> QED BY <2>1 DEF PartOf
<1> HIDE DEF keys
<1>7. CASE s \in Changed
    <2>1. D = DOMAIN Current(s)
        <3>1. \A k \in D : k \in DOMAIN Current(s)
            BY <1>1, <1>3, <1>4, <1>6, <1>7 DEF keys
        <3>2. \A k \in DOMAIN Current(s) : k \in D
            BY <1>1, <1>2, <1>4, <1>7 DEF keys
        <3> QED BY <3>1, <3>2
    <2>2. ASSUME NEW k \in D PROVE endpointsMap'[k] = Current(s)[k]
        <3>1. k[1] = s /\ k \in keys
            BY <1>1
        <3>2. k \in Merged
            BY <1>4, <1>7, <2>1, <3>1
        <3> QED BY <1>1, <3>1, <3>2
    <2>3. Current(s) = [k \in DOMAIN Current(s) |-> Current(s)[k]]
        BY GetEndpointsMapType DEF Current
    <2>4. tracker'[s] = [applied |-> Overlay(tracker[s]), pending |-> NoInfos]
        BY <1>7 DEF Apply, CheckoutChanges
    <2> HIDE DEF D
    <2> QED BY <1>5, <2>1, <2>2, <2>3, <2>4
<1>8. CASE s \notin Changed
    <2>1. tracker[s].pending = NoInfos
        BY <1>8 DEF Changed
    <2>2. Overlay(tracker[s]) = tracker[s].applied
        <3>1. \A sl \in SliceName : Overlay(tracker[s])[sl] = tracker[s].applied[sl]
            BY <2>1 DEF Overlay, NoInfos
        <3>2. Overlay(tracker[s]) = [sl \in SliceName |-> Overlay(tracker[s])[sl]]
            BY DEF Overlay
        <3>3. tracker[s].applied = [sl \in SliceName |-> tracker[s].applied[sl]]
            BY TrackerType
        <3> QED BY <3>1, <3>2, <3>3
    <2>3. Current(s) = Previous(s)
        BY <2>2 DEF Current, Previous
    <2>4. D = {j \in DOMAIN endpointsMap : j[1] = s}
        BY <1>1, <1>3, <1>4, <1>8 DEF keys
    <2>5. \A k \in D : endpointsMap'[k] = endpointsMap[k]
        BY <1>1, <1>4, <1>8 DEF keys
    <2>6. PartOf(endpointsMap, s) = [k \in D |-> endpointsMap[k]]
        BY <2>4 DEF PartOf
    <2>7. tracker'[s] = tracker[s]
        BY <1>8 DEF Apply, CheckoutChanges
    <2>8. tracker[s] = [applied |-> tracker[s].applied, pending |-> tracker[s].pending]
        BY TrackerType
    <2> HIDE DEF D
    <2> QED BY <1>5, <1>6, <2>1, <2>2, <2>3, <2>5, <2>6, <2>7, <2>8
<1> QED BY <1>7, <1>8

\* Apply preserves the invariant.
LEMMA ApplyPreserves ==
    ASSUME IInv, Apply
    PROVE  IInv'
<1> USE DEF IInv
<1>1. \A s \in Service : tracker'[s] = [applied |-> Overlay(tracker[s]), pending |-> NoInfos]
    BY ApplyPart
<1>2. tracker' \in [Service -> [applied : [SliceName -> AppliedInfo \cup {NoInfo}],
                                pending : [SliceName -> EndpointSliceInfo \cup {NoInfo}]]]
    <2>1. tracker' = [s \in Service |-> tracker'[s]]
        BY DEF Apply, CheckoutChanges
    <2>2. NoInfos \in [SliceName -> EndpointSliceInfo \cup {NoInfo}]
        BY DEF NoInfos
    <2>3. \A s \in Service : Overlay(tracker[s]) \in [SliceName -> AppliedInfo \cup {NoInfo}]
        BY TrackerType
    <2> QED BY <1>1, <2>1, <2>2, <2>3
<1>3. /\ endpointsMap' \in [DOMAIN endpointsMap' ->
                              (SUBSET (IPv4 \X (PortNumber \ {0}))) \ {{}}]
      /\ DOMAIN endpointsMap' \subseteq Service \X PortName
    <2> DEFINE keys == (DOMAIN endpointsMap \ Unmerged) \cup Merged
               val(k) == IF k \in Merged THEN Current(k[1])[k] ELSE endpointsMap[k]
               T == (SUBSET (IPv4 \X (PortNumber \ {0}))) \ {{}}
    <2>1. endpointsMap' = [k \in keys |-> val(k)]
        BY DEF Apply
    <2>2. ASSUME NEW k \in Merged
          PROVE  k \in Service \X PortName /\ Current(k[1])[k] \in T
        <3>1. PICK s \in Changed : k \in DOMAIN Current(s)
            BY DEF Merged
        <3>2. s \in Service
            BY DEF Changed
        <3> QED BY <3>1, <3>2, GetEndpointsMapType DEF Current
    <2>3. \A k \in DOMAIN endpointsMap : k \in Service \X PortName /\ endpointsMap[k] \in T
        BY DEF TypeOK
    <2>4. \A k \in keys : k \in Service \X PortName /\ val(k) \in T
        BY <2>2, <2>3
    <2> HIDE DEF keys, val, T
    <2>5. endpointsMap' \in [keys -> T] /\ keys \subseteq Service \X PortName
        BY <2>1, <2>4
    <2> QED BY <2>5 DEF T
<1>4. slices' = slices
    BY DEF Apply
<1>5. TypeOK'
    BY <1>2, <1>3, <1>4 DEF TypeOK
<1>6. ASSUME NEW s \in Service
      PROVE  /\ Overlay(tracker'[s]) = Described(s)'
             /\ PartOf(endpointsMap, s)' = GetEndpointsMap(s, tracker[s].applied)'
    <2> DEFINE o == Overlay(tracker[s])
    <2>0. tracker'[s] = [applied |-> o, pending |-> NoInfos]
        BY <1>1
    <2> HIDE DEF o
    <2>1a. tracker'[s].applied = o /\ tracker'[s].pending = NoInfos
        BY <2>0
    <2>1. tracker'[s].applied = Overlay(tracker[s]) /\ tracker'[s].pending = NoInfos
        BY <2>1a DEF o
    <2>2. Overlay(tracker'[s]) = Overlay(tracker[s])
        <3>1. \A sl \in SliceName : Overlay(tracker'[s])[sl] = Overlay(tracker[s])[sl]
            BY <2>1 DEF Overlay, NoInfos
        <3> QED BY <3>1 DEF Overlay
    <2>3. Described(s)' = Described(s)
        BY <1>4 DEF Described
    <2>4. PartOf(endpointsMap, s)' = Current(s)
        BY ApplyPart
    <2>5. GetEndpointsMap(s, tracker[s].applied)' = Current(s)
        BY <2>1 DEF Current, GetEndpointsMap, EndpointsOfPort
    <2> QED BY <2>2, <2>3, <2>4, <2>5 DEF PendingLeadsToSlices
<1> QED BY <1>5, <1>6 DEF PendingLeadsToSlices, MapShowsApplied
-----------------------------------------------------------------------------
\* What the three callbacks have in common.
LEMMA CallbackIsEvent ==
    ASSUME TypeOK, NEW sl \in SliceName,
           \/ OnEndpointSliceAdd(sl)
           \/ OnEndpointSliceUpdateInPlace(sl)
           \/ OnEndpointSliceDelete(sl)
    PROVE  \E es \in EndpointSlice, remove \in BOOLEAN :
             /\ slices[sl] # NoSlice => slices[sl].service = es.service
             /\ slices' = [slices EXCEPT ![sl] = IF remove THEN NoSlice ELSE es]
             /\ EndpointSliceUpdate(sl, es, remove)
             /\ UNCHANGED endpointsMap
<1>1. CASE OnEndpointSliceAdd(sl)
    <2>1. PICK es \in EndpointSlice : /\ slices[sl] = NoSlice
                                      /\ slices' = [slices EXCEPT ![sl] = es]
                                      /\ EndpointSliceUpdate(sl, es, FALSE)
                                      /\ UNCHANGED endpointsMap
        BY <1>1 DEF OnEndpointSliceAdd
    <2> WITNESS es \in EndpointSlice, FALSE \in BOOLEAN
    <2> QED BY <2>1
<1>2. CASE OnEndpointSliceUpdateInPlace(sl)
    <2>1. PICK es \in EndpointSlice : /\ slices[sl] # NoSlice
                                      /\ es.service = slices[sl].service
                                      /\ OnEndpointSliceUpdate(sl, es)
        BY <1>2 DEF OnEndpointSliceUpdateInPlace
    <2>2. /\ slices' = [slices EXCEPT ![sl] = es]
          /\ EndpointSliceUpdate(sl, es, FALSE)
          /\ UNCHANGED endpointsMap
        BY <2>1 DEF OnEndpointSliceUpdate
    <2> WITNESS es \in EndpointSlice, FALSE \in BOOLEAN
    <2> QED BY <2>1, <2>2
<1>3. CASE OnEndpointSliceDelete(sl)
    <2>1. PICK es \in EndpointSlice :
          /\ es = slices[sl]
          /\ slices' = [slices EXCEPT ![sl] = NoSlice]
          /\ EndpointSliceUpdate(sl, es, TRUE)
          /\ UNCHANGED endpointsMap
        BY <1>3 DEF OnEndpointSliceDelete, TypeOK
    <2> WITNESS es \in EndpointSlice, TRUE \in BOOLEAN
    <2> QED BY <2>1
<1> QED BY <1>1, <1>2, <1>3

LEMMA InitIInv == Init => IInv
<1> SUFFICES ASSUME Init PROVE IInv
    OBVIOUS
<1>1. NoInfos \in [SliceName -> EndpointSliceInfo \cup {NoInfo}]
      /\ NoInfos \in [SliceName -> AppliedInfo \cup {NoInfo}]
    BY DEF NoInfos
<1>2. \A s \in Service : tracker[s] = [applied |-> NoInfos, pending |-> NoInfos]
    BY DEF Init
<1>3. DOMAIN endpointsMap = {} /\ endpointsMap = [k \in {} |-> {}]
    BY DEF Init
<1>4. TypeOK
    BY <1>1, <1>3 DEF Init, TypeOK
<1>5. ASSUME NEW s \in Service
      PROVE  Overlay(tracker[s]) = Described(s)
    BY <1>2 DEF Init, Overlay, Described, NoInfos
<1>6. ASSUME NEW s \in Service
      PROVE  PartOf(endpointsMap, s) = GetEndpointsMap(s, tracker[s].applied)
    <2>1. PartOf(endpointsMap, s) = [k \in {} |-> {}]
        BY <1>3 DEF PartOf
    <2>2. \A n : EndpointsOfPort(NoInfos, n) = {}
        BY DEF EndpointsOfPort, NoInfos
    <2>3. GetEndpointsMap(s, NoInfos) = [k \in {} |-> {}]
        BY <2>2 DEF GetEndpointsMap
    <2> QED BY <1>2, <2>1, <2>3
<1> QED BY <1>4, <1>5, <1>6 DEF IInv, PendingLeadsToSlices, MapShowsApplied

LEMMA StutterPreserves == IInv /\ UNCHANGED vars => IInv'
<1> SUFFICES ASSUME IInv, UNCHANGED vars PROVE IInv'
    OBVIOUS
<1>1. slices' = slices /\ tracker' = tracker /\ endpointsMap' = endpointsMap
    BY DEF vars
<1>2. TypeOK'
    BY <1>1 DEF IInv, TypeOK
<1>3. PendingLeadsToSlices'
    BY <1>1 DEF IInv, PendingLeadsToSlices, Overlay, Described
<1>4. MapShowsApplied'
    <2>1. ASSUME NEW s \in Service
          PROVE  (PartOf(endpointsMap, s) = GetEndpointsMap(s, tracker[s].applied))'
        <3>1. PartOf(endpointsMap, s)' = PartOf(endpointsMap, s)
            BY <1>1 DEF PartOf
        <3>2. GetEndpointsMap(s, tracker[s].applied)' = GetEndpointsMap(s, tracker[s].applied)
            BY <1>1 DEF GetEndpointsMap, EndpointsOfPort
        <3> QED BY <3>1, <3>2 DEF IInv, MapShowsApplied
    <2> QED BY <2>1 DEF MapShowsApplied
<1> QED BY <1>2, <1>3, <1>4 DEF IInv

LEMMA StepIInv == IInv /\ [Next]_vars => IInv'
<1> SUFFICES ASSUME IInv, [Next]_vars PROVE IInv'
    OBVIOUS
<1>1. ASSUME NEW sl \in SliceName,
             \/ OnEndpointSliceAdd(sl)
             \/ OnEndpointSliceUpdateInPlace(sl)
             \/ OnEndpointSliceDelete(sl)
      PROVE  IInv'
    <2>1. TypeOK
        BY DEF IInv
    <2> QED BY <1>1, <2>1, CallbackIsEvent, EventPreserves
<1>2. CASE Apply
    BY <1>2, ApplyPreserves
<1>3. CASE UNCHANGED vars
    BY <1>3, StutterPreserves
<1> QED BY <1>1, <1>2, <1>3 DEF Next

\* The variables keep their types; in particular no port is ever listed
\* without endpoints (endpointslice.go:465-534, 572-591).
THEOREM TypeCorrect == Spec => []TypeOK
<1>1. IInv => TypeOK
    BY DEF IInv
<1> QED BY <1>1, InitIInv, StepIInv, PTL DEF Spec

\* Whatever sequence of callbacks a slice goes through between two
\* synchronisations, the cache ends up with its last description
\* (endpointslice.go:399-456, 542-568).
THEOREM PendingIsComplete == Spec => []PendingLeadsToSlices
<1>1. IInv => PendingLeadsToSlices
    BY DEF IInv
<1> QED BY <1>1, InitIInv, StepIInv, PTL DEF Spec

\* The map the rules are generated from shows the applied slices and nothing
\* else (endpointslice.go:426-456, 711-737).
THEOREM MapIsExact == Spec => []MapShowsApplied
<1>1. IInv => MapShowsApplied
    BY DEF IInv
<1> QED BY <1>1, InitIInv, StepIInv, PTL DEF Spec
-----------------------------------------------------------------------------
\* The cache implements SyncedView: a callback is an observation about the
\* service its slice belongs to, an apply publishes every service
\* (endpointslice.go:399-456, 711-737).
THEOREM CacheImplementsView == Spec => ImplementsView
<1>1. Init => View!ViewInit
    <2> SUFFICES ASSUME Init PROVE View!ViewInit
        OBVIOUS
    <2>1. ASSUME NEW s \in Service
          PROVE  GetEndpointsMap(s, Described(s)) = [k \in {} |-> {}]
        <3>1. \A n : EndpointsOfPort(Described(s), n) = {}
            BY DEF EndpointsOfPort, Described, Init
        <3> QED BY <3>1 DEF GetEndpointsMap
    <2>2. ASSUME NEW s \in Service
          PROVE  PartOf(endpointsMap, s) = [k \in {} |-> {}]
        BY DEF Init, PartOf
    <2> QED BY <2>1, <2>2 DEF View!ViewInit
<1>2. IInv /\ [Next]_vars => [View!ViewNext]_(View!viewVars)
    <2> SUFFICES ASSUME IInv, [Next]_vars PROVE [View!ViewNext]_(View!viewVars)
        OBVIOUS
    <2>1. ASSUME NEW sl \in SliceName,
                 \/ OnEndpointSliceAdd(sl)
                 \/ OnEndpointSliceUpdateInPlace(sl)
                 \/ OnEndpointSliceDelete(sl)
          PROVE  View!ViewNext
        <3>1. PICK es \in EndpointSlice, remove \in BOOLEAN :
                 /\ slices[sl] # NoSlice => slices[sl].service = es.service
                 /\ slices' = [slices EXCEPT ![sl] = IF remove THEN NoSlice ELSE es]
                 /\ EndpointSliceUpdate(sl, es, remove)
                 /\ UNCHANGED endpointsMap
            BY <2>1, CallbackIsEvent DEF IInv
        <3>2. \A s \in Service \ {es.service} : Described(s)' = Described(s)
            BY <3>1, EventPreserves
        <3>3. \A s \in Service \ {es.service} :
                GetEndpointsMap(s, Described(s))' = GetEndpointsMap(s, Described(s))
            BY <3>2 DEF GetEndpointsMap, EndpointsOfPort
        <3>4. [s \in Service |-> PartOf(endpointsMap, s)]'
                = [s \in Service |-> PartOf(endpointsMap, s)]
            BY <3>1 DEF PartOf
        <3>5. es.service \in Service
            BY DEF EndpointSlice
        <3>6. View!Observe(es.service)
            BY <3>3, <3>4, <3>5 DEF View!Observe
        <3> QED BY <3>5, <3>6 DEF View!ViewNext
    <2>2. CASE Apply
        <3>1. \A s \in Service : PartOf(endpointsMap, s)' = Current(s)
            BY <2>2, ApplyPart
        <3>2. \A s \in Service : Current(s) = GetEndpointsMap(s, Described(s))
            BY DEF Current, IInv, PendingLeadsToSlices
        <3>3. \A s \in Service :
                GetEndpointsMap(s, Described(s))' = GetEndpointsMap(s, Described(s))
            BY <2>2 DEF Apply, GetEndpointsMap, EndpointsOfPort, Described
        <3>4. View!Publish
            BY <3>1, <3>2, <3>3 DEF View!Publish
        <3> QED BY <3>4 DEF View!ViewNext
    <2>3. CASE UNCHANGED vars
        <3>1. UNCHANGED View!viewVars
            BY <2>3 DEF vars, View!viewVars, PartOf, GetEndpointsMap,
                        EndpointsOfPort, Described
        <3> QED BY <3>1
    <2> QED BY <2>1, <2>2, <2>3 DEF Next
<1> QED BY <1>1, <1>2, InitIInv, StepIInv, PTL DEF Spec, ImplementsView, View!ViewSpec
=============================================================================
