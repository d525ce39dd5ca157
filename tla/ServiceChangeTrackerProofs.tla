---------------------- MODULE ServiceChangeTrackerProofs ----------------------
(***************************************************************************)
(* Proofs about ServiceChangeTracker, for any sets of services, ports,     *)
(* addresses and networks.                                                 *)
(*                                                                         *)
(* TypeOK /\ NothingLost is inductive.  The heart of it is one fact about  *)
(* Apply: although the changes are applied to one shared map, each touches *)
(* only the keys of its own service, so that the part of every service     *)
(* ends up being what that service alone would get.                        *)
(***************************************************************************)
EXTENDS ServiceChangeTracker, TLAPS

IInv == TypeOK /\ NothingLost
-----------------------------------------------------------------------------
\* The map of an object, nil or not, has the right type, and its keys are all
\* of the service it is the map of.
LEMMA ServiceToServiceMapType ==
    ASSUME NEW s \in Service, NEW o \in ServiceObject \cup {NoService}
    PROVE  /\ ServiceToServiceMap(s, o) \in ServiceMap \cup {NilMap}
           /\ Entries(ServiceToServiceMap(s, o)) \in ServiceMap
           /\ \A k \in DOMAIN Entries(ServiceToServiceMap(s, o)) : k[1] = s
<1> DEFINE K == {s} \X o.ports
           m == [k \in K |->
                   [ClusterIP |-> o.ClusterIP, TargetNetwork |-> o.network]]
<1>1. [k \in {} |-> k] \in ServiceMap
    <2>1. [k \in {} |-> k] \in [{} -> ServicePortInfo]
        OBVIOUS
    <2> QED BY <2>1 DEF ServiceMap
<1>2. CASE o = NoService \/ o.network = NoNetwork
    BY <1>1, <1>2 DEF ServiceToServiceMap, Entries
<1>3. CASE ~(o = NoService \/ o.network = NoNetwork)
    <2>1. o \in ServiceObject /\ o.ports \subseteq Port
          /\ o.ClusterIP \in ClusterIP /\ o.network \in Network
        BY <1>3 DEF ServiceObject
    <2>2. K \in SUBSET ServicePortName
        BY <2>1 DEF ServicePortName
    <2>3. m \in [K -> ServicePortInfo]
        BY <2>1 DEF ServicePortInfo
    <2>4. m \in ServiceMap
        BY <2>2, <2>3 DEF ServiceMap
    <2>5. ServiceToServiceMap(s, o) = m
        BY <1>3 DEF ServiceToServiceMap
    <2>6. Entries(m) = m
        BY <2>4, AbsentAssumption DEF Entries
    <2>7. DOMAIN m = K /\ \A k \in K : k[1] = s
        OBVIOUS
    <2> QED BY <2>4, <2>5, <2>6, <2>7
<1> QED BY <1>2, <1>3

\* A map is a function on pairs of a service and a port.
LEMMA ServiceMapFunction ==
    ASSUME NEW m \in ServiceMap
    PROVE  /\ DOMAIN m \subseteq ServicePortName
           /\ m = [k \in DOMAIN m |-> m[k]]
           /\ \A k \in DOMAIN m : m[k] \in ServicePortInfo
<1>1. PICK K \in SUBSET ServicePortName : m \in [K -> ServicePortInfo]
    BY DEF ServiceMap
<1> QED BY <1>1

\* Restricting a map to one service leaves a map.
LEMMA PartOfType ==
    ASSUME NEW m \in ServiceMap, NEW s \in Service
    PROVE  PartOf(m, s) \in ServiceMap
<1> DEFINE K == {j \in DOMAIN m : j[1] = s}
<1>1. DOMAIN m \subseteq ServicePortName /\ \A k \in DOMAIN m : m[k] \in ServicePortInfo
    BY ServiceMapFunction
<1>2. K \in SUBSET ServicePortName /\ [k \in K |-> m[k]] \in [K -> ServicePortInfo]
    BY <1>1
<1> QED BY <1>2 DEF PartOf, ServiceMap

\* Update leaves the items of the other services alone, and those of s either
\* record the way from the earlier "previous" to the new object or, when there
\* is no way to go, are dropped.
LEMMA UpdateEffect ==
    ASSUME TypeOK, NEW s \in Service,
           NEW previous \in ServiceObject \cup {NoService},
           NEW current \in ServiceObject \cup {NoService},
           Update(s, previous, current)
    PROVE  /\ items' \in [Service -> Change \cup {NoChange}]
           /\ \A t \in Service \ {s} : items'[t] = items[t]
           /\ LET prev == IF items[s] = NoChange
                            THEN ServiceToServiceMap(s, previous)
                            ELSE items[s].previous
                  cur  == ServiceToServiceMap(s, current)
              IN  IF prev = cur THEN items'[s] = NoChange
                  ELSE items'[s] = [previous |-> prev, current |-> cur]
<1> DEFINE prev == IF items[s] = NoChange THEN ServiceToServiceMap(s, previous)
                                          ELSE items[s].previous
           cur == ServiceToServiceMap(s, current)
           new == IF prev = cur THEN NoChange
                                ELSE [previous |-> prev, current |-> cur]
<1>1. cur \in ServiceMap \cup {NilMap} /\ prev \in ServiceMap \cup {NilMap}
    BY ServiceToServiceMapType DEF TypeOK, Change
<1>2. new \in Change \cup {NoChange}
    BY <1>1 DEF Change
<1>3. items' = [items EXCEPT ![s] = new]
    BY DEF Update
<1> HIDE DEF new
<1>4. items' \in [Service -> Change \cup {NoChange}] /\ items'[s] = new
      /\ \A t \in Service \ {s} : items'[t] = items[t]
    BY <1>2, <1>3 DEF TypeOK
<1> QED BY <1>4 DEF new

\* Each of the three callbacks replaces the last object of one service.
LEMMA EventPreserves ==
    ASSUME IInv, NEW s \in Service,
           NEW current \in ServiceObject \cup {NoService},
           seen' = [seen EXCEPT ![s] = current],
           Update(s, seen[s], current),
           UNCHANGED serviceMap
    PROVE  IInv'
<1> DEFINE prev == IF items[s] = NoChange THEN ServiceToServiceMap(s, seen[s])
                                          ELSE items[s].previous
           cur == ServiceToServiceMap(s, current)
<1> USE DEF IInv
<1>1. seen[s] \in ServiceObject \cup {NoService}
    BY DEF TypeOK
<1>2. /\ items' \in [Service -> Change \cup {NoChange}]
      /\ \A t \in Service \ {s} : items'[t] = items[t]
      /\ IF prev = cur THEN items'[s] = NoChange
         ELSE items'[s] = [previous |-> prev, current |-> cur]
    BY <1>1, UpdateEffect
<1>3. TypeOK'
    BY <1>2 DEF TypeOK
<1>4. Entries(prev) = PartOf(serviceMap, s)
    BY DEF NothingLost, AfterApply, Wanted
<1>5. Entries(cur) = Wanted(s)'
    BY DEF Wanted, TypeOK
<1>6. [previous |-> prev, current |-> cur] # NoChange
    <2>1. cur \in ServiceMap \cup {NilMap} /\ prev \in ServiceMap \cup {NilMap}
        BY <1>1, ServiceToServiceMapType DEF TypeOK, Change
    <2> QED BY <2>1, AbsentAssumption DEF Change
<1>7. ASSUME NEW t \in Service
      PROVE  (/\ AfterApply(t) = Wanted(t)
              /\ items[t] # NoChange => Entries(items[t].previous) = PartOf(serviceMap, t))'
    <2>1. CASE t = s
        <3>1. CASE prev = cur
            <4>1. items'[s] = NoChange
                BY <1>2, <3>1
            <4>2. AfterApply(s)' = PartOf(serviceMap, s)
                BY <4>1 DEF AfterApply
            <4> QED BY <2>1, <3>1, <4>1, <4>2, <1>4, <1>5
        <3>2. CASE prev # cur
            <4>1. /\ items'[s] # NoChange
                  /\ items'[s].previous = prev
                  /\ items'[s].current = cur
                BY <1>2, <1>6, <3>2
            <4> HIDE DEF prev, cur
            <4>2. AfterApply(s)' = Entries(cur)
                BY <4>1 DEF AfterApply, Entries
            <4>3. Entries(items[s].previous)' = PartOf(serviceMap, s)'
                BY <4>1, <1>4 DEF Entries, PartOf
            <4> QED BY <2>1, <4>2, <4>3, <1>5
        <3> QED BY <3>1, <3>2
    <2>2. CASE t # s
        <3>1. items'[t] = items[t] /\ seen'[t] = seen[t]
            BY <1>2, <2>2 DEF TypeOK
        <3>2. AfterApply(t)' = AfterApply(t)
            BY <3>1 DEF AfterApply, PartOf, Entries
        <3>3. Wanted(t)' = Wanted(t)
            BY <3>1 DEF Wanted, ServiceToServiceMap, Entries
        <3> QED BY <3>1, <3>2, <3>3 DEF NothingLost, PartOf, Entries
    <2> QED BY <2>1, <2>2
<1> QED BY <1>3, <1>7 DEF NothingLost

\* What apply makes of the part of one service: nothing new if the service has
\* no pending change, the entries of its current map otherwise.
LEMMA ApplyPart ==
    ASSUME IInv, NEW s \in Service, Apply
    PROVE  PartOf(serviceMap, s)' = AfterApply(s)
<1> USE DEF IInv
<1> DEFINE keys == (DOMAIN serviceMap \ Unmerged) \cup Merged
<1>1. /\ DOMAIN serviceMap' = keys
      /\ \A k \in keys : serviceMap'[k] = IF k \in Merged THEN items[k[1]].current[k]
                                                          ELSE serviceMap[k]
    BY DEF Apply
<1>2. ASSUME NEW t \in Pending
      PROVE  /\ \A k \in DOMAIN Entries(items[t].previous) : k[1] = t
             /\ \A k \in DOMAIN Entries(items[t].current) : k[1] = t
    <2>1. t \in Service /\ items[t] # NoChange
        BY DEF Pending
    <2>2. Entries(items[t].previous) = PartOf(serviceMap, t)
        BY <2>1 DEF NothingLost
    <2>3. Entries(items[t].current) = Entries(ServiceToServiceMap(t, seen[t]))
        BY <2>1 DEF NothingLost, AfterApply, Wanted
    <2>4. seen[t] \in ServiceObject \cup {NoService}
        BY <2>1 DEF TypeOK
    <2>5. \A k \in DOMAIN Entries(items[t].current) : k[1] = t
        BY <2>1, <2>3, <2>4, ServiceToServiceMapType
    <2>6. \A k \in DOMAIN PartOf(serviceMap, t) : k[1] = t
        BY DEF PartOf
    <2> QED BY <2>2, <2>5, <2>6
<1>3. \A k : k[1] = s => (k \in Unmerged <=>
                s \in Pending /\ k \in DOMAIN Entries(items[s].previous))
    BY <1>2 DEF Unmerged
<1>4. \A k : k[1] = s => (k \in Merged <=>
                s \in Pending /\ k \in DOMAIN Entries(items[s].current))
    BY <1>2 DEF Merged
<1> DEFINE D == {j \in DOMAIN serviceMap' : j[1] = s}
<1>5. PartOf(serviceMap, s)' = [k \in D |-> serviceMap'[k]]
    BY DEF PartOf
<1> HIDE DEF keys
<1>6. CASE items[s] = NoChange
    <2>1. s \notin Pending
        BY <1>6 DEF Pending
    <2>2. D = {j \in DOMAIN serviceMap : j[1] = s}
        BY <1>1, <1>3, <1>4, <2>1 DEF keys
    <2>3. \A k \in D : serviceMap'[k] = serviceMap[k]
        BY <1>1, <1>4, <2>1 DEF keys
    <2>4. AfterApply(s) = [k \in D |-> serviceMap[k]]
        BY <1>6, <2>2 DEF AfterApply, PartOf
    <2> HIDE DEF D
    <2> QED BY <1>5, <2>3, <2>4
<1>7. CASE items[s] # NoChange
    <2> DEFINE e == Entries(items[s].current)
    <2>1. s \in Pending
        BY <1>7 DEF Pending
    <2>2. DOMAIN Entries(items[s].previous) = {j \in DOMAIN serviceMap : j[1] = s}
        BY <1>7 DEF NothingLost, PartOf
    <2>3. D = DOMAIN e
        <3>1. \A k \in D : k \in DOMAIN e
            BY <1>1, <1>3, <1>4, <2>1, <2>2 DEF keys
        <3>2. \A k \in DOMAIN e : k \in D
            BY <1>1, <1>2, <1>4, <2>1 DEF keys
        <3> QED BY <3>1, <3>2
    <2>4. items[s].current # NilMap => e = items[s].current
        BY DEF Entries
    <2>5. items[s].current = NilMap => DOMAIN e = {}
        BY DEF Entries
    <2>6. \A k \in D : serviceMap'[k] = e[k]
        <3> SUFFICES ASSUME NEW k \in D PROVE serviceMap'[k] = e[k]
            OBVIOUS
        <3>1. k[1] = s /\ k \in keys
            BY <1>1
        <3>2. k \in Merged
            BY <1>4, <2>1, <2>3, <3>1
        <3>3. serviceMap'[k] = items[s].current[k]
            BY <1>1, <3>1, <3>2
        <3> QED BY <2>3, <2>4, <2>5, <3>3
    <2>7. e = [k \in DOMAIN e |-> e[k]]
        <3>1. e = Entries(ServiceToServiceMap(s, seen[s]))
            BY <1>7 DEF NothingLost, AfterApply, Wanted
        <3>2. e \in ServiceMap
            <4>1. seen[s] \in ServiceObject \cup {NoService}
                BY DEF TypeOK
            <4> QED BY <3>1, <4>1, ServiceToServiceMapType
        <3> HIDE DEF e
        <3> QED BY <3>2, ServiceMapFunction
    <2>8. AfterApply(s) = e
        BY <1>7 DEF AfterApply
    <2> HIDE DEF D, e
    <2> QED BY <1>5, <2>3, <2>6, <2>7, <2>8
<1> QED BY <1>6, <1>7

\* Apply preserves the invariant, and leaves nothing pending.
LEMMA ApplyPreserves ==
    ASSUME IInv, Apply
    PROVE  IInv'
<1> USE DEF IInv
<1>1. items' \in [Service -> Change \cup {NoChange}] /\ seen' = seen
      /\ \A s \in Service : items'[s] = NoChange
    BY DEF Apply
<1>2. serviceMap' \in ServiceMap
    <2> DEFINE keys == (DOMAIN serviceMap \ Unmerged) \cup Merged
               val(k) == IF k \in Merged THEN items[k[1]].current[k] ELSE serviceMap[k]
    <2>1. serviceMap' = [k \in keys |-> val(k)]
        BY DEF Apply
    <2>2. ASSUME NEW k \in Merged
          PROVE  k \in ServicePortName /\ items[k[1]].current[k] \in ServicePortInfo
        <3>1. PICK s \in Pending : k \in DOMAIN Entries(items[s].current)
            BY <2>2 DEF Merged
        <3>2. s \in Service /\ items[s] \in Change
            BY DEF Pending, TypeOK
        <3>3. Entries(items[s].current) = Entries(ServiceToServiceMap(s, seen[s]))
            BY <3>1 DEF Pending, NothingLost, AfterApply, Wanted
        <3>4. seen[s] \in ServiceObject \cup {NoService}
            BY <3>2 DEF TypeOK
        <3>5. k[1] = s
            BY <3>1, <3>2, <3>3, <3>4, ServiceToServiceMapType
        <3>6. items[s].current \in ServiceMap /\ k \in DOMAIN items[s].current
            BY <3>1, <3>2 DEF Entries, Change
        <3> QED BY <3>5, <3>6, ServiceMapFunction
    <2>3. serviceMap \in ServiceMap
        BY DEF TypeOK
    <2>4. keys \in SUBSET ServicePortName /\ \A k \in keys : val(k) \in ServicePortInfo
        BY <2>2, <2>3, ServiceMapFunction
    <2> HIDE DEF keys, val
    <2>5. [k \in keys |-> val(k)] \in [keys -> ServicePortInfo]
        BY <2>4
    <2> QED BY <2>1, <2>4, <2>5 DEF ServiceMap
<1>3. TypeOK'
    BY <1>1, <1>2 DEF TypeOK
<1>4. ASSUME NEW s \in Service
      PROVE  AfterApply(s)' = Wanted(s)' /\ items'[s] = NoChange
    <2>1. PartOf(serviceMap, s)' = AfterApply(s)
        BY ApplyPart
    <2>2. AfterApply(s)' = PartOf(serviceMap, s)'
        BY <1>1 DEF AfterApply
    <2>3. Wanted(s)' = Wanted(s)
        BY <1>1 DEF Wanted, ServiceToServiceMap, Entries
    <2> QED BY <1>1, <2>1, <2>2, <2>3 DEF NothingLost
<1> QED BY <1>3, <1>4 DEF NothingLost
-----------------------------------------------------------------------------
LEMMA InitIInv == Init => IInv
<1> SUFFICES ASSUME Init PROVE IInv
    OBVIOUS
<1>1. serviceMap \in ServiceMap
    <2>1. serviceMap \in [{} -> ServicePortInfo]
        BY DEF Init
    <2> QED BY <2>1 DEF ServiceMap
<1>2. TypeOK
    BY <1>1 DEF Init, TypeOK
<1>3. ASSUME NEW s \in Service
      PROVE  AfterApply(s) = Wanted(s) /\ items[s] = NoChange
    <2>1. DOMAIN serviceMap = {}
        BY DEF Init
    <2>2. PartOf(serviceMap, s) = [k \in {} |-> k]
        BY <2>1 DEF PartOf
    <2>3. Wanted(s) = [k \in {} |-> k]
        BY DEF Init, Wanted, ServiceToServiceMap, Entries
    <2> QED BY <2>2, <2>3 DEF AfterApply, Init
<1> QED BY <1>2, <1>3 DEF IInv, NothingLost

LEMMA StepIInv == IInv /\ [Next]_vars => IInv'
<1> SUFFICES ASSUME IInv, [Next]_vars PROVE IInv'
    OBVIOUS
<1>1. ASSUME NEW s \in Service, OnServiceAdd(s) PROVE IInv'
    <2>1. PICK o \in ServiceObject : /\ seen[s] = NoService
                                     /\ seen' = [seen EXCEPT ![s] = o]
                                     /\ Update(s, NoService, o)
                                     /\ UNCHANGED serviceMap
        BY <1>1 DEF OnServiceAdd
    <2>2. Update(s, seen[s], o)
        BY <2>1
    <2> QED BY <2>1, <2>2, EventPreserves
<1>2. ASSUME NEW s \in Service, OnServiceUpdate(s) PROVE IInv'
    BY <1>2, EventPreserves DEF OnServiceUpdate
<1>3. ASSUME NEW s \in Service, OnServiceDelete(s) PROVE IInv'
    BY <1>3, EventPreserves DEF OnServiceDelete
<1>4. CASE Apply
    BY <1>4, ApplyPreserves
<1>5. CASE UNCHANGED vars
    <2>1. seen' = seen /\ items' = items /\ serviceMap' = serviceMap
        BY <1>5 DEF vars
    <2>2. TypeOK'
        BY <2>1 DEF IInv, TypeOK
    <2>3. \A s \in Service : Wanted(s)' = Wanted(s)
        BY <2>1 DEF Wanted, ServiceToServiceMap, Entries
    <2>4. \A s \in Service : AfterApply(s)' = AfterApply(s)
        BY <2>1 DEF AfterApply, PartOf, Entries
    <2>5. NothingLost'
        BY <2>1, <2>3, <2>4 DEF IInv, NothingLost, PartOf, Entries
    <2> QED BY <2>2, <2>5 DEF IInv
<1> QED BY <1>1, <1>2, <1>3, <1>4, <1>5 DEF Next

\* The variables keep their types (service.go:167-222).
THEOREM TypeCorrect == Spec => []TypeOK
<1>1. Init => IInv
    BY InitIInv
<1>2. IInv /\ [Next]_vars => IInv'
    BY StepIInv
<1>3. IInv => TypeOK
    BY DEF IInv
<1> QED BY <1>1, <1>2, <1>3, PTL DEF Spec

\* No event is lost between two synchronisations, whatever the order in which
\* callbacks and applies take the tracker's lock (service.go:267-300, 183-197).
THEOREM NothingIsLost == Spec => []NothingLost
<1>1. Init => IInv
    BY InitIInv
<1>2. IInv /\ [Next]_vars => IInv'
    BY StepIInv
<1>3. IInv => NothingLost
    BY DEF IInv
<1> QED BY <1>1, <1>2, <1>3, PTL DEF Spec
-----------------------------------------------------------------------------
\* An event is one observation about its service.
LEMMA EventObserves ==
    ASSUME IInv, NEW s \in Service,
           NEW current \in ServiceObject \cup {NoService},
           seen' = [seen EXCEPT ![s] = current],
           UNCHANGED serviceMap
    PROVE  View!ViewNext
<1> USE DEF IInv
<1> DEFINE v == Entries(ServiceToServiceMap(s, current))
<1>1. v \in ServiceMap
    BY ServiceToServiceMapType
<1>2. \A t \in Service : Wanted(t)' = IF t = s THEN v ELSE Wanted(t)
    <2>1. \A t \in Service : seen'[t] = IF t = s THEN current ELSE seen[t]
        BY DEF TypeOK
    <2> QED BY <2>1 DEF Wanted, ServiceToServiceMap, Entries
<1>3. [t \in Service |-> Wanted(t)'] = [[t \in Service |-> Wanted(t)] EXCEPT ![s] = v]
    BY <1>2
<1>4. [t \in Service |-> PartOf(serviceMap', t)] = [t \in Service |-> PartOf(serviceMap, t)]
    OBVIOUS
<1>5. View!Observe(s)
    <2>1. [t \in Service |-> Wanted(t)'][s] = v
        BY <1>2
    <2> QED BY <2>1, <1>3, <1>4 DEF View!Observe, Wanted, PartOf
<1> QED BY <1>5 DEF View!ViewNext

\* The tracker implements SyncedView (service.go:183-197, 267-300): an apply
\* publishes all that was observed, and nothing else changes the map.
THEOREM TrackerImplementsView == Spec => ImplementsView
<1>1. Init => View!ViewInit
    <2> SUFFICES ASSUME Init PROVE View!ViewInit
        OBVIOUS
    <2>1. \A s \in Service : Wanted(s) = [k \in {} |-> k]
        BY DEF Init, Wanted, ServiceToServiceMap, Entries
    <2>2. \A s \in Service : PartOf(serviceMap, s) = [k \in {} |-> k]
        BY DEF Init, PartOf
    <2> QED BY <2>1, <2>2 DEF View!ViewInit
<1>2. IInv /\ [Next]_vars => [View!ViewNext]_(View!viewVars)
    <2> SUFFICES ASSUME IInv, [Next]_vars PROVE [View!ViewNext]_(View!viewVars)
        OBVIOUS
    <2>1. ASSUME NEW s \in Service, OnServiceAdd(s) PROVE View!ViewNext
        BY <2>1, EventObserves DEF OnServiceAdd
    <2>2. ASSUME NEW s \in Service, OnServiceUpdate(s) PROVE View!ViewNext
        BY <2>2, EventObserves DEF OnServiceUpdate
    <2>3. ASSUME NEW s \in Service, OnServiceDelete(s) PROVE View!ViewNext
        BY <2>3, EventObserves DEF OnServiceDelete
    <2>4. CASE Apply
        <3>1. \A s \in Service : PartOf(serviceMap, s)' = Wanted(s)
            BY <2>4, ApplyPart DEF IInv, NothingLost
        <3>2. \A s \in Service : Wanted(s)' = Wanted(s)
            BY <2>4 DEF Apply, Wanted, ServiceToServiceMap, Entries
        <3>3. View!Publish
            BY <3>1, <3>2 DEF View!Publish
        <3> QED BY <3>3 DEF View!ViewNext
    <2>5. CASE UNCHANGED vars
        <3>1. UNCHANGED View!viewVars
            BY <2>5 DEF vars, View!viewVars, Wanted, PartOf,
                        ServiceToServiceMap, Entries
        <3> QED BY <3>1
    <2> QED BY <2>1, <2>2, <2>3, <2>4, <2>5 DEF Next
<1> QED BY <1>1, <1>2, InitIInv, StepIInv, PTL DEF Spec, ImplementsView, View!ViewSpec
=============================================================================
