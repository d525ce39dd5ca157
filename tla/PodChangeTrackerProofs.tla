----------------------- MODULE PodChangeTrackerProofs -----------------------
(***************************************************************************)
(* Proofs about PodChangeTracker, for every set of pods, containers and    *)
(* objects, and every pattern of calls to the runtime that fail.           *)
(*                                                                         *)
(* The argument is one invariant per pod, Good(q), which relates what the  *)
(* map holds, the pending item and the last object; Update disturbs it for *)
(* one pod only.                                                           *)
(***************************************************************************)
EXTENDS PodChangeTracker, TLAPS

\* What is known of pod q between any two steps.
Live(q) == seen[q] # NoPod /\ seen[q].target /\ seen[q].container \in running

Good(q) ==
    /\ Shown(Applied(q)) = Shown(Describe(seen[q], NoPath))
    /\ items[q] # NoChange =>
         /\ Shown(items[q].previous) = Shown(podMap[q])
         /\ Live(q) => /\ items[q].current # NoInfo
                       /\ items[q].current.NetNSPath \in {seen[q].container, NoPath}
         /\ q \notin doubtful /\ items[q].previous # NoInfo
              /\ items[q].previous.NetNSPath \in running =>
            /\ podMap[q] # NoInfo
            /\ podMap[q].NetNSPath = items[q].previous.NetNSPath
    /\ q \notin doubtful /\ Live(q) =>
         /\ Applied(q) # NoInfo
         /\ Applied(q).NetNSPath = seen[q].container

IInv == TypeOK /\ \A q \in Pod : Good(q)
-----------------------------------------------------------------------------
\* What a description tells of the object it was made from (newPodInfo).
LEMMA DescriptionFacts ==
    ASSUME NEW pod \in PodFields \cup {NoPod}, NEW alive \in SUBSET Container,
           NEW d \in Descriptions(pod, alive)
    PROVE  /\ d \in PodInfo \cup {NoInfo}
           /\ Shown(d) = Shown(Describe(pod, NoPath))
           /\ d # NoInfo /\ d.NetNSPath \in Container =>
                pod # NoPod /\ pod.target /\ pod.container = d.NetNSPath
           /\ pod # NoPod /\ pod.target /\ pod.container \in alive =>
                /\ d # NoInfo
                /\ d.NetNSPath \in {pod.container, NoPath}
                /\ ~Incomplete(d) => d.NetNSPath = pod.container
<1>1. CASE pod = NoPod
  BY <1>1, AbsentAssumption DEF Descriptions, Describe, Shown
<1>2. CASE pod # NoPod
  <2>1. pod \in PodFields
    BY <1>2
  <2>2. PICK path \in Answers(pod.container, alive) : d = Describe(pod, path)
    BY <1>2 DEF Descriptions
  <2>3. path \in NetNSPath /\ NoPath \in NetNSPath
    BY <2>1, <2>2 DEF Answers, PodFields, NetNSPath
  <2>4. CASE pod.target
    <3>1. d = [NetNSPath |-> path, Interfaces |-> pod.status]
      BY <1>2, <2>2, <2>4 DEF Describe
    <3>2. d \in PodInfo /\ d # NoInfo /\ pod.status # NoInterfaces
      BY <2>1, <2>3, <3>1, AbsentAssumption DEF PodInfo, PodFields
    <3>3. Describe(pod, NoPath) = [NetNSPath |-> NoPath, Interfaces |-> pod.status]
      BY <1>2, <2>4 DEF Describe
    <3>4. Describe(pod, NoPath) \in PodInfo
      BY <2>1, <2>3, <3>3 DEF PodInfo, PodFields
    <3>5. Shown(d) = Shown(Describe(pod, NoPath))
      BY <3>1, <3>2, <3>3, <3>4, AbsentAssumption DEF Shown
    <3>6. path \in Container => pod.container = path
      BY <2>2, AbsentAssumption DEF Answers
    <3>7. pod.container \in alive => path \in {pod.container, NoPath}
      BY <2>2, AbsentAssumption DEF Answers
    <3>8. ~Incomplete(d) => path # NoPath
      BY <3>1, <3>2 DEF Incomplete
    <3>. QED  BY <1>2, <2>4, <3>1, <3>2, <3>5, <3>6, <3>7, <3>8
  <2>5. CASE ~pod.target
    <3>1. d = [NetNSPath |-> NoPath, Interfaces |-> NoInterfaces]
          /\ Describe(pod, NoPath) = d
      BY <1>2, <2>2, <2>5 DEF Describe
    <3>2. d \in PodInfo
      BY <2>3, <3>1 DEF PodInfo
    <3>. QED  BY <2>5, <3>1, <3>2, AbsentAssumption
  <2>. QED  BY <2>4, <2>5
<1>. QED  BY <1>1, <1>2

\* With a pending item the next apply leaves its current description.
LEMMA AppliedPending ==
    ASSUME TypeOK, NEW q \in Pod, items[q] # NoChange
    PROVE  Applied(q) = items[q].current
BY DEF TypeOK, Applied

\* A pod nothing happened to, or whose containers ended, stays as it was known.
LEMMA GoodKept ==
    ASSUME TypeOK, NEW q \in Pod, Good(q), running' \subseteq running,
           seen'[q] = seen[q], items'[q] = items[q], podMap'[q] = podMap[q],
           q \in doubtful' <=> q \in doubtful
    PROVE  Good(q)'
<1>1. Applied(q)' = Applied(q)
  BY DEF Applied
<1>2. Live(q)' => Live(q)
  BY DEF Live
<1>. QED  BY <1>1, <1>2 DEF Good

-----------------------------------------------------------------------------
\* PodChangeTracker.Update keeps the types.
LEMMA UpdateType ==
    ASSUME TypeOK, NEW p \in Pod, NEW obj \in PodObject[p] \cup {NoPod},
           Update(p, seen[p], obj),
           seen' = [seen EXCEPT ![p] = obj], UNCHANGED podMap
    PROVE  TypeOK'
<1>1. PICK gone \in SUBSET running, prev \in Previous(p, seen[p]) :
         /\ running' = running \ gone
         /\ \E cur \in Descriptions(obj, running') :
              /\ Keep(p, prev, cur)
              /\ doubtful' = IF Incomplete(prev) \/ Incomplete(cur) THEN doubtful \cup {p}
                             ELSE doubtful
  BY DEF Update
<1>2. PICK cur \in Descriptions(obj, running') :
         /\ Keep(p, prev, cur)
         /\ doubtful' = IF Incomplete(prev) \/ Incomplete(cur) THEN doubtful \cup {p}
                        ELSE doubtful
  BY <1>1
<1>3. /\ seen[p] \in PodFields \cup {NoPod} /\ obj \in PodFields \cup {NoPod}
      /\ running \in SUBSET Container /\ running' \in SUBSET Container
  BY <1>1, ObjectsAssumption DEF TypeOK
<1>4. prev \in PodInfo \cup {NoInfo}
  <2>1. CASE items[p] = NoChange
    BY <1>3, <2>1, DescriptionFacts DEF Previous
  <2>2. CASE items[p] # NoChange
    BY <2>2 DEF Previous, TypeOK, Change
  <2>. QED  BY <2>1, <2>2
<1>5. cur \in PodInfo \cup {NoInfo}
  BY <1>2, <1>3, DescriptionFacts
<1>6. items' \in [Pod -> Change \cup {NoChange}]
  BY <1>2, <1>4, <1>5 DEF Keep, TypeOK, Change
<1>7. \A q \in Pod : items'[q] # NoChange => items'[q].previous # items'[q].current
  BY <1>2 DEF Keep, TypeOK
<1>8. DOMAIN seen' = Pod /\ \A q \in Pod : seen'[q] = NoPod \/ seen'[q] \in PodObject[q]
  BY DEF TypeOK
<1>9. doubtful' \subseteq Pod
  BY <1>2 DEF TypeOK
<1>. QED  BY <1>3, <1>6, <1>7, <1>8, <1>9 DEF TypeOK

\* PodChangeTracker.Update keeps what is known of the pod it is about.
LEMMA UpdateGood ==
    ASSUME TypeOK, NEW p \in Pod, NEW obj \in PodObject[p] \cup {NoPod}, Good(p),
           Update(p, seen[p], obj),
           seen' = [seen EXCEPT ![p] = obj], UNCHANGED podMap, TypeOK'
    PROVE  Good(p)'
<1>1. PICK gone \in SUBSET running, prev \in Previous(p, seen[p]) :
         /\ running' = running \ gone
         /\ \E cur \in Descriptions(obj, running') :
              /\ Keep(p, prev, cur)
              /\ doubtful' = IF Incomplete(prev) \/ Incomplete(cur) THEN doubtful \cup {p}
                             ELSE doubtful
  BY DEF Update
<1>2. PICK cur \in Descriptions(obj, running') :
         /\ Keep(p, prev, cur)
         /\ doubtful' = IF Incomplete(prev) \/ Incomplete(cur) THEN doubtful \cup {p}
                        ELSE doubtful
  BY <1>1
<1>3. /\ seen[p] \in PodFields \cup {NoPod} /\ obj \in PodFields \cup {NoPod}
      /\ running \in SUBSET Container /\ running' \in SUBSET Container
      /\ running' \subseteq running
  BY <1>1, ObjectsAssumption DEF TypeOK
<1>4. seen'[p] = obj
  BY DEF TypeOK
<1>5. items'[p] = IF prev = cur THEN NoChange ELSE [previous |-> prev, current |-> cur]
  BY <1>2 DEF Keep, TypeOK
<1>6. p \notin doubtful' => p \notin doubtful /\ ~Incomplete(prev) /\ ~Incomplete(cur)
  BY <1>2
<1>7. /\ Shown(cur) = Shown(Describe(obj, NoPath))
      /\ obj # NoPod /\ obj.target /\ obj.container \in running' =>
           /\ cur # NoInfo
           /\ cur.NetNSPath \in {obj.container, NoPath}
           /\ ~Incomplete(cur) => cur.NetNSPath = obj.container
  BY <1>2, <1>3, DescriptionFacts
\* What the item's previous description is known to say.
<1>8. /\ Shown(prev) = Shown(podMap[p])
      /\ p \notin doubtful' /\ prev # NoInfo /\ prev.NetNSPath \in running =>
           podMap[p] # NoInfo /\ podMap[p].NetNSPath = prev.NetNSPath
  <2>1. CASE items[p] = NoChange
    <3>1. prev \in Descriptions(seen[p], running) /\ Applied(p) = podMap[p]
      BY <1>1, <2>1 DEF Previous, Applied
    <3>2. Shown(prev) = Shown(podMap[p])
      BY <1>3, <3>1, DescriptionFacts DEF Good
    <3>3. ASSUME p \notin doubtful', prev # NoInfo, prev.NetNSPath \in running
          PROVE  podMap[p] # NoInfo /\ podMap[p].NetNSPath = prev.NetNSPath
      <4>1. Live(p) /\ seen[p].container = prev.NetNSPath
        BY <1>3, <3>1, <3>3, DescriptionFacts DEF Live
      <4>. QED  BY <1>6, <3>1, <3>3, <4>1 DEF Good
    <3>. QED  BY <3>2, <3>3
  <2>2. CASE items[p] # NoChange
    <3>1. prev = items[p].previous
      BY <1>1, <2>2 DEF Previous
    <3>. QED  BY <1>6, <2>2, <3>1 DEF Good
  <2>. QED  BY <2>1, <2>2
<1>9. NoChange # [previous |-> prev, current |-> cur]
  <2>1. prev \in PodInfo \cup {NoInfo} /\ cur \in PodInfo \cup {NoInfo}
    <3>1. cur \in PodInfo \cup {NoInfo}
      BY <1>2, <1>3, DescriptionFacts
    <3>2. CASE items[p] = NoChange
      BY <1>1, <1>3, <3>1, <3>2, DescriptionFacts DEF Previous
    <3>3. CASE items[p] # NoChange
      BY <1>1, <3>1, <3>3 DEF Previous, TypeOK, Change
    <3>. QED  BY <3>2, <3>3
  <2>. QED  BY <2>1, AbsentAssumption DEF Change
<1>10. Live(p)' => obj # NoPod /\ obj.target /\ obj.container \in running' /\ obj.container \in running
  BY <1>3, <1>4 DEF Live
<1>11. CASE prev = cur
  <2>1. items'[p] = NoChange /\ Applied(p)' = podMap[p]
    BY <1>5, <1>11 DEF Applied
  <2>2. Shown(Applied(p)') = Shown(Describe(obj, NoPath))
    BY <1>7, <1>8, <1>11, <2>1
  <2>3. p \notin doubtful' /\ Live(p)' =>
          podMap[p] # NoInfo /\ podMap[p].NetNSPath = obj.container
    BY <1>6, <1>7, <1>8, <1>10, <1>11
  <2>. QED  BY <1>4, <2>1, <2>2, <2>3 DEF Good
<1>12. CASE prev # cur
  <2>1. items'[p] # NoChange /\ items'[p].previous = prev /\ items'[p].current = cur
    BY <1>5, <1>9, <1>12
  <2>2. Applied(p)' = cur
    BY <1>12, <2>1 DEF Applied
  <2>. QED  BY <1>3, <1>4, <1>6, <1>7, <1>8, <1>10, <2>1, <2>2 DEF Good
<1>. QED  BY <1>11, <1>12

\* Every callback keeps the invariant.
LEMMA UpdateKeeps ==
    ASSUME IInv, NEW p \in Pod, NEW obj \in PodObject[p] \cup {NoPod},
           Update(p, seen[p], obj),
           seen' = [seen EXCEPT ![p] = obj], UNCHANGED podMap
    PROVE  IInv'
<1>1. TypeOK'
  BY UpdateType DEF IInv
<1>2. Good(p)'
  BY <1>1, UpdateGood DEF IInv
<1>3. ASSUME NEW q \in Pod, q # p PROVE Good(q)'
  <2>1. running' \subseteq running
    BY DEF Update
  <2>2. items'[q] = items[q]
    BY <1>3 DEF Update, Keep, IInv, TypeOK
  <2>3. q \in doubtful' <=> q \in doubtful
    BY <1>3 DEF Update
  <2>4. seen'[q] = seen[q]
    BY <1>3 DEF IInv, TypeOK
  <2>. QED  BY <2>1, <2>2, <2>3, <2>4, GoodKept DEF IInv
<1>. QED  BY <1>1, <1>2, <1>3 DEF IInv

\* Publishing keeps the invariant (PodMap.apply).
LEMMA ApplyKeeps ==
    ASSUME IInv, Apply
    PROVE  IInv'
<1>. USE DEF IInv
<1>1. ASSUME NEW q \in Pod PROVE Applied(q) \in PodInfo \cup {NoInfo}
  BY DEF TypeOK, Applied, Change
<1>2. TypeOK'
  BY <1>1 DEF Apply, TypeOK
<1>3. ASSUME NEW q \in Pod PROVE Good(q)'
  <2>1. /\ items'[q] = NoChange /\ podMap'[q] = Applied(q)
        /\ seen'[q] = seen[q] /\ running' = running
    BY DEF Apply, TypeOK
  <2>2. Applied(q)' = Applied(q) /\ (Live(q)' <=> Live(q))
    BY <2>1 DEF Applied, Live
  <2>3. Shown(Applied(q)) = Shown(Describe(seen[q], NoPath))
    BY DEF Good
  <2>4. ASSUME q \notin doubtful', Live(q)
        PROVE  Applied(q) # NoInfo /\ Applied(q).NetNSPath = seen[q].container
    <3>1. CASE q \notin doubtful
      BY <2>4, <3>1 DEF Good
    <3>2. CASE q \in doubtful
      <4>1. items[q] # NoChange /\ ~Incomplete(items[q].current)
        BY <2>4, <3>2 DEF Apply
      <4>2. Applied(q) = items[q].current
        BY <4>1, AppliedPending
      <4>3. items[q].current # NoInfo
            /\ items[q].current.NetNSPath \in {seen[q].container, NoPath}
        BY <2>4, <4>1 DEF Good
      <4>4. Describe(seen[q], NoPath).Interfaces = seen[q].status
            /\ Describe(seen[q], NoPath) # NoInfo
            /\ seen[q].status # NoInterfaces
        <5>1. seen[q] \in PodFields
          BY <2>4, ObjectsAssumption DEF TypeOK, Live
        <5>2. Describe(seen[q], NoPath) = [NetNSPath |-> NoPath, Interfaces |-> seen[q].status]
          BY <2>4 DEF Live, Describe
        <5>3. Describe(seen[q], NoPath) \in PodInfo
          BY <5>1, <5>2 DEF PodFields, PodInfo, NetNSPath
        <5>. QED  BY <5>1, <5>2, <5>3, AbsentAssumption DEF PodFields
      <4>5. items[q].current.Interfaces = seen[q].status
        BY <2>3, <4>2, <4>3, <4>4 DEF Shown
      <4>6. items[q].current.NetNSPath # NoPath
        BY <4>1, <4>3, <4>4, <4>5 DEF Incomplete
      <4>. QED  BY <4>2, <4>3, <4>6
    <3>. QED  BY <3>1, <3>2
  <2>. QED  BY <2>1, <2>2, <2>3, <2>4 DEF Good
<1>. QED  BY <1>2, <1>3

\* Nothing is known, and nothing claimed, before the first event.
LEMMA InitKeeps == Init => IInv
<1>. SUFFICES ASSUME Init PROVE IInv
  OBVIOUS
<1>1. TypeOK
  BY DEF Init, TypeOK
<1>2. ASSUME NEW q \in Pod PROVE Good(q)
  <2>1. items[q] = NoChange /\ seen[q] = NoPod /\ podMap[q] = NoInfo
    BY DEF Init
  <2>. QED  BY <2>1 DEF Good, Applied, Shown, Describe, Live
<1>. QED  BY <1>1, <1>2 DEF IInv

\* Every step keeps the invariant.
LEMMA NextKeeps == IInv /\ [Next]_vars => IInv'
<1>. SUFFICES ASSUME IInv, [Next]_vars PROVE IInv'
  OBVIOUS
<1>1. ASSUME NEW p \in Pod, OnPodAdd(p) PROVE IInv'
  BY <1>1, UpdateKeeps DEF OnPodAdd
<1>2. ASSUME NEW p \in Pod, OnPodUpdate(p) PROVE IInv'
  BY <1>2, UpdateKeeps DEF OnPodUpdate
<1>3. ASSUME NEW p \in Pod, OnPodDelete(p) PROVE IInv'
  BY <1>3, UpdateKeeps DEF OnPodDelete
<1>4. CASE Apply
  BY <1>4, ApplyKeeps
<1>5. ASSUME NEW c \in Container, Exit(c) PROVE IInv'
  <2>1. TypeOK'
    BY <1>5 DEF Exit, IInv, TypeOK
  <2>2. \A q \in Pod : Good(q)'
    BY <1>5, GoodKept DEF Exit, IInv
  <2>. QED  BY <2>1, <2>2 DEF IInv
<1>6. CASE UNCHANGED vars
  <2>1. TypeOK'
    BY <1>6 DEF vars, IInv, TypeOK
  <2>2. \A q \in Pod : Good(q)'
    BY <1>6, GoodKept DEF vars, IInv
  <2>. QED  BY <2>1, <2>2 DEF IInv
<1>. QED  BY <1>1, <1>2, <1>3, <1>4, <1>5, <1>6 DEF Next

\* The invariant holds in every reachable state.
LEMMA Invariance == Spec => []IInv
BY InitKeeps, NextKeeps, PTL DEF Spec

\* The tracker's state is well formed (TypeOK of PodChangeTracker).
THEOREM TypeCorrect == Spec => []TypeOK
<1>1. IInv => TypeOK
  BY DEF IInv
<1>. QED  BY <1>1, Invariance, PTL

\* As long as the runtime answers, the path a sync will enter is the one of the
\* pod's running container, whatever happened before (PathFollowsContainer).
THEOREM PathIsCurrent == Spec => []PathFollowsContainer
<1>1. IInv => PathFollowsContainer
  BY DEF IInv, Good, Live, PathFollowsContainer
<1>. QED  BY <1>1, Invariance, PTL

-----------------------------------------------------------------------------
\* A callback is one observation of the abstract view, or nothing.
LEMMA UpdateObserves ==
    ASSUME IInv, NEW p \in Pod, NEW obj,
           seen' = [seen EXCEPT ![p] = obj], UNCHANGED podMap
    PROVE  View!ViewNext
<1>1. [q \in Pod |-> Shown(podMap[q])]' = [q \in Pod |-> Shown(podMap[q])]
  OBVIOUS
<1>2. \A q \in Pod \ {p} : seen'[q] = seen[q]
  BY DEF IInv, TypeOK
<1>. DEFINE o == [q \in Pod |-> Shown(Describe(seen[q], NoPath))]
            o2 == [q \in Pod |-> Shown(Describe(seen'[q], NoPath))]
<1>3. \A q \in Pod \ {p} : o2[q] = o[q]
  BY <1>2
<1>4. o2 = [o EXCEPT ![p] = o2[p]]
  <2>1. o = [q \in Pod |-> o[q]] /\ o2 = [q \in Pod |-> o2[q]]
    OBVIOUS
  <2>. HIDE DEF o, o2
  <2>. QED  BY <1>3, <2>1
<1>5. View!Observe(p)
  BY <1>1, <1>4 DEF View!Observe
<1>. QED  BY <1>5 DEF View!ViewNext

\* An apply publishes every pod.
LEMMA ApplyPublishes ==
    ASSUME IInv, Apply
    PROVE  View!Publish
<1>1. \A q \in Pod : podMap'[q] = Applied(q) /\ seen'[q] = seen[q]
  BY DEF Apply
<1>2. \A q \in Pod : Shown(podMap'[q]) = Shown(Describe(seen[q], NoPath))
  BY <1>1 DEF IInv, Good
<1>3. seen' = seen
  BY DEF Apply
<1>. QED  BY <1>2, <1>3 DEF View!Publish

\* Apart from the path, the pod tracker implements the abstract view of what
\* syncServiceForwarding reads (ImplementsView).
THEOREM TrackerImplementsView == Spec => ImplementsView
<1>1. Init => View!ViewInit
  BY DEF Init, View!ViewInit, Describe, Shown
<1>2. ASSUME IInv, [Next]_vars PROVE [View!ViewNext]_(View!viewVars)
  <2>1. ASSUME NEW p \in Pod, OnPodAdd(p) \/ OnPodUpdate(p) \/ OnPodDelete(p)
        PROVE  View!ViewNext
    BY <1>2, <2>1, UpdateObserves DEF OnPodAdd, OnPodUpdate, OnPodDelete
  <2>2. CASE Apply
    BY <1>2, <2>2, ApplyPublishes DEF View!ViewNext
  <2>3. CASE UNCHANGED <<seen, podMap>>
    BY <2>3 DEF View!viewVars
  <2>. QED  BY <1>2, <2>1, <2>2, <2>3 DEF Next, vars, Exit
<1>. QED  BY <1>1, <1>2, Invariance, PTL DEF Spec, ImplementsView, View!ViewSpec
=============================================================================
