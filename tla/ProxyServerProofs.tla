-------------------------- MODULE ProxyServerProofs --------------------------
(***************************************************************************)
(* Proofs about ProxyServer, for all sets of pods, Services and            *)
(* EndpointSlices and any number of changes and stops.                     *)
(*                                                                         *)
(* What the rules of some pod rely on (Relied) exists, and is in the       *)
(* indexer of every informer that has listed; what the rules of a pod this *)
(* process has programmed are made from has been handed on and published,  *)
(* and stays so as long as it exists.  Hence a rule that ought to stay is  *)
(* lost only at the first sync that programs the pod, and only because an  *)
(* informer's handlers are late (GapOnlyAtStart).  What the process has    *)
(* programmed and not lost it can still reach, so that its last sync       *)
(* clears it (StopsClean), unless it fails there.                          *)
(***************************************************************************)
EXTENDS ProxyServer, TLAPS

\* o was never deleted, and the rules of a pod, or the Service of one of the
\* EndpointSlices in them, are made from it.
Relied(o) ==
    /\ o \in (Service \cup Slice) \ removed
    /\ \E p \in Pod : \/ o \in rules[p]
                      \/ \E e \in Slice \cap rules[p] : o = ServiceOf[e]

\* Who may do what in which phase of Run.
Phases ==
    /\ stage # "none" => Up /\ GateOpen
    /\ nilMap <=> pc \in {"cleaning", "stopped"}
    /\ due[Main] \in (IF pc = "cleaning" THEN {0, 1} ELSE {0})

\* What is known further down the way was known before, or is gone.
Chain ==
    /\ store \subseteq api \cup removed
    /\ observed \subseteq store \cup removed
    /\ applied \subseteq observed \cup removed
    /\ podList \subseteq api \cup removed
    /\ toVisit \subseteq podList \cup removed
    /\ Pod \cap removed \cap api = {}

Learned ==
    /\ \A o \in Object : Relied(o) => o \in api
    /\ \A k \in listed : \A o \in Of(k) : Relied(o) => o \in store

\* The rules of a pod this process has programmed.
Current ==
    \A p \in mine : \A o \in rules[p] :
        \/ o \in removed
        \/ o \in Slice /\ ServiceOf[o] \in removed
        \/ Sources(o) \subseteq applied

Reached ==
    /\ \A p \in mine \ removed :
          p \in api /\ p \in applied /\ p \in podList /\ p \notin Unreachable
    /\ mu = Main /\ stage = "program" =>
          \A p \in mine \ removed : p \in toVisit \/ p \in missed \/ rules[p] = {}
    /\ pc = "stopped" /\ GateOpen =>
          \A p \in mine \ removed : p \in missed \/ rules[p] = {}

IInv == TypeOK /\ Phases /\ Chain /\ Learned /\ Current /\ Reached
-----------------------------------------------------------------------------
\* The three kinds of objects and the goroutines are told apart.
LEMMA Kinds ==
    /\ Of("pods") = Pod /\ Of("services") = Service /\ Of("slices") = Slice
    /\ \A k \in Kind : Of(k) \subseteq Object
BY DEF Of, Kind, Object

USE ObjectsAssumption, BoundsAssumption, NoThreadAssumption

LEMMA InitInv == Init => IInv
<1> SUFFICES ASSUME Init PROVE IInv
  OBVIOUS
<1> USE Kinds DEF Init, ProcessInit
<1>1. TypeOK
  <2>1. api \subseteq Object /\ Wanted \subseteq Service \cup Slice
    BY DEF Wanted
  <2>2. rules \in [Pod -> SUBSET (Service \cup Slice)]
    BY <2>1
  <2>3. due \in [Thread -> Nat]
    OBVIOUS
  <2>4. /\ changes \in 0..MaxChanges /\ mishaps \in 0..MaxMishaps
        /\ removed = {} /\ pc = "running"
    OBVIOUS
  <2>5. ProcessInit
    OBVIOUS
  <2> HIDE DEF Init
  <2> QED
    BY <2>1, <2>2, <2>3, <2>4, <2>5 DEF TypeOK
<1>2. Phases
  BY DEF Phases, Thread, Main
<1>3. Chain
  BY DEF Chain
<1>4. Learned
  BY DEF Learned, Relied, Wanted
<1>5. Current /\ Reached
  BY DEF Current, Reached
<1> QED
  BY <1>1, <1>2, <1>3, <1>4, <1>5 DEF IInv
-----------------------------------------------------------------------------
LEMMA TypeStep == TypeOK /\ [Next]_vars => TypeOK'
<1> SUFFICES ASSUME TypeOK, [Next]_vars PROVE TypeOK'
  OBVIOUS
<1> USE Kinds DEF TypeOK, informers, maps, sync, bounds
<1>1. CASE \E o \in Changing : Create(o) \/ Delete(o)
  BY <1>1 DEF Create, Delete
<1>2. CASE \E k \in Kind : Reflect(k) \/ Handle(k)
  <2> PICK k \in Kind : Reflect(k) \/ Handle(k)
    BY <1>2
  <2>1. CASE Reflect(k)
    BY <2>1 DEF Reflect
  <2>2. CASE Handle(k)
    <3>1. observed' \subseteq Object /\ due' \in [Thread -> Nat]
      BY <2>2 DEF Handle, Thread
    <3>2. mu # NoThread => due'[mu] > 0
      BY <2>2 DEF Handle, Thread
    <3> QED
      BY <2>2, <3>1, <3>2 DEF Handle
  <2> QED
    BY <2>1, <2>2
<1>3. CASE \E k \in Kind : OnSynced(k)
  BY <1>3 DEF OnSynced, WaitedFor, Thread, Config
<1>4. CASE ReflectPodList \/ Tick
  BY <1>4 DEF ReflectPodList, Tick, Thread, Runner
<1>5. CASE \E t \in Thread : ReturnAtGate(t) \/ Lock(t)
  <2> PICK t \in Thread : ReturnAtGate(t) \/ Lock(t)
    BY <1>5
  <2>1. CASE ReturnAtGate(t)
    BY <2>1 DEF ReturnAtGate
  <2>2. CASE Lock(t)
    BY <2>2 DEF Lock, Kind
  <2> QED
    BY <2>1, <2>2
<1>6. CASE PublishPods \/ PublishServices \/ PublishSlices
  BY <1>6 DEF PublishPods, PublishServices, PublishSlices, Publish, Kind, Object
<1>7. CASE \E p \in Pod : Program(p) \/ Skip(p) \/ ProgramFails(p)
  <2> PICK p \in Pod : Program(p) \/ Skip(p) \/ ProgramFails(p)
    BY <1>7
  <2>1. CASE Program(p)
    <3>1. Programmed \subseteq Service \cup Slice
      BY DEF Programmed
    <3>2. rules' \in [Pod -> SUBSET (Service \cup Slice)]
      BY <2>1, <3>1 DEF Program
    <3> QED
      BY <2>1, <3>2 DEF Program, Visit
  <2>2. CASE Skip(p)
    BY <2>2 DEF Skip, Visit
  <2>3. CASE ProgramFails(p)
    BY <2>3 DEF ProgramFails, Visit
  <2> QED
    BY <2>1, <2>2, <2>3
<1>8. CASE Unlock
  BY <1>8 DEF Unlock, Kind
<1>9. CASE Signal \/ StopRunner \/ ClearServices
  <2>1. CASE Signal
    BY <2>1 DEF Signal
  <2>2. CASE StopRunner
    BY <2>2 DEF StopRunner
  <2>3. CASE ClearServices
    BY <2>3 DEF ClearServices, Thread
  <2> QED
    BY <1>9, <2>1, <2>2, <2>3
<1>10. CASE Panic \/ Crash \/ Start
  <2>1. ProcessGone /\ pc' \in {"down", "running"}
    BY <1>10 DEF Panic, Crash, Start
  <2>2. /\ UNCHANGED <<api, removed, rules>>
        /\ changes' \in 0..MaxChanges /\ mishaps' \in 0..MaxMishaps
    BY <1>10 DEF Panic, Crash, Start
  <2>3. due' \in [Thread -> Nat]
    BY <2>1 DEF ProcessGone
  <2> QED
    BY <2>1, <2>2, <2>3 DEF ProcessGone
<1>11. CASE \E x \in Service \cap Changing : HandleUpdate(x)
  <2> PICK x \in Service \cap Changing : HandleUpdate(x)
    BY <1>11
  <2>1. due' \in [Thread -> Nat]
    BY DEF HandleUpdate, Thread
  <2>2. mu # NoThread => due'[mu] > 0
    BY DEF HandleUpdate, Thread
  <2>3. updated' \subseteq Service /\ changes' \in 0..MaxChanges
    BY DEF HandleUpdate
  <2> QED
    BY <2>1, <2>2, <2>3 DEF HandleUpdate
<1>12. CASE UNCHANGED vars
  BY <1>12 DEF vars
<1> QED
  BY <1>1, <1>2, <1>3, <1>4, <1>5, <1>6, <1>7, <1>8, <1>9, <1>10, <1>11, <1>12 DEF Next

LEMMA PhasesStep == TypeOK /\ Phases /\ [Next]_vars => Phases'
<1> SUFFICES ASSUME TypeOK, Phases, [Next]_vars PROVE Phases'
  OBVIOUS
<1> USE DEF TypeOK, Phases, GateOpen, Up, Thread, Kind, Main, Config, Runner,
            informers, maps, sync, bounds
<1>1. CASE \E o \in Changing : Create(o) \/ Delete(o)
  BY <1>1 DEF Create, Delete
<1>2. CASE \E k \in Kind : Reflect(k) \/ Handle(k)
  BY <1>2 DEF Reflect, Handle
<1>3. CASE \E k \in Kind : OnSynced(k)
  BY <1>3 DEF OnSynced
<1>4. CASE ReflectPodList \/ Tick
  BY <1>4 DEF ReflectPodList, Tick
<1>5. CASE \E t \in Thread : ReturnAtGate(t) \/ Lock(t)
  <2> PICK t \in Thread : ReturnAtGate(t) \/ Lock(t)
    BY <1>5
  <2>1. CASE ReturnAtGate(t)
    <3>1. t = Main => pc = "cleaning"
      BY <2>1 DEF ReturnAtGate
    <3> QED
      BY <2>1, <3>1 DEF ReturnAtGate
  <2>2. CASE Lock(t)
    BY <2>2 DEF Lock
  <2> QED
    BY <2>1, <2>2
<1>6. CASE PublishPods \/ PublishServices \/ PublishSlices
  BY <1>6 DEF PublishPods, PublishServices, PublishSlices, Publish
<1>7. CASE \E p \in Pod : Program(p) \/ Skip(p) \/ ProgramFails(p)
  BY <1>7 DEF Program, Skip, ProgramFails, Visit
<1>8. CASE Unlock
  <2>1. mu = Main => pc = "cleaning"
    BY <1>8 DEF Unlock
  <2> QED
    BY <1>8, <2>1 DEF Unlock
<1>9. CASE Signal \/ StopRunner \/ ClearServices
  BY <1>9 DEF Signal, StopRunner, ClearServices
<1>10. CASE Panic \/ Crash \/ Start
  BY <1>10 DEF Panic, Crash, Start, ProcessGone
<1>11. CASE \E x \in Service \cap Changing : HandleUpdate(x)
  BY <1>11 DEF HandleUpdate
<1>12. CASE UNCHANGED vars
  BY <1>12 DEF vars
<1> QED
  BY <1>1, <1>2, <1>3, <1>4, <1>5, <1>6, <1>7, <1>8, <1>9, <1>10, <1>11, <1>12 DEF Next

LEMMA ChainStep == TypeOK /\ Chain /\ [Next]_vars => Chain'
<1> SUFFICES ASSUME TypeOK, Chain, [Next]_vars PROVE Chain'
  OBVIOUS
<1> USE Kinds DEF TypeOK, Chain, informers, maps, sync, bounds
<1>1. CASE \E o \in Changing : Create(o) \/ Delete(o)
  BY <1>1 DEF Create, Delete
<1>2. CASE \E k \in Kind : Reflect(k)
  BY <1>2 DEF Reflect
<1>3. CASE \E k \in Kind : Handle(k)
  BY <1>3 DEF Handle
<1>4. CASE \E k \in Kind : OnSynced(k)
  BY <1>4 DEF OnSynced
<1>5. CASE ReflectPodList \/ Tick
  BY <1>5 DEF ReflectPodList, Tick
<1>6. CASE \E t \in Thread : ReturnAtGate(t) \/ Lock(t)
  BY <1>6 DEF ReturnAtGate, Lock
<1>7. CASE PublishPods \/ PublishServices \/ PublishSlices
  BY <1>7 DEF PublishPods, PublishServices, PublishSlices, Publish
<1>8. CASE \E p \in Pod : Program(p) \/ Skip(p) \/ ProgramFails(p)
  BY <1>8 DEF Program, Skip, ProgramFails, Visit
<1>9. CASE Unlock
  BY <1>9 DEF Unlock
<1>10. CASE Signal \/ StopRunner \/ ClearServices
  BY <1>10 DEF Signal, StopRunner, ClearServices
<1>11. CASE Panic \/ Crash \/ Start
  BY <1>11 DEF Panic, Crash, Start, ProcessGone
<1>12. CASE \E x \in Service \cap Changing : HandleUpdate(x)
  BY <1>12 DEF HandleUpdate
<1>13. CASE UNCHANGED vars
  BY <1>13 DEF vars
<1> QED
  BY <1>1, <1>2, <1>3, <1>4, <1>5, <1>6, <1>7, <1>8, <1>9, <1>10, <1>11, <1>12, <1>13 DEF Next

-----------------------------------------------------------------------------
\* Rules are made from the published maps only.
LEMMA ReliedStep ==
    ASSUME TypeOK, [Next]_vars, NEW o, Relied(o)'
    PROVE  /\ o \in (Service \cup Slice) \ removed'
           /\ removed \subseteq removed'
           /\ Relied(o) \/ (o \in applied \ removed /\ UNCHANGED <<api, informers>>)
<1> USE DEF TypeOK, Relied, informers, maps, sync, bounds
<1>1. CASE \E x \in Changing : Create(x) \/ Delete(x)
  BY <1>1 DEF Create, Delete
<1>2. CASE \E k \in Kind : Reflect(k) \/ Handle(k) \/ OnSynced(k)
  BY <1>2 DEF Reflect, Handle, OnSynced
<1>3. CASE ReflectPodList \/ Tick
  BY <1>3 DEF ReflectPodList, Tick
<1>4. CASE \E t \in Thread : ReturnAtGate(t) \/ Lock(t)
  BY <1>4 DEF ReturnAtGate, Lock
<1>5. CASE PublishPods \/ PublishServices \/ PublishSlices
  BY <1>5 DEF PublishPods, PublishServices, PublishSlices
<1>6. CASE \E p \in Pod : Program(p)
  <2> PICK p \in Pod : Program(p)
    BY <1>6
  <2> USE DEF Visit
  <2>1. PICK q \in Pod : \/ o \in rules'[q]
                         \/ \E e \in Slice \cap rules'[q] : o = ServiceOf[e]
    OBVIOUS
  <2>2. CASE rules'[q] = rules[q]
    BY <2>1, <2>2 DEF Program
  <2>3. CASE rules'[q] = Programmed
    BY <1>6, <2>1, <2>3 DEF Program, Programmed
  <2>4. rules'[q] = rules[q] \/ rules'[q] = Programmed
    BY DEF Program
  <2> QED
    BY <2>2, <2>3, <2>4 DEF Program
<1>7. CASE Unlock \/ Signal \/ StopRunner \/ ClearServices
  BY <1>7 DEF Unlock, Signal, StopRunner, ClearServices
<1>8. CASE Panic \/ Crash \/ Start
  BY <1>8 DEF Panic, Crash, Start
<1>9. CASE \E p \in Pod : Skip(p) \/ ProgramFails(p)
  BY <1>9 DEF Skip, ProgramFails, Visit
<1>10. CASE \E x \in Service \cap Changing : HandleUpdate(x)
  BY <1>10 DEF HandleUpdate
<1>11. CASE UNCHANGED vars
  BY <1>11 DEF vars
<1> QED
  BY <1>1, <1>2, <1>3, <1>4, <1>5, <1>6, <1>7, <1>8, <1>9, <1>10, <1>11 DEF Next

LEMMA LearnedStep == TypeOK /\ Chain /\ Learned /\ [Next]_vars => Learned'
<1> SUFFICES ASSUME TypeOK, Chain, Learned, [Next]_vars PROVE Learned'
  OBVIOUS
<1>a. listed' \subseteq Kind
  BY TypeStep DEF TypeOK
<1> SUFFICES ASSUME NEW o \in Object, Relied(o)'
             PROVE  o \in api' /\ \A k \in listed' : o \in Of(k) => o \in store'
  BY <1>a, Kinds DEF Learned
<1>0. o \in Service \cup Slice /\ o \notin removed /\ o \notin removed'
  BY ReliedStep
<1> USE Kinds DEF Learned, Chain, informers, maps, sync, bounds
<1>1. CASE o \in applied \ removed /\ UNCHANGED <<api, informers>>
  BY <1>1
<1>2. CASE Relied(o)
  <2> USE <1>0, <1>2
  <2>1. CASE \E x \in Changing : Create(x) \/ Delete(x)
    BY <2>1 DEF Create, Delete
  <2>2. CASE \E k \in Kind : Reflect(k)
    BY <2>2 DEF Reflect
  <2>3. CASE \/ \E k \in Kind : Handle(k) \/ OnSynced(k)
             \/ \E x \in Service \cap Changing : HandleUpdate(x)
    BY <2>3 DEF Handle, OnSynced, HandleUpdate
  <2>4. CASE ReflectPodList \/ Tick
    BY <2>4 DEF ReflectPodList, Tick
  <2>5. CASE \E t \in Thread : ReturnAtGate(t) \/ Lock(t)
    BY <2>5 DEF ReturnAtGate, Lock
  <2>6. CASE PublishPods \/ PublishServices \/ PublishSlices
    BY <2>6 DEF PublishPods, PublishServices, PublishSlices
  <2>7. CASE \E p \in Pod : Program(p) \/ Skip(p) \/ ProgramFails(p)
    BY <2>7 DEF Program, Skip, ProgramFails, Visit
  <2>8. CASE Unlock \/ Signal \/ StopRunner \/ ClearServices
    BY <2>8 DEF Unlock, Signal, StopRunner, ClearServices
  <2>9. CASE Panic \/ Crash \/ Start
    BY <2>9 DEF Panic, Crash, Start, ProcessGone
  <2>10. CASE UNCHANGED vars
    BY <2>10 DEF vars
  <2> QED
    BY <2>1, <2>2, <2>3, <2>4, <2>5, <2>6, <2>7, <2>8, <2>9, <2>10 DEF Next
<1> QED
  BY <1>1, <1>2, ReliedStep

\* A source that was published stays so, or was deleted; the rules of a pod of
\* ours change only to what the published maps say.
LEMMA CurrentStep == TypeOK /\ Chain /\ Current /\ [Next]_vars => Current'
<1> SUFFICES ASSUME TypeOK, Chain, Current, [Next]_vars, NEW p \in mine', NEW o \in rules'[p]
             PROVE  \/ o \in removed'
                    \/ o \in Slice /\ ServiceOf[o] \in removed'
                    \/ Sources(o) \subseteq applied'
  BY DEF Current
<1> USE Kinds DEF TypeOK, Chain, Current, informers, maps, sync, bounds
<1>1. CASE \E x \in Changing : Create(x) \/ Delete(x)
  BY <1>1 DEF Create, Delete
<1>2. CASE \/ \E k \in Kind : Reflect(k) \/ Handle(k) \/ OnSynced(k)
           \/ \E x \in Service \cap Changing : HandleUpdate(x)
  BY <1>2 DEF Reflect, Handle, OnSynced, HandleUpdate
<1>3. CASE ReflectPodList \/ Tick
  BY <1>3 DEF ReflectPodList, Tick
<1>4. CASE \E t \in Thread : ReturnAtGate(t) \/ Lock(t)
  BY <1>4 DEF ReturnAtGate, Lock
<1>5. CASE PublishPods \/ PublishServices \/ PublishSlices
  <2>1. /\ UNCHANGED <<removed, mine, rules>>
        /\ applied \subseteq applied' \cup removed
    BY <1>5 DEF PublishPods, PublishServices, PublishSlices, Publish
  <2>2. o \in rules[p] /\ o \in Service \cup Slice
    BY <2>1
  <2> QED
    BY <2>1, <2>2 DEF Sources
<1>6. CASE \E q \in Pod : Program(q)
  <2> PICK q \in Pod : Program(q)
    BY <1>6
  <2>1. /\ UNCHANGED <<removed, applied>>
        /\ p # q => p \in mine /\ rules'[p] = rules[p]
        /\ p = q => rules'[p] = Programmed
    BY DEF Program, Visit
  <2>2. ASSUME p = q
        PROVE  Sources(o) \subseteq applied
    BY <2>1, <2>2 DEF Programmed, Sources
  <2> QED
    BY <2>1, <2>2
<1>7. CASE \E q \in Pod : Skip(q) \/ ProgramFails(q)
  BY <1>7 DEF Skip, ProgramFails, Visit
<1>8. CASE Unlock \/ Signal \/ StopRunner \/ ClearServices
  BY <1>8 DEF Unlock, Signal, StopRunner, ClearServices
<1>9. CASE Panic \/ Crash \/ Start
  BY <1>9 DEF Panic, Crash, Start, ProcessGone
<1>10. CASE UNCHANGED vars
  BY <1>10 DEF vars
<1> QED
  BY <1>1, <1>2, <1>3, <1>4, <1>5, <1>6, <1>7, <1>8, <1>9, <1>10 DEF Next

LEMMA ReachedStep ==
    TypeOK /\ Phases /\ Chain /\ Reached /\ [Next]_vars => Reached'
<1> SUFFICES ASSUME TypeOK, Phases, Chain, Reached, [Next]_vars PROVE Reached'
  OBVIOUS
<1> USE Kinds DEF Chain, Reached, informers, maps, sync, bounds
<1>1. CASE \E x \in Changing : Create(x) \/ Delete(x)
  BY <1>1 DEF Create, Delete, GateOpen, TypeOK
<1>2. CASE \E k \in Kind : Reflect(k) \/ Handle(k)
  BY <1>2 DEF Reflect, Handle, GateOpen
<1>3. CASE \E k \in Kind : OnSynced(k)
  BY <1>3 DEF OnSynced, Up
<1>4. CASE ReflectPodList \/ Tick
  BY <1>4 DEF ReflectPodList, Tick, GateOpen, TypeOK
<1>5. CASE \E t \in Thread : ReturnAtGate(t) \/ Lock(t)
  BY <1>5 DEF ReturnAtGate, Lock, GateOpen, Up
<1>6. CASE PublishPods \/ PublishServices \/ PublishSlices
  <2>1. \A p \in (mine \ removed) \cap applied : p \in applied'
    BY <1>6 DEF PublishPods, PublishServices, PublishSlices, Publish, TypeOK
  <2>2. UNCHANGED <<api, removed, podList, mine, mu, pc, synced, rules>>
    BY <1>6 DEF PublishPods, PublishServices, PublishSlices
  <2>3. stage' = "program" => toVisit' = podList
    BY <1>6 DEF PublishPods, PublishServices, PublishSlices, Publish
  <2>4. pc # "stopped"
    BY <1>6 DEF PublishPods, PublishServices, PublishSlices, Up
  <2> QED
    BY <2>1, <2>2, <2>3, <2>4
<1>7. CASE \E p \in Pod : Program(p) \/ Skip(p) \/ ProgramFails(p)
  BY <1>7 DEF Program, Skip, ProgramFails, Visit, Reachable, Programmed, GateOpen, Up, Phases, TypeOK
<1>8. CASE Unlock
  BY <1>8 DEF Unlock, GateOpen, Up
<1>9. CASE Signal \/ StopRunner \/ ClearServices
  BY <1>9 DEF Signal, StopRunner, ClearServices, GateOpen
<1>10. CASE Panic \/ Crash \/ Start
  BY <1>10 DEF Panic, Crash, Start, ProcessGone
<1>11. CASE \E x \in Service \cap Changing : HandleUpdate(x)
  BY <1>11 DEF HandleUpdate, GateOpen
<1>12. CASE UNCHANGED vars
  BY <1>12 DEF vars, GateOpen
<1> QED
  BY <1>1, <1>2, <1>3, <1>4, <1>5, <1>6, <1>7, <1>8, <1>9, <1>10, <1>11, <1>12 DEF Next

LEMMA InductiveInvariant == Spec => []IInv
<1>1. IInv /\ [Next]_vars => IInv'
  BY TypeStep, PhasesStep, ChainStep, LearnedStep, CurrentStep, ReachedStep DEF IInv
<1> QED
  BY InitInv, <1>1, PTL DEF Spec
-----------------------------------------------------------------------------
\* The type invariant: among others, whoever holds the mutex owes a sync, and
\* no callback sets its flag before its informer has listed.
THEOREM TypeCorrect == Spec => []TypeOK
<1>1. IInv => TypeOK
  BY DEF IInv
<1> QED
  BY InductiveInvariant, <1>1, PTL

\* A stop that comes to its end with the gate open leaves no rules in any pod
\* the process has programmed (Run, server.go:169).
THEOREM StopCleans == Spec => []StopsClean
<1>1. IInv => StopsClean
  BY DEF IInv, TypeOK, Chain, Reached, StopsClean
<1> QED
  BY InductiveInvariant, <1>1, PTL

\* A rule that ought to stay is taken from a pod by no step, through however many
\* restarts, but by the first sync of a process that programs the pod, and only
\* if something the rule is made from is in its informer's indexer and has not
\* been handed on: this is what the gate (server.go:451) ensures.
THEOREM LostOnlyAtStart == Spec => GapOnlyAtStart
<1>1. ASSUME IInv, [Next]_vars, ~nilMap, NEW p \in Pod \cap api', NEW o \in TakenAway(p)
      PROVE  p \notin mine /\ \E x \in Sources(o) : x \in store \ applied
  <2> USE <1>1 DEF IInv, TypeOK
  <2>1. /\ o \in rules[p] /\ o \notin rules'[p]
        /\ o \in (Service \cup Slice) \ removed'
        /\ o \in Slice => ServiceOf[o] \notin removed'
    BY DEF TakenAway, Lasting
  <2>2. CASE \E q \in Pod : Program(q)
    <3> PICK q \in Pod : Program(q)
      BY <2>2
    <3>1. /\ stage = "program" /\ removed' = removed
          /\ rules'[p] = rules[p] \/ rules'[p] = Programmed
      BY DEF Program, Visit
    <3>2. \A x \in Sources(o) : x \in Service \cup Slice /\ Relied(x)
      BY <2>1, <3>1 DEF Sources, Relied
    <3>3. listed = Kind
      BY <3>1 DEF Phases, GateOpen
    <3>4. \A x \in Sources(o) : x \in store
      BY <3>2, <3>3, Kinds DEF Learned, Kind, Object
    <3>5. ~(Sources(o) \subseteq applied)
      BY <2>1, <3>1 DEF Programmed, Sources
    <3> QED
      BY <2>1, <3>1, <3>4, <3>5 DEF Current
  <2>3. CASE \E x \in Changing : Create(x) \/ Delete(x)
    BY <2>1, <2>3 DEF Create, Delete
  <2>4. CASE UNCHANGED rules
    BY <2>1, <2>4
  <2> QED
    BY <2>2, <2>3, <2>4
    DEF Next, vars, bounds, Reflect, Handle, HandleUpdate, OnSynced, ReflectPodList, Tick,
        ReturnAtGate, Lock, PublishPods, PublishServices, PublishSlices, Skip, ProgramFails,
        Unlock, Signal, StopRunner, ClearServices, Panic, Crash, Start
<1>2. IInv /\ [Next]_vars =>
        [~nilMap => \A p \in Pod \cap api' : \A o \in TakenAway(p) :
             /\ p \notin mine
             /\ \E x \in Sources(o) : x \in store \ applied]_vars
  BY <1>1
<1> QED
  BY InductiveInvariant, <1>2, PTL DEF Spec, GapOnlyAtStart
=============================================================================
