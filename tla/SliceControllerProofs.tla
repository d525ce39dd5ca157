------------------------ MODULE SliceControllerProofs ------------------------
(***************************************************************************)
(* The state of the controller keeps its type, and no two workers sync the *)
(* same service at the same time, for any number of services, workers and  *)
(* slices.                                                                 *)
(***************************************************************************)
EXTENDS SliceController, FiniteSetTheorems, TLAPS

\* The type invariant in parts, each of which few actions disturb.
DesiredOK ==
    /\ alive \in [Service -> BOOLEAN]
    /\ incarnation \in [Service -> 1..MaxIncarnation]
    /\ \A s \in Service : ~alive[s] => incarnation[s] < MaxIncarnation
    /\ want \in [Service -> 1..MaxVersion]

ServerOK == slices \in Stored /\ used \in 0..MaxSlices /\ watch \in Seq(Events)

InformerOK == cache \in Stored /\ notes \in Seq(Events)

TrackerOK == tracker \in [Service -> [SliceId -> Nat \cup {deletionExpected}]]

Delays == delayed \subseteq Service /\ requeues \in [Service -> 0..maxRetries]

QueueTyped == queue \in Seq(Service) /\ dirty \subseteq Service /\ processing \subseteq Service

\* The work queue and the workers change together.
WorkOK == QueueTyped /\ work \in [Worker -> Job] /\ QueueOK

MishapsOK == mishaps \in [Mishaps -> Nat]

LEMMA Parts ==
    TypeOK <=> /\ DesiredOK /\ ServerOK /\ InformerOK /\ TrackerOK
               /\ Delays /\ WorkOK /\ MishapsOK
BY DEF TypeOK, DesiredOK, ServerOK, InformerOK, TrackerOK, Delays, QueueTyped,
       WorkOK, MishapsOK

LEMMA PartsNext ==
    /\ DesiredOK' /\ ServerOK' /\ InformerOK' /\ TrackerOK'
    /\ Delays' /\ WorkOK' /\ MishapsOK'
    => TypeOK'
BY DEF TypeOK, DesiredOK, ServerOK, InformerOK, TrackerOK, Delays, QueueTyped,
       WorkOK, MishapsOK

LEMMA Kept ==
    ASSUME TypeOK
    PROVE  /\ UNCHANGED desired => DesiredOK'
           /\ UNCHANGED server => ServerOK'
           /\ UNCHANGED informer => InformerOK'
           /\ UNCHANGED tracker => TrackerOK'
           /\ UNCHANGED <<delayed, requeues>> => Delays'
           /\ UNCHANGED <<queue, dirty, processing, work>> => WorkOK'
           /\ UNCHANGED mishaps => MishapsOK'
<1> USE Parts
<1>1. UNCHANGED desired => DesiredOK'
  BY DEF desired, DesiredOK
<1>2. UNCHANGED server => ServerOK'
  BY DEF server, ServerOK
<1>3. UNCHANGED informer => InformerOK'
  BY DEF informer, InformerOK
<1>4. UNCHANGED tracker => TrackerOK'
  BY DEF TrackerOK
<1>5. UNCHANGED <<delayed, requeues>> => Delays'
  BY DEF Delays
<1>6. UNCHANGED <<queue, dirty, processing, work>> => WorkOK'
  BY DEF WorkOK, QueueTyped, QueueOK, Busy, At
<1>7. UNCHANGED mishaps => MishapsOK'
  BY DEF MishapsOK
<1> QED
  BY <1>1, <1>2, <1>3, <1>4, <1>5, <1>6, <1>7

-----------------------------------------------------------------------------
\* Helpers of the actions.

LEMMA MishapTyped ==
    ASSUME TypeOK, NEW kind \in Mishaps, Mishap(kind)
    PROVE  MishapsOK'
BY Parts DEF MishapsOK, Mishap

LEMMA SetTrackedTyped ==
    ASSUME TypeOK, NEW s \in Service, NEW u \in SliceId,
           NEW generation \in Nat \cup {deletionExpected},
           SetTracked(s, u, generation)
    PROVE  TrackerOK'
BY Parts DEF TrackerOK, SetTracked

LEMMA AddAfterTyped ==
    ASSUME TypeOK, NEW s \in Service, AddAfter(s), UNCHANGED requeues
    PROVE  Delays'
BY Parts DEF Delays, AddAfter

LEMMA WriteTyped ==
    ASSUME TypeOK, NEW u \in SliceId, NEW slice \in EndpointSlice,
           Write(u, slice), used' \in 0..MaxSlices
    PROVE  ServerOK'
BY Parts DEF ServerOK, Write, Stored, Events, Event

LEMMA EraseTyped ==
    ASSUME TypeOK, NEW u \in SliceId, slices[u] # NoSlice, Erase(u), UNCHANGED used
    PROVE  ServerOK'
<1>1. slices[u] \in EndpointSlice
  BY Parts DEF ServerOK, Stored
<1> QED
  BY <1>1, Parts DEF ServerOK, Erase, Stored, Events, Event

\* Add keeps the queue free of repetitions and of services being processed.
LEMMA AddKeepsQueue ==
    ASSUME TypeOK, NEW s \in Service, Add(s), UNCHANGED <<processing, work>>
    PROVE  WorkOK'
<1>1. WorkOK
  BY Parts
<1>2. QueueTyped' /\ work' \in [Worker -> Job]
  BY <1>1 DEF WorkOK, QueueTyped, Add
<1>3. ASSUME NEW i \in DOMAIN queue'
      PROVE  queue'[i] \in dirty' /\ queue'[i] \notin processing'
  BY <1>1, <1>3 DEF WorkOK, QueueTyped, QueueOK, Add
<1>4. ASSUME NEW i \in DOMAIN queue', NEW j \in DOMAIN queue', queue'[i] = queue'[j]
      PROVE  i = j
  BY <1>1, <1>4 DEF WorkOK, QueueTyped, QueueOK, Add
<1>5. processing' = {work'[w].service : w \in {v \in Worker : Busy(v)'}}
  BY <1>1 DEF WorkOK, QueueOK, Busy, At
<1> QED
  BY <1>2, <1>3, <1>4, <1>5 DEF WorkOK, QueueOK

\* A worker that goes on with the service it is busy with.
LEMMA WorkMoves ==
    ASSUME TypeOK, NEW w \in Worker, NEW job \in Job, ~At(w, "idle"),
           job.pc # "idle", job.service = work[w].service,
           work' = [work EXCEPT ![w] = job], UNCHANGED <<queue, dirty, processing>>
    PROVE  WorkOK' /\ (OneWorkerPerService => OneWorkerPerService')
<1>1. WorkOK
  BY Parts
<1>2. QueueTyped' /\ work' \in [Worker -> Job]
  BY <1>1 DEF WorkOK, QueueTyped
<1>3. \A v \in Worker : (Busy(v)' <=> Busy(v)) /\ work'[v].service = work[v].service
  BY <1>1 DEF WorkOK, Busy, At
<1>4. processing' = {work'[v].service : v \in {x \in Worker : Busy(x)'}}
  BY <1>1, <1>3 DEF WorkOK, QueueOK
<1>5. OneWorkerPerService => OneWorkerPerService'
  BY <1>3 DEF OneWorkerPerService
<1> QED
  BY <1>1, <1>2, <1>4, <1>5 DEF WorkOK, QueueOK, QueueTyped

LEMMA GoToMoves ==
    ASSUME TypeOK, NEW w \in Worker, ~At(w, "idle"),
           NEW pc \in {"check", "call", "track", "ok", "error"},
           GoTo(w, pc), UNCHANGED <<queue, dirty, processing>>
    PROVE  WorkOK' /\ (OneWorkerPerService => OneWorkerPerService')
<1> DEFINE job == [work[w] EXCEPT !.pc = pc]
<1>1. work[w] \in Job
  BY Parts DEF WorkOK
<1>2. job \in Job /\ job.pc # "idle" /\ job.service = work[w].service
  BY <1>1 DEF Job
<1>3. work' = [work EXCEPT ![w] = job]
  BY Parts DEF GoTo, WorkOK
<1> QED
  BY <1>2, <1>3, WorkMoves

\* A call of which the reply comes or is lost.
LEMMA RepliedMoves ==
    ASSUME TypeOK, NEW w \in Worker, At(w, "call"),
           NEW rest \in Job, rest.service = work[w].service, NEW u \in SliceId,
           NEW generation \in Nat \cup {deletionExpected},
           Replied(w, rest, u, generation), UNCHANGED workqueue
    PROVE  WorkOK' /\ MishapsOK' /\ (OneWorkerPerService => OneWorkerPerService')
<1> USE DEF workqueue
<1>1. ~At(w, "idle")
  BY DEF At
<1>2. CASE UNCHANGED mishaps /\ ~GoTo(w, "error")
  <2> DEFINE job == [rest EXCEPT !.pc = "track",
                                 !.reply = [uid |-> u, generation |-> generation]]
  <2>1. job \in Job /\ job.pc # "idle" /\ job.service = work[w].service
    BY DEF Job
  <2>2. work' = [work EXCEPT ![w] = job]
    BY <1>2 DEF Replied
  <2> HIDE DEF job
  <2> QED
    BY <1>1, <1>2, <2>1, <2>2, WorkMoves, Kept
<1>3. CASE UNCHANGED mishaps /\ GoTo(w, "error")
  BY <1>1, <1>3, GoToMoves, Kept
<1>4. CASE ~UNCHANGED mishaps
  <2>1. Mishap("lost") /\ GoTo(w, "error")
    BY <1>4 DEF Replied
  <2> QED
    BY <1>1, <2>1, GoToMoves, MishapTyped DEF Mishaps
<1> QED
  BY <1>2, <1>3, <1>4

LEMMA OrdersAreSequences ==
    ASSUME NEW S, IsFiniteSet(S), NEW order \in Orders(S)
    PROVE  /\ order \in Seq(S)
           /\ \A i, j \in DOMAIN order : order[i] = order[j] => i = j
<1>1. Cardinality(S) \in Nat
  BY FS_CardinalityType
<1> QED
  BY <1>1 DEF Orders

LEMMA SliceIdFinite == \A S \in SUBSET SliceId : IsFiniteSet(S)
<1>1. IsFiniteSet(SliceId)
  BY FS_Interval, ControllerAssumption DEF SliceId
<1> QED
  BY <1>1, FS_Subset

LEMMA NothingTyped == Nothing \in Stored
BY DEF Nothing, Stored

LEMMA FreshTyped ==
    ASSUME NEW pc \in {"idle", "get"}, NEW s \in Service
    PROVE  Fresh(pc, s) \in Job
<1>1. 1 \in SliceId /\ 1 \in 1..MaxIncarnation /\ 1 \in 1..MaxVersion
  BY ControllerAssumption DEF SliceId
<1> QED
  BY <1>1, NothingTyped DEF Fresh, Job, Untracked

LEMMA IdleTyped == Idle \in Job /\ Idle.pc = "idle"
<1>1. (CHOOSE s \in Service : TRUE) \in Service
  BY ControllerAssumption
<1> QED
  BY <1>1, FreshTyped DEF Idle, Fresh

LEMMA AllUntracked ==
    ASSUME NEW f, f = [s \in Service |-> [u \in SliceId |-> Untracked]]
    PROVE  f \in [Service -> [SliceId -> Nat \cup {deletionExpected}]]
BY DEF Untracked

LEMMA InitTyped == Init => TypeOK
<1> SUFFICES ASSUME Init PROVE TypeOK
  OBVIOUS
<1> USE ControllerAssumption
<1>1. DesiredOK
  BY DEF Init, DesiredOK
<1>2. ServerOK
  BY DEF Init, ServerOK, Stored
<1>3. InformerOK
  BY DEF Init, InformerOK, Stored
<1>4. TrackerOK
  BY AllUntracked DEF Init, TrackerOK
<1>5. Delays
  BY DEF Init, Delays
<1>6. WorkOK
  <2>1. QueueTyped /\ work \in [Worker -> Job]
    BY IdleTyped DEF Init, QueueTyped
  <2>2. \A w \in Worker : ~Busy(w)
    BY IdleTyped DEF Init, Busy, At
  <2>3. processing = {work[w].service : w \in {v \in Worker : Busy(v)}}
    BY <2>2 DEF Init
  <2>4. DOMAIN queue = {}
    BY DEF Init
  <2> QED
    BY <2>1, <2>3, <2>4 DEF WorkOK, QueueOK
<1>7. MishapsOK
  BY DEF Init, MishapsOK
<1> QED
  BY <1>1, <1>2, <1>3, <1>4, <1>5, <1>6, <1>7, Parts
-----------------------------------------------------------------------------
\* What happens outside the workers.

LEMMA ServiceStepTyped ==
    ASSUME TypeOK, NEW s \in Service,
           \/ ServiceCreated(s) \/ ServiceDeleted(s) \/ OnServiceUpdate(s)
           \/ PodChanged(s) \/ DelayOver(s)
    PROVE  TypeOK'
<1> USE Kept
<1>1. CASE ServiceCreated(s)
  <2>1. DesiredOK'
    BY <1>1, Parts, ControllerAssumption DEF ServiceCreated, DesiredOK
  <2>2. WorkOK'
    BY <1>1, AddKeepsQueue DEF ServiceCreated
  <2> QED
    BY <1>1, <2>1, <2>2, PartsNext DEF ServiceCreated
<1>2. CASE ServiceDeleted(s)
  <2>1. DesiredOK'
    BY <1>2, Parts DEF ServiceDeleted, DesiredOK
  <2>2. WorkOK'
    BY <1>2, AddKeepsQueue DEF ServiceDeleted
  <2> QED
    BY <1>2, <2>1, <2>2, PartsNext DEF ServiceDeleted
<1>3. CASE OnServiceUpdate(s)
  <2>1. WorkOK'
    BY <1>3, AddKeepsQueue DEF OnServiceUpdate
  <2> QED
    BY <1>3, <2>1, PartsNext DEF OnServiceUpdate
<1>4. CASE PodChanged(s)
  <2>1. DesiredOK'
    BY <1>4, Parts, ControllerAssumption DEF PodChanged, DesiredOK
  <2>2. Delays'
    BY <1>4, AddAfterTyped DEF PodChanged
  <2> QED
    BY <1>4, <2>1, <2>2, PartsNext DEF PodChanged
<1>5. CASE DelayOver(s)
  <2>1. WorkOK'
    BY <1>5, AddKeepsQueue DEF DelayOver
  <2>2. Delays'
    BY <1>5, Parts DEF DelayOver, Delays
  <2> QED
    BY <1>5, <2>1, <2>2, PartsNext DEF DelayOver
<1> QED
  BY <1>1, <1>2, <1>3, <1>4, <1>5

LEMMA OthersStepTyped ==
    ASSUME TypeOK, NEW u \in SliceId, Removed(u) \/ GarbageCollected(u)
    PROVE  TypeOK'
<1> USE Kept
<1>1. CASE Removed(u)
  <2>1. ServerOK'
    BY <1>1, EraseTyped DEF Removed
  <2>2. MishapsOK'
    BY <1>1, MishapTyped DEF Removed, Mishaps
  <2> QED
    BY <1>1, <2>1, <2>2, PartsNext DEF Removed, workqueue
<1>2. CASE GarbageCollected(u)
  <2>1. ServerOK'
    BY <1>2, EraseTyped DEF GarbageCollected
  <2> QED
    BY <1>2, <2>1, PartsNext DEF GarbageCollected, workqueue
<1> QED
  BY <1>1, <1>2

LEMMA InformerStepTyped ==
    ASSUME TypeOK, InformerStep
    PROVE  TypeOK'
<1> USE Kept
<1>1. CASE Receive
  <2>1. Head(watch) \in Events /\ Tail(watch) \in Seq(Events)
    BY <1>1, Parts DEF Receive, ServerOK
  <2>2. ServerOK'
    BY <1>1, <2>1, Parts DEF Receive, ServerOK
  <2>3. InformerOK'
    <3>1. Head(watch).slice \in EndpointSlice
      BY <2>1 DEF Events
    <3>2. cache' \in Stored
      BY <1>1, <3>1, Parts DEF Receive, InformerOK, Stored
    <3>3. notes' \in Seq(Events)
      BY <1>1, <2>1, Parts DEF Receive, InformerOK
    <3> QED
      BY <3>2, <3>3 DEF InformerOK
  <2> QED
    BY <1>1, <2>2, <2>3, PartsNext DEF Receive, workqueue
<1>2. CASE Relist
  <2>1. ServerOK'
    BY <1>2, Parts DEF Relist, ServerOK
  <2> DEFINE difference(u) ==
               IF slices[u] = NoSlice THEN Event(u, TRUE, cache[u])
               ELSE Event(u, FALSE, slices[u])
             differ == {u \in SliceId : cache[u] # slices[u]}
  <2>2. \A u \in differ : difference(u) \in Events
    BY Parts DEF ServerOK, InformerOK, Stored, Event, Events
  <2>3. PICK order \in Orders(differ) :
          notes' = notes \o [i \in DOMAIN order |-> difference(order[i])]
    BY <1>2 DEF Relist
  <2>4. order \in Seq(differ)
    BY <2>3, OrdersAreSequences, SliceIdFinite
  <2> HIDE DEF difference, differ
  <2>5. [i \in DOMAIN order |-> difference(order[i])] \in Seq(Events)
    BY <2>2, <2>4
  <2>6. cache' \in Stored
    BY <1>2, Parts DEF Relist, ServerOK
  <2>7. notes' \in Seq(Events)
    <3> DEFINE differences == [i \in DOMAIN order |-> difference(order[i])]
    <3>1. notes \in Seq(Events) /\ differences \in Seq(Events)
      BY <2>5, Parts DEF InformerOK
    <3>2. notes' = notes \o differences
      BY <2>3
    <3> HIDE DEF differences
    <3> QED
      BY <3>1, <3>2
  <2> QED
    BY <1>2, <2>1, <2>6, <2>7, PartsNext DEF InformerOK, Relist, workqueue
<1>3. CASE OnEndpointSliceUpdate
  <2>1. Head(notes) \in Events /\ Tail(notes) \in Seq(Events)
    BY <1>3, Parts DEF OnEndpointSliceUpdate, InformerOK
  <2>2. Head(notes).slice.service \in Service
    BY <2>1 DEF Events, EndpointSlice
  <2>3. InformerOK'
    BY <1>3, <2>1, Parts DEF OnEndpointSliceUpdate, InformerOK
  <2>4. Delays'
    BY <1>3, <2>2, AddAfterTyped DEF OnEndpointSliceUpdate
  <2> QED
    BY <1>3, <2>3, <2>4, PartsNext DEF OnEndpointSliceUpdate
<1>4. CASE OnEndpointSliceDelete
  <2>1. Head(notes) \in Events /\ Tail(notes) \in Seq(Events)
    BY <1>4, Parts DEF OnEndpointSliceDelete, InformerOK
  <2>2. Head(notes).slice.service \in Service /\ Head(notes).uid \in SliceId
    BY <2>1 DEF Events, EndpointSlice
  <2>3. InformerOK'
    BY <1>4, <2>1, Parts DEF OnEndpointSliceDelete, InformerOK
  <2>4. Delays'
    BY <1>4, <2>2, AddAfterTyped DEF OnEndpointSliceDelete
  <2>5. TrackerOK'
    BY <1>4, <2>2, SetTrackedTyped DEF OnEndpointSliceDelete, Untracked
  <2> QED
    BY <1>4, <2>3, <2>4, <2>5, PartsNext DEF OnEndpointSliceDelete
<1> QED
  BY <1>1, <1>2, <1>3, <1>4 DEF InformerStep

LEMMA FailoverTyped ==
    ASSUME TypeOK, Failover
    PROVE  TypeOK'
<1> USE Kept
<1>1. MishapsOK'
  BY MishapTyped DEF Failover, Mishaps
<1>2. TrackerOK'
  BY AllUntracked DEF Failover, TrackerOK
<1>3. Delays'
  BY ControllerAssumption DEF Failover, Delays
<1>4. DesiredOK'
  BY Parts DEF Failover, DesiredOK
<1>5. WorkOK'
  <2>1. queue' \in Seq(Service)
        /\ \A i, j \in DOMAIN queue' : queue'[i] = queue'[j] => i = j
    BY OrdersAreSequences, ControllerAssumption DEF Failover
  <2>2. QueueTyped' /\ work' \in [Worker -> Job]
    BY <2>1, IdleTyped DEF Failover, QueueTyped
  <2>3. \A w \in Worker : ~Busy(w)'
    BY IdleTyped DEF Failover, Busy, At
  <2>4. processing' = {work'[w].service : w \in {v \in Worker : Busy(v)'}}
    BY <2>3 DEF Failover
  <2>5. \A i \in DOMAIN queue' : queue'[i] \in dirty' /\ queue'[i] \notin processing'
    BY <2>1 DEF Failover
  <2> QED
    BY <2>1, <2>2, <2>4, <2>5 DEF WorkOK, QueueOK
<1> QED
  BY <1>1, <1>2, <1>3, <1>4, <1>5, PartsNext DEF Failover
-----------------------------------------------------------------------------
\* What the workers do.

LEMMA GetTyped ==
    ASSUME TypeOK, NEW w \in Worker, Get(w)
    PROVE  TypeOK' /\ (OneWorkerPerService => OneWorkerPerService')
<1> USE Kept
<1> DEFINE s == Head(queue)
<1>1. WorkOK
  BY Parts
<1>2. s \in Service /\ Tail(queue) \in Seq(Service) /\ 1 \in DOMAIN queue /\ s = queue[1]
  BY <1>1 DEF Get, WorkOK, QueueTyped
<1>3. work' = [work EXCEPT ![w] = Fresh("get", s)] /\ Fresh("get", s) \in Job
  BY <1>2, FreshTyped DEF Get
<1>4. Fresh("get", s).pc = "get" /\ Fresh("get", s).service = s
  BY DEF Fresh
<1>5. s \in dirty /\ s \notin processing
  BY <1>1, <1>2 DEF WorkOK, QueueOK
<1>6. QueueTyped' /\ work' \in [Worker -> Job]
  BY <1>1, <1>2, <1>3 DEF WorkOK, QueueTyped, Get
<1>7. \A v \in Worker \ {w} : (Busy(v)' <=> Busy(v)) /\ work'[v].service = work[v].service
  BY <1>1, <1>3 DEF WorkOK, Busy, At
<1>8. Busy(w)' /\ ~Busy(w) /\ work'[w].service = s
  BY <1>1, <1>3, <1>4 DEF WorkOK, Busy, At, Get
<1> HIDE DEF s
<1>9. processing' = {work'[v].service : v \in {x \in Worker : Busy(x)'}}
  <2>1. processing = {work[v].service : v \in {x \in Worker : Busy(x)}}
    BY <1>1 DEF WorkOK, QueueOK
  <2>2. processing' = processing \cup {s}
    BY DEF Get, s
  <2>3. {x \in Worker : Busy(x)'} = {x \in Worker : Busy(x)} \cup {w}
    BY <1>7, <1>8
  <2> QED
    BY <2>1, <2>2, <2>3, <1>7, <1>8
<1>10. /\ \A i \in DOMAIN queue' : i + 1 \in DOMAIN queue /\ queue'[i] = queue[i + 1]
       /\ DOMAIN queue' \subseteq Nat \ {0}
  BY <1>1, <1>2 DEF Get, WorkOK, QueueTyped
<1>11. \A i \in DOMAIN queue' : queue'[i] \in dirty' /\ queue'[i] \notin processing'
  <2> SUFFICES ASSUME NEW i \in DOMAIN queue'
               PROVE  queue'[i] \in dirty' /\ queue'[i] \notin processing'
    OBVIOUS
  <2>1. i + 1 # 1 /\ i + 1 \in DOMAIN queue /\ queue'[i] = queue[i + 1]
    BY <1>10
  <2>2. queue'[i] # s
    BY <2>1, <1>1, <1>2 DEF WorkOK, QueueOK
  <2>3. queue'[i] \in dirty /\ queue'[i] \notin processing
    BY <2>1, <1>1 DEF WorkOK, QueueOK
  <2> QED
    BY <2>2, <2>3 DEF Get, s
<1>12. \A i, j \in DOMAIN queue' : queue'[i] = queue'[j] => i = j
  <2> SUFFICES ASSUME NEW i \in DOMAIN queue', NEW j \in DOMAIN queue',
                      queue'[i] = queue'[j]
               PROVE  i = j
    OBVIOUS
  <2>1. i + 1 = j + 1
    BY <1>10, <1>1 DEF WorkOK, QueueOK
  <2> QED
    BY <2>1, <1>10
<1>13. WorkOK'
  BY <1>6, <1>9, <1>11, <1>12 DEF WorkOK, QueueOK
<1>14. ASSUME OneWorkerPerService PROVE OneWorkerPerService'
  <2>1. \A v \in Worker \ {w} : Busy(v) => work[v].service # s
    BY <1>1, <1>5 DEF WorkOK, QueueOK
  <2> QED
    BY <2>1, <1>7, <1>8, <1>14 DEF OneWorkerPerService
<1>15. TypeOK'
  BY <1>13, PartsNext DEF Get
<1> QED
  BY <1>14, <1>15

\* Every later step of a worker but the last.
LEMMA OneWorkerKept ==
    ASSUME OneWorkerPerService,
           \A v \in Worker : Busy(v)' => Busy(v) /\ work'[v].service = work[v].service
    PROVE  OneWorkerPerService'
BY DEF OneWorkerPerService

LEMMA HandleErrTyped ==
    ASSUME TypeOK, OneWorkerPerService, NEW w \in Worker, HandleErr(w)
    PROVE  TypeOK' /\ OneWorkerPerService'
<1> USE Kept
<1> DEFINE s == work[w].service
<1>1. WorkOK
  BY Parts
<1>2. s \in Service /\ Busy(w)
  BY <1>1 DEF WorkOK, Job, HandleErr, Busy, At
<1>3. Delays'
  <2>1. Delays
    BY Parts
  <2>2. delayed' \subseteq Service
    BY <1>2, <2>1 DEF HandleErr, Delays
  <2>3. requeues' \in [Service -> 0..maxRetries]
    BY <1>2, <2>1, ControllerAssumption DEF HandleErr, Delays
  <2> QED
    BY <2>2, <2>3 DEF Delays
<1>4. Done(s) /\ work' = [work EXCEPT ![w] = Idle]
  BY DEF HandleErr
<1> HIDE DEF s
<1>5. QueueTyped' /\ work' \in [Worker -> Job]
  BY <1>1, <1>2, <1>4, IdleTyped DEF WorkOK, QueueTyped, Done
<1>6. s \in processing
  BY <1>1, <1>2 DEF WorkOK, QueueOK, s
<1>7. \A v \in Worker \ {w} : (Busy(v)' <=> Busy(v)) /\ work'[v].service = work[v].service
  BY <1>1, <1>4 DEF WorkOK, Busy, At
<1>8. ~Busy(w)'
  BY <1>1, <1>4, IdleTyped DEF WorkOK, Busy, At
<1>9. processing' = {work'[v].service : v \in {x \in Worker : Busy(x)'}}
  <2>1. processing = {work[v].service : v \in {x \in Worker : Busy(x)}}
    BY <1>1 DEF WorkOK, QueueOK
  <2>2. processing' = processing \ {s}
    BY <1>4 DEF Done
  <2>3. \A v \in Worker \ {w} : Busy(v) => work[v].service # s
    BY <1>2 DEF OneWorkerPerService, s
  <2>4. {x \in Worker : Busy(x)'} = {x \in Worker : Busy(x)} \ {w}
    BY <1>7, <1>8
  <2>5. \A x \in Service : x \in processing' <=>
                             \E v \in {y \in Worker : Busy(y)'} : x = work'[v].service
    BY <2>1, <2>2, <2>3, <2>4, <1>7 DEF s
  <2>6. \A v \in {y \in Worker : Busy(y)'} : work'[v].service \in Service
    BY <1>5 DEF Job
  <2> QED
    BY <2>5, <2>6, <1>5 DEF QueueTyped
<1>10. \A i \in DOMAIN queue' : queue'[i] \in dirty' /\ queue'[i] \notin processing'
  BY <1>1, <1>2, <1>4 DEF WorkOK, QueueTyped, QueueOK, Done
<1>11. \A i, j \in DOMAIN queue' : queue'[i] = queue'[j] => i = j
  BY <1>1, <1>2, <1>4, <1>6 DEF WorkOK, QueueTyped, QueueOK, Done
<1>12. WorkOK'
  BY <1>5, <1>9, <1>10, <1>11 DEF WorkOK, QueueOK
<1>13. OneWorkerPerService'
  BY <1>7, <1>8, OneWorkerKept
<1> QED
  BY <1>3, <1>12, <1>13, PartsNext DEF HandleErr

\* The steps that do no more than move a worker on.
LEMMA LocalStepTyped ==
    ASSUME TypeOK, NEW w \in Worker,
           \/ ServiceNotFound(w) \/ GetService(w) \/ ListPods(w) \/ ListSlices(w)
           \/ Stale(w) \/ Reconcile(w) \/ Track(w) \/ Finalized(w)
    PROVE  TypeOK' /\ (OneWorkerPerService => OneWorkerPerService')
<1> USE Kept DEF workqueue
<1>1. work[w] \in Job /\ work \in [Worker -> Job]
  BY Parts DEF WorkOK
<1>2. CASE ServiceNotFound(w)
  <2>1. WorkOK' /\ (OneWorkerPerService => OneWorkerPerService')
    BY <1>2, GoToMoves DEF ServiceNotFound, At
  <2>2. TrackerOK'
    BY <1>2, Parts DEF ServiceNotFound, TrackerOK, Untracked
  <2> QED
    BY <1>2, <2>1, <2>2, PartsNext DEF ServiceNotFound
<1>3. CASE GetService(w) \/ ListPods(w) \/ ListSlices(w)
  <2> DEFINE s == work[w].service
  <2>1. List(s, cache) \in Stored
    BY Parts DEF InformerOK, Stored, List
  <2>2. s \in Service
    BY <1>1 DEF Job
  <2>3. incarnation[s] \in 1..MaxIncarnation /\ want[s] \in 1..MaxVersion
    BY <2>2, Parts DEF DesiredOK
  <2>4. PICK job \in Job :
          /\ job.pc # "idle" /\ job.service = work[w].service
          /\ work' = [work EXCEPT ![w] = job]
    <3> DEFINE atPods   == [work[w] EXCEPT !.owner = incarnation[s], !.pc = "pods"]
               atSlices == [work[w] EXCEPT !.want = want[s], !.pc = "slices"]
               atCheck  == [work[w] EXCEPT !.listed = List(s, cache), !.pc = "check"]
    <3>1. /\ GetService(w) => work' = [work EXCEPT ![w] = atPods]
          /\ ListPods(w) => work' = [work EXCEPT ![w] = atSlices]
          /\ ListSlices(w) => work' = [work EXCEPT ![w] = atCheck]
      BY <1>1 DEF GetService, ListPods, ListSlices
    <3>2. atPods \in Job /\ atSlices \in Job /\ atCheck \in Job
      BY <1>1, <2>1, <2>3 DEF Job
    <3> HIDE DEF s
    <3>3. /\ "idle" \notin {atPods.pc, atSlices.pc, atCheck.pc}
          /\ atPods.service = work[w].service /\ atSlices.service = work[w].service
          /\ atCheck.service = work[w].service
      BY <1>1 DEF Job
    <3> QED
      BY <1>3, <3>1, <3>2, <3>3
  <2> HIDE DEF s
  <2>5. WorkOK' /\ (OneWorkerPerService => OneWorkerPerService')
    BY <1>3, <2>4, WorkMoves DEF GetService, ListPods, ListSlices, At
  <2> QED
    BY <1>3, <2>5, PartsNext DEF GetService, ListPods, ListSlices
<1>4. CASE Stale(w)
  <2>1. WorkOK' /\ (OneWorkerPerService => OneWorkerPerService')
    BY <1>4, GoToMoves DEF Stale, At
  <2> QED
    BY <1>4, <2>1, PartsNext DEF Stale
<1>5. CASE Reconcile(w)
  <2>1. PICK planned \in Plans(w) : work' = [work EXCEPT ![w] = planned]
    BY <1>5 DEF Reconcile
  <2>2. planned \in Job /\ planned.pc = "call" /\ planned.service = work[w].service
    <3> DEFINE listed == work[w].listed
               owned  == {u \in Listed(listed) : listed[u].owner = work[w].owner}
               right  == {u \in owned : listed[u].content = work[w].want}
               plan(create, updates, kept) ==
                   [work[w] EXCEPT !.create = create, !.updates = updates,
                                   !.deletes = Listed(listed) \ kept,
                                   !.listed = Nothing, !.pc = "call"]
    <3>1. Listed(listed) \subseteq SliceId /\ owned \subseteq SliceId /\ right \subseteq SliceId
      BY DEF Listed
    <3>2. ASSUME NEW create \in BOOLEAN, NEW updates \in SUBSET SliceId, NEW kept
          PROVE  /\ plan(create, updates, kept) \in Job
                 /\ plan(create, updates, kept).pc = "call"
                 /\ plan(create, updates, kept).service = work[w].service
      BY <1>1, <3>1, NothingTyped DEF Job
    <3>3. planned \in {plan(FALSE, {}, {u}) : u \in right}
                     \cup {plan(FALSE, {u}, {u}) : u \in owned}
                     \cup {plan(TRUE, {}, {})}
      BY <2>1 DEF Plans
    <3>4. PICK create \in BOOLEAN, updates \in SUBSET SliceId, kept \in SUBSET SliceId :
            planned = plan(create, updates, kept)
      <4> HIDE DEF plan
      <4>1. CASE planned = plan(TRUE, {}, {})
        BY <4>1
      <4>2. ASSUME NEW u \in right, planned = plan(FALSE, {}, {u})
            PROVE  \E create \in BOOLEAN, updates, kept \in SUBSET SliceId :
                      planned = plan(create, updates, kept)
        BY <3>1, <4>2
      <4>3. ASSUME NEW u \in owned, planned = plan(FALSE, {u}, {u})
            PROVE  \E create \in BOOLEAN, updates, kept \in SUBSET SliceId :
                      planned = plan(create, updates, kept)
        BY <3>1, <4>3
      <4> QED
        BY <3>3, <4>1, <4>2, <4>3
    <3> QED
      BY <3>2, <3>4
  <2>3. WorkOK' /\ (OneWorkerPerService => OneWorkerPerService')
    BY <1>5, <2>1, <2>2, WorkMoves DEF Reconcile, At
  <2> QED
    BY <1>5, <2>3, PartsNext DEF Reconcile
<1>6. CASE Track(w)
  <2>1. WorkOK' /\ (OneWorkerPerService => OneWorkerPerService')
    BY <1>6, GoToMoves DEF Track, At
  <2>2. TrackerOK'
    BY <1>1, <1>6, SetTrackedTyped DEF Track, Job
  <2> QED
    BY <1>6, <2>1, <2>2, PartsNext DEF Track
<1>7. CASE Finalized(w)
  <2>1. WorkOK' /\ (OneWorkerPerService => OneWorkerPerService')
    BY <1>7, GoToMoves DEF Finalized, At
  <2> QED
    BY <1>7, <2>1, PartsNext DEF Finalized
<1> QED
  BY <1>2, <1>3, <1>4, <1>5, <1>6, <1>7

LEMMA CallTyped ==
    ASSUME TypeOK, NEW w \in Worker,
           \/ CreateSlice(w) \/ CallFails(w)
           \/ \E u \in SliceId : UpdateSlice(w, u) \/ DeleteSlice(w, u)
    PROVE  TypeOK' /\ (OneWorkerPerService => OneWorkerPerService')
<1> USE Kept
<1>1. work[w] \in Job
  BY Parts DEF WorkOK
<1>2. CASE CreateSlice(w)
  <2> DEFINE rest == [work[w] EXCEPT !.create = FALSE]
             slice == [service |-> work[w].service, owner |-> work[w].owner,
                       content |-> work[w].want, generation |-> 1]
  <2>1. rest \in Job /\ rest.service = work[w].service
    BY <1>1 DEF Job
  <2>2. slice \in EndpointSlice
    BY <1>1 DEF Job, EndpointSlice
  <2>3. used + 1 \in SliceId /\ used' = used + 1
    BY <1>2 DEF CreateSlice
  <2>4. used' \in 0..MaxSlices
    BY <2>3, ControllerAssumption DEF SliceId
  <2>5. Write(used + 1, slice) /\ Replied(w, rest, used + 1, 1)
    BY <1>2 DEF CreateSlice
  <2> HIDE DEF rest, slice
  <2>6. ServerOK'
    BY <2>2, <2>3, <2>4, <2>5, WriteTyped
  <2>7. WorkOK' /\ MishapsOK' /\ (OneWorkerPerService => OneWorkerPerService')
    BY <1>2, <2>1, <2>3, <2>5, RepliedMoves DEF CreateSlice
  <2> QED
    BY <1>2, <2>6, <2>7, PartsNext DEF CreateSlice, workqueue
<1>3. CASE CallFails(w)
  <2>1. WorkOK' /\ (OneWorkerPerService => OneWorkerPerService')
    BY <1>3, GoToMoves DEF CallFails, At, workqueue
  <2>2. MishapsOK'
    BY <1>3, MishapTyped DEF CallFails, Mishaps
  <2> QED
    BY <1>3, <2>1, <2>2, PartsNext DEF CallFails, workqueue
<1>4. ASSUME NEW u \in SliceId, UpdateSlice(w, u)
      PROVE  TypeOK' /\ (OneWorkerPerService => OneWorkerPerService')
  <2> DEFINE rest == [work[w] EXCEPT !.updates = @ \ {u}]
             next == [slices[u] EXCEPT !.content = work[w].want, !.generation = @ + 1]
  <2>1. rest \in Job /\ rest.service = work[w].service
    BY <1>1 DEF Job
  <2>2. slices[u] \in EndpointSlice
    BY <1>4, Parts DEF UpdateSlice, ServerOK, Stored
  <2>3. next \in EndpointSlice
    <3>1. work[w].want \in 1..MaxVersion
      BY <1>1 DEF Job
    <3>2. slices[u].generation + 1 \in Nat \ {0}
      BY <2>2 DEF EndpointSlice
    <3> QED
      BY <2>2, <3>1, <3>2 DEF EndpointSlice
  <2>4. slices[u].generation \in Nat /\ next.generation \in Nat
    BY <2>2, <2>3 DEF EndpointSlice
  <2>5. UNCHANGED workqueue /\ At(w, "call") /\ UNCHANGED used /\ used \in 0..MaxSlices
    BY <1>4, Parts DEF UpdateSlice, ServerOK
  <2>6. \/ UNCHANGED <<slices, watch>> /\ Replied(w, rest, u, slices[u].generation)
        \/ Write(u, next) /\ Replied(w, rest, u, next.generation)
    BY <1>4 DEF UpdateSlice
  <2> HIDE DEF rest, next
  <2>7. ServerOK'
    BY <2>3, <2>5, <2>6, WriteTyped DEF server
  <2>8. WorkOK' /\ MishapsOK' /\ (OneWorkerPerService => OneWorkerPerService')
    BY <2>1, <2>4, <2>5, <2>6, RepliedMoves
  <2> QED
    BY <1>4, <2>7, <2>8, PartsNext DEF UpdateSlice, workqueue
<1>5. ASSUME NEW u \in SliceId, DeleteSlice(w, u)
      PROVE  TypeOK' /\ (OneWorkerPerService => OneWorkerPerService')
  <2> DEFINE rest == [work[w] EXCEPT !.deletes = @ \ {u}]
  <2>1. rest \in Job /\ rest.service = work[w].service
    BY <1>1 DEF Job
  <2>2. ServerOK'
    BY <1>5, EraseTyped DEF DeleteSlice
  <2>3. At(w, "call") /\ Replied(w, rest, u, deletionExpected) /\ UNCHANGED workqueue
    BY <1>5 DEF DeleteSlice
  <2> HIDE DEF rest
  <2>4. WorkOK' /\ MishapsOK' /\ (OneWorkerPerService => OneWorkerPerService')
    BY <2>1, <2>3, RepliedMoves
  <2> QED
    BY <1>5, <2>2, <2>4, PartsNext DEF DeleteSlice, workqueue
<1> QED
  BY <1>2, <1>3, <1>4, <1>5
-----------------------------------------------------------------------------
\* Both together are inductive: the queue alone does not tell whether a worker
\* that is done was the only one with its service.
LEMMA Step ==
    ASSUME TypeOK, OneWorkerPerService, [Next]_vars
    PROVE  TypeOK' /\ OneWorkerPerService'
<1>0. ASSUME UNCHANGED work PROVE OneWorkerPerService'
  BY <1>0 DEF OneWorkerPerService, Busy, At
<1>1. ASSUME NEW s \in Service,
             \/ ServiceCreated(s) \/ ServiceDeleted(s) \/ OnServiceUpdate(s)
             \/ PodChanged(s) \/ DelayOver(s)
      PROVE  TypeOK' /\ UNCHANGED work
  BY <1>1, ServiceStepTyped
     DEF ServiceCreated, ServiceDeleted, OnServiceUpdate, PodChanged, DelayOver
<1>2. ASSUME NEW u \in SliceId, Removed(u) \/ GarbageCollected(u)
      PROVE  TypeOK' /\ UNCHANGED work
  BY <1>2, OthersStepTyped DEF Removed, GarbageCollected
<1>3. ASSUME InformerStep PROVE TypeOK' /\ UNCHANGED work
  BY <1>3, InformerStepTyped
     DEF InformerStep, Receive, Relist, OnEndpointSliceUpdate, OnEndpointSliceDelete
<1>4. ASSUME NEW w \in Worker, WorkerStep(w)
      PROVE  TypeOK' /\ OneWorkerPerService'
  BY <1>4, GetTyped, HandleErrTyped, LocalStepTyped, CallTyped DEF WorkerStep
<1>5. ASSUME Failover PROVE TypeOK' /\ OneWorkerPerService'
  <2>1. \A w \in Worker : ~Busy(w)'
    BY <1>5, IdleTyped DEF Failover, Busy, At
  <2> QED
    BY <1>5, <2>1, FailoverTyped DEF OneWorkerPerService
<1>6. ASSUME UNCHANGED vars PROVE TypeOK' /\ UNCHANGED work
  BY <1>6, Kept, PartsNext DEF vars, workqueue
<1> QED
  BY <1>0, <1>1, <1>2, <1>3, <1>4, <1>5, <1>6 DEF Next

\* The state of the controller, its queue and its workers keep their type,
\* and the queue never holds a service twice or one being processed.
THEOREM TypeCorrect == Spec => []TypeOK
<1>1. Init => TypeOK /\ OneWorkerPerService
  <2>1. Init => \A w \in Worker : ~Busy(w)
    BY IdleTyped DEF Init, Busy, At
  <2> QED
    BY <2>1, InitTyped DEF OneWorkerPerService
<1>2. TypeOK /\ OneWorkerPerService /\ [Next]_vars => (TypeOK /\ OneWorkerPerService)'
  BY Step
<1> QED
  BY <1>1, <1>2, PTL DEF Spec

\* No two workers ever process the same service at the same time, as the
\* comment on worker says.
THEOREM MutualExclusion == Spec => []OneWorkerPerService
<1>1. Init => TypeOK /\ OneWorkerPerService
  <2>1. Init => \A w \in Worker : ~Busy(w)
    BY IdleTyped DEF Init, Busy, At
  <2> QED
    BY <2>1, InitTyped DEF OneWorkerPerService
<1>2. TypeOK /\ OneWorkerPerService /\ [Next]_vars => (TypeOK /\ OneWorkerPerService)'
  BY Step
<1> QED
  BY <1>1, <1>2, PTL DEF Spec
=============================================================================
