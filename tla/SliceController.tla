--------------------------- MODULE SliceController ---------------------------
(***************************************************************************)
(* The controller of multus-service-controller around its reconciler       *)
(* (pkg/service-controller/endpointslice_controller.go and                 *)
(* endpointslice_tracker.go): workers take services from a work queue and  *)
(* sync them against what the EndpointSlice informer has cached, a tracker *)
(* of the controller's own writes keeps them from acting on a cache that   *)
(* lags behind, and event handlers put services back into the queue.       *)
(*                                                                         *)
(* Every service has one pod, which may change; so the reconciler's plan   *)
(* is one of few (module Reconciler has the general one).  Slices that     *)
(* other controllers manage, that change hands between controllers, or     *)
(* whose service label a user edits are not modelled.                      *)
(***************************************************************************)
EXTENDS Integers, Sequences, FiniteSets

CONSTANTS
    Service,         \* namespaced service names
    Worker,          \* worker goroutines
    MaxVersion,      \* bounds the states a service's pod goes through
    MaxIncarnation,  \* bounds how often a service is created
    MaxSlices,       \* bounds the EndpointSlices ever created
    maxRetries,
    MaxMishaps,      \* bounds each kind of mishap
    NoSlice          \* no slice of that UID

SliceId == 1..MaxSlices

Mishaps == {"failed", "lost", "failover", "removed"}

EndpointSlice ==
    [service : Service, owner : 1..MaxIncarnation, content : 1..MaxVersion,
     generation : Nat \ {0}]

ASSUME ControllerAssumption ==
    /\ Service # {} /\ IsFiniteSet(Service)
    /\ MaxVersion \in Nat \ {0} /\ MaxIncarnation \in Nat \ {0}
    /\ MaxSlices \in Nat \ {0}
    /\ maxRetries \in Nat
    /\ MaxMishaps \in [Mishaps -> Nat]
    /\ NoSlice \notin EndpointSlice

VARIABLES
    alive, incarnation,  \* is there a service of that name, and its UID
    want,                \* version of the service's pod, in the pod lister
    slices,              \* EndpointSlices in the API server, by UID
    used,                \* UIDs given out
    watch,               \* changes the informer has not received
    cache,               \* what the EndpointSlice lister lists
    notes,               \* changes the handlers have not been called for
    tracker,             \* endpointSliceTracker.generationsByService
    queue, dirty, processing, delayed, requeues,  \* Controller.queue
    work,                \* what each worker is doing
    mishaps              \* how many there were of each kind

desired == <<alive, incarnation, want>>
server == <<slices, used, watch>>
informer == <<cache, notes>>
workqueue == <<queue, dirty, processing, delayed, requeues>>
vars == <<desired, server, informer, tracker, workqueue, work, mishaps>>
-----------------------------------------------------------------------------
\* Generations start at 1.
Untracked == 0
deletionExpected == -1

\* The slices of a service among those of a store.
Of(s, store) == {u \in SliceId : store[u] # NoSlice /\ store[u].service = s}

List(s, store) == [u \in SliceId |-> IF u \in Of(s, store) THEN store[u] ELSE NoSlice]

Nothing == [u \in SliceId |-> NoSlice]

Listed(listed) == {u \in SliceId : listed[u] # NoSlice}

\* The sequences that have each member of S once.
Orders(S) ==
    {f \in [1..Cardinality(S) -> S] : \A i, j \in DOMAIN f : f[i] = f[j] => i = j}

\* A worker: where it is in processNextWorkItem; the service and its UID and
\* pod as the listers had them; the slices listed; the API calls left to do;
\* and the write the tracker is to learn of.
Fresh(pc, s) ==
    [pc |-> pc, service |-> s, owner |-> 1, want |-> 1, listed |-> Nothing,
     create |-> FALSE, updates |-> {}, deletes |-> {}, reply |-> [uid |-> 1, generation |-> Untracked]]

Idle == Fresh("idle", CHOOSE s \in Service : TRUE)

Init ==
    /\ alive = [s \in Service |-> TRUE]
    /\ incarnation = [s \in Service |-> 1]
    /\ want = [s \in Service |-> 1]
    /\ slices = [u \in SliceId |-> NoSlice] /\ used = 0 /\ watch = << >>
    /\ cache = slices /\ notes = << >>
    /\ tracker = [s \in Service |-> [u \in SliceId |-> Untracked]]
    /\ queue = << >> /\ dirty = {} /\ processing = {}
    /\ delayed = {} /\ requeues = [s \in Service |-> 0]
    /\ work = [w \in Worker |-> Idle]
    /\ mishaps = [m \in Mishaps |-> 0]

Mishap(kind) ==
    /\ mishaps[kind] < MaxMishaps[kind]
    /\ mishaps' = [mishaps EXCEPT ![kind] = @ + 1]
-----------------------------------------------------------------------------
\* The work queue (client-go).  Add: a service that waits is not added again,
\* one that is being processed is put back by Done.  AddAfter and
\* AddRateLimited: a delayed service is added when its delay is over.
Add(s) ==
    /\ dirty' = dirty \cup {s}
    /\ queue' = IF s \in dirty \cup processing THEN queue ELSE Append(queue, s)

AddAfter(s) == delayed' = delayed \cup {s}

DelayOver(s) ==
    /\ s \in delayed
    /\ delayed' = delayed \ {s}
    /\ Add(s)
    /\ UNCHANGED <<desired, server, informer, tracker, processing, requeues, work, mishaps>>

\* Done.
Done(s) ==
    /\ processing' = processing \ {s}
    /\ queue' = IF s \in dirty THEN Append(queue, s) ELSE queue
    /\ UNCHANGED dirty
-----------------------------------------------------------------------------
\* endpointSliceTracker
SetTracked(s, u, generation) ==
    tracker' = [tracker EXCEPT ![s][u] = generation]

ShouldSync(s, u, generation) ==
    tracker[s][u] = Untracked \/ generation > tracker[s][u]

\* Faulty variant: tracked slices the cache does not have are not noticed.
StaleSlicesListed(s, listed) ==
    \E u \in Listed(listed) :
        tracker[s][u] = deletionExpected \/ tracker[s][u] > listed[u].generation

\* Faulty variant: a cached slice of the tracked generation is stale.
StaleSlicesUpTo(s, listed) ==
    \/ \E u \in Listed(listed) :
          \/ tracker[s][u] = deletionExpected
          \/ tracker[s][u] >= listed[u].generation
    \/ \E u \in SliceId \ Listed(listed) :
          tracker[s][u] \notin {Untracked, deletionExpected}

StaleSlices(s, listed) ==
    \/ \E u \in Listed(listed) :
          tracker[s][u] = deletionExpected \/ tracker[s][u] > listed[u].generation
    \/ \E u \in SliceId \ Listed(listed) :
          tracker[s][u] \notin {Untracked, deletionExpected}
-----------------------------------------------------------------------------
\* The services and their pods change, and their handlers are called.
ServiceCreated(s) ==
    /\ ~alive[s]
    /\ alive' = [alive EXCEPT ![s] = TRUE]
    /\ incarnation' = [incarnation EXCEPT ![s] = @ + 1]
    /\ Add(s)
    /\ UNCHANGED <<want, server, informer, tracker, processing, delayed, requeues, work, mishaps>>

ServiceDeleted(s) ==
    /\ alive[s] /\ incarnation[s] < MaxIncarnation
    /\ alive' = [alive EXCEPT ![s] = FALSE]
    /\ Add(s)
    /\ UNCHANGED <<incarnation, want, server, informer, tracker, processing, delayed,
                   requeues, work, mishaps>>

\* onServiceUpdate, which the informer also calls for every service it has
\* whenever the resync period has passed.
OnServiceUpdate(s) ==
    /\ alive[s]
    /\ Add(s)
    /\ UNCHANGED <<desired, server, informer, tracker, processing, delayed, requeues, work, mishaps>>

PodChanged(s) ==
    /\ want[s] < MaxVersion
    /\ want' = [want EXCEPT ![s] = @ + 1]
    /\ IF alive[s] THEN AddAfter(s) ELSE UNCHANGED delayed
    /\ UNCHANGED <<alive, incarnation, server, informer, tracker, queue, dirty,
                   processing, requeues, work, mishaps>>

\* The API server changes a slice and tells the informer, some time; of a
\* deletion it tells what was deleted.
Event(u, gone, slice) == [uid |-> u, gone |-> gone, slice |-> slice]

Write(u, slice) ==
    /\ slices' = [slices EXCEPT ![u] = slice]
    /\ watch' = Append(watch, Event(u, FALSE, slice))

Erase(u) ==
    /\ slices' = [slices EXCEPT ![u] = NoSlice]
    /\ watch' = Append(watch, Event(u, TRUE, slices[u]))

\* Somebody else deletes a slice; so does the garbage collector, when the
\* service that owns it is gone.
Removed(u) ==
    /\ slices[u] # NoSlice
    /\ Mishap("removed")
    /\ Erase(u)
    /\ UNCHANGED <<desired, used, informer, tracker, workqueue, work>>

GarbageCollected(u) ==
    /\ slices[u] # NoSlice
    /\ LET s == slices[u].service
       IN  ~alive[s] \/ incarnation[s] # slices[u].owner
    /\ Erase(u)
    /\ UNCHANGED <<desired, used, informer, tracker, workqueue, work, mishaps>>
-----------------------------------------------------------------------------
\* The informer stores a change; its handlers are called later, by another
\* goroutine.
Receive ==
    /\ watch # << >>
    /\ cache' = [cache EXCEPT ![Head(watch).uid] =
                    IF Head(watch).gone THEN NoSlice ELSE Head(watch).slice]
    /\ notes' = Append(notes, Head(watch))
    /\ watch' = Tail(watch)
    /\ UNCHANGED <<desired, slices, used, tracker, workqueue, work, mishaps>>

\* When a watch cannot be resumed the informer lists everything again: of what
\* happened in between only the outcome is left.
Relist ==
    LET difference(u) == IF slices[u] = NoSlice THEN Event(u, TRUE, cache[u])
                         ELSE Event(u, FALSE, slices[u])
    IN  /\ watch # << >>
        /\ \E order \in Orders({u \in SliceId : cache[u] # slices[u]}) :
              notes' = notes \o [i \in DOMAIN order |-> difference(order[i])]
        /\ cache' = slices
        /\ watch' = << >>
        /\ UNCHANGED <<desired, slices, used, tracker, workqueue, work, mishaps>>

\* onEndpointSliceAdd, and onEndpointSliceUpdate of a slice that keeps its service
\* and its controller.
OnEndpointSliceUpdate ==
    /\ notes # << >> /\ ~Head(notes).gone
    /\ notes' = Tail(notes)
    /\ LET s == Head(notes).slice.service
       IN  IF ShouldSync(s, Head(notes).uid, Head(notes).slice.generation)
           THEN AddAfter(s) ELSE UNCHANGED delayed
    /\ UNCHANGED <<desired, server, cache, tracker, queue, dirty, processing,
                   requeues, work, mishaps>>

\* onEndpointSliceDelete: a tracked slice is forgotten (HandleDeletion), and
\* unless its deletion was expected the service is queued.
OnEndpointSliceDelete ==
    /\ notes # << >> /\ Head(notes).gone
    /\ notes' = Tail(notes)
    /\ LET s == Head(notes).slice.service
           u == Head(notes).uid
       IN  /\ SetTracked(s, u, Untracked)
           /\ IF tracker[s][u] \in {Untracked, deletionExpected}
              THEN UNCHANGED delayed ELSE AddAfter(s)
    /\ UNCHANGED <<desired, server, cache, queue, dirty, processing, requeues,
                   work, mishaps>>
-----------------------------------------------------------------------------
At(w, pc) == work[w].pc = pc

GoTo(w, pc) == work' = [work EXCEPT ![w].pc = pc]

\* processNextWorkItem: Done is called when the sync is over.
\*
\* Faulty variant: Done is called at once.
GetAndDone(w) ==
    /\ At(w, "idle") /\ queue # << >>
    /\ queue' = Tail(queue)
    /\ dirty' = dirty \ {Head(queue)}
    /\ work' = [work EXCEPT ![w] = Fresh("get", Head(queue))]
    /\ UNCHANGED <<desired, server, informer, tracker, processing, delayed, requeues, mishaps>>

Get(w) ==
    /\ At(w, "idle") /\ queue # << >>
    /\ queue' = Tail(queue)
    /\ dirty' = dirty \ {Head(queue)}
    /\ processing' = processing \cup {Head(queue)}
    /\ work' = [work EXCEPT ![w] = Fresh("get", Head(queue))]
    /\ UNCHANGED <<desired, server, informer, tracker, delayed, requeues, mishaps>>

\* syncService: of a service that is gone the tracker forgets everything.
ServiceNotFound(w) ==
    LET s == work[w].service
    IN  /\ At(w, "get") /\ ~alive[s]
        /\ tracker' = [tracker EXCEPT ![s] = [u \in SliceId |-> Untracked]]
        /\ GoTo(w, "ok")
        /\ UNCHANGED <<desired, server, informer, workqueue, mishaps>>

\* Otherwise it is read, then its pods, then its slices; meanwhile each of them
\* may change.
GetService(w) ==
    LET s == work[w].service
    IN  /\ At(w, "get") /\ alive[s]
        /\ work' = [work EXCEPT ![w].owner = incarnation[s], ![w].pc = "pods"]
        /\ UNCHANGED <<desired, server, informer, tracker, workqueue, mishaps>>

ListPods(w) ==
    /\ At(w, "pods")
    /\ work' = [work EXCEPT ![w].want = want[work[w].service], ![w].pc = "slices"]
    /\ UNCHANGED <<desired, server, informer, tracker, workqueue, mishaps>>

ListSlices(w) ==
    /\ At(w, "slices")
    /\ work' = [work EXCEPT ![w].listed = List(work[w].service, cache), ![w].pc = "check"]
    /\ UNCHANGED <<desired, server, informer, tracker, workqueue, mishaps>>

\* If they are not what the tracker has seen, the sync has to be
\* repeated (StaleInformerCache).
Stale(w) ==
    /\ At(w, "check")
    /\ StaleSlices(work[w].service, work[w].listed)
    /\ GoTo(w, "error")
    /\ UNCHANGED <<desired, server, informer, tracker, workqueue, mishaps>>

\* reconcile, for a single endpoint: if a slice has it, that one stays and the
\* others go; else one of the service's own takes it in, which finalize makes
\* of a delete and a create; else a slice is created.
\*
\* Faulty variant: the others stay.
PlansWithoutDeletes(w) ==
    LET listed == work[w].listed
        owned  == {u \in Listed(listed) : listed[u].owner = work[w].owner}
        right  == {u \in owned : listed[u].content = work[w].want}
        plan(create, updates) ==
            [work[w] EXCEPT !.create = create, !.updates = updates,
                            !.listed = Nothing, !.pc = "call"]
    IN  IF right # {} THEN {plan(FALSE, {})}
        ELSE IF owned # {} THEN {plan(FALSE, {u}) : u \in owned}
        ELSE {plan(TRUE, {})}

\* Faulty variant: a slice that is written anew is still deleted as well.
PlansWithRewrittenDeleted(w) ==
    LET listed == work[w].listed
        owned  == {u \in Listed(listed) : listed[u].owner = work[w].owner}
        right  == {u \in owned : listed[u].content = work[w].want}
        plan(create, updates, kept) ==
            [work[w] EXCEPT !.create = create, !.updates = updates,
                            !.deletes = Listed(listed) \ kept,
                            !.listed = Nothing, !.pc = "call"]
    IN  IF right # {} THEN {plan(FALSE, {}, {u}) : u \in right}
        ELSE IF owned # {} THEN {plan(FALSE, {u}, {}) : u \in owned}
        ELSE {plan(TRUE, {}, {})}

Plans(w) ==
    LET listed == work[w].listed
        owned  == {u \in Listed(listed) : listed[u].owner = work[w].owner}
        right  == {u \in owned : listed[u].content = work[w].want}
        plan(create, updates, kept) ==
            [work[w] EXCEPT !.create = create, !.updates = updates,
                            !.deletes = Listed(listed) \ kept,
                            !.listed = Nothing, !.pc = "call"]
    IN  IF right # {} THEN {plan(FALSE, {}, {u}) : u \in right}
        ELSE IF owned # {} THEN {plan(FALSE, {u}, {u}) : u \in owned}
        ELSE {plan(TRUE, {}, {})}

Reconcile(w) ==
    /\ At(w, "check")
    /\ ~StaleSlices(work[w].service, work[w].listed)
    /\ \E planned \in Plans(w) : work' = [work EXCEPT ![w] = planned]
    /\ UNCHANGED <<desired, server, informer, tracker, workqueue, mishaps>>

\* finalize: the API server executes a call and replies, or the reply is lost.
Replied(w, rest, u, generation) ==
    \/ /\ work' = [work EXCEPT ![w] = [rest EXCEPT !.pc = "track",
                         !.reply = [uid |-> u, generation |-> generation]]]
       /\ UNCHANGED mishaps
    \/ /\ Mishap("lost")
       /\ GoTo(w, "error")

CreateSlice(w) ==
    LET u == used + 1
    IN  /\ At(w, "call") /\ work[w].create
        /\ u \in SliceId
        /\ used' = u
        /\ Write(u, [service |-> work[w].service, owner |-> work[w].owner,
                     content |-> work[w].want, generation |-> 1])
        /\ Replied(w, [work[w] EXCEPT !.create = FALSE], u, 1)
        /\ UNCHANGED <<desired, informer, tracker, workqueue>>

\* An update that changes nothing does not make a new generation.  One that
\* finalize made from a create is unconditional.  One of a slice that is kept
\* carries a resourceVersion, and a conflict is a call that fails (CallFails);
\* the model also allows it to go through.
UpdateSlice(w, u) ==
    LET rest == [work[w] EXCEPT !.updates = @ \ {u}]
        same == slices[u].content = work[w].want
        next == [slices[u] EXCEPT !.content = work[w].want, !.generation = @ + 1]
    IN  /\ At(w, "call") /\ ~work[w].create /\ u \in work[w].updates
        /\ slices[u] # NoSlice
        /\ \/ /\ same
              /\ UNCHANGED <<slices, watch>>
              /\ Replied(w, rest, u, slices[u].generation)
           \/ /\ ~same
              /\ Write(u, next)
              /\ Replied(w, rest, u, next.generation)
        /\ UNCHANGED <<desired, used, informer, tracker, workqueue>>

DeleteSlice(w, u) ==
    /\ At(w, "call") /\ ~work[w].create /\ work[w].updates = {} /\ u \in work[w].deletes
    /\ slices[u] # NoSlice
    /\ Erase(u)
    /\ Replied(w, [work[w] EXCEPT !.deletes = @ \ {u}], u, deletionExpected)
    /\ UNCHANGED <<desired, used, informer, tracker, workqueue>>

\* Calls for a slice that is not there any more fail, any other may.
CallFails(w) ==
    LET left == IF work[w].updates # {} THEN work[w].updates ELSE work[w].deletes
    IN  /\ At(w, "call")
        /\ GoTo(w, "error")
        /\ \/ /\ ~work[w].create
              /\ \E u \in left : slices[u] = NoSlice
              /\ UNCHANGED mishaps
           \/ /\ work[w].create \/ left # {}
              /\ Mishap("failed")
        /\ UNCHANGED <<desired, server, informer, tracker, workqueue>>

\* Only then the tracker is told (Update, ExpectDeletion).
Track(w) ==
    /\ At(w, "track")
    /\ SetTracked(work[w].service, work[w].reply.uid, work[w].reply.generation)
    /\ GoTo(w, "call")
    /\ UNCHANGED <<desired, server, informer, workqueue, mishaps>>

Finalized(w) ==
    /\ At(w, "call")
    /\ ~work[w].create /\ work[w].updates = {} /\ work[w].deletes = {}
    /\ GoTo(w, "ok")
    /\ UNCHANGED <<desired, server, informer, tracker, workqueue, mishaps>>

\* handleErr: a sync that failed is retried a number of times, then dropped.
HandleErr(w) ==
    LET s == work[w].service
        retry == At(w, "error") /\ requeues[s] < maxRetries
    IN  /\ At(w, "ok") \/ At(w, "error")
        /\ requeues' = [requeues EXCEPT ![s] = IF retry THEN @ + 1 ELSE 0]
        /\ delayed' = IF retry THEN delayed \cup {s} ELSE delayed
        /\ Done(s)
        /\ work' = [work EXCEPT ![w] = Idle]
        /\ UNCHANGED <<desired, server, informer, tracker, mishaps>>
-----------------------------------------------------------------------------
\* The process dies, or loses the lease and exits; another one that waited for
\* the lease starts its workers (Options.Run).  Its informers have been running
\* all the time and may lag as well, that of the pods further than the other's
\* did; its queue has every service, its tracker knows of nothing.
\*
\* Faulty variant: a process that lost the lease goes on with what it does.
FailoverWithoutExit ==
    /\ Mishap("failover")
    /\ tracker' = [s \in Service |-> [u \in SliceId |-> Untracked]]
    /\ processing' = {} /\ delayed' = {} /\ requeues' = [s \in Service |-> 0]
    /\ dirty' = Service
    /\ queue' \in Orders(Service)
    /\ want' \in {seen \in [Service -> 1..MaxVersion] : \A s \in Service : seen[s] <= want[s]}
    /\ UNCHANGED <<alive, incarnation, server, informer, work>>

Failover ==
    /\ Mishap("failover")
    /\ work' = [w \in Worker |-> Idle]
    /\ tracker' = [s \in Service |-> [u \in SliceId |-> Untracked]]
    /\ processing' = {} /\ delayed' = {} /\ requeues' = [s \in Service |-> 0]
    /\ dirty' = Service
    /\ queue' \in Orders(Service)
    /\ want' \in {seen \in [Service -> 1..MaxVersion] : \A s \in Service : seen[s] <= want[s]}
    /\ UNCHANGED <<alive, incarnation, server, informer>>

WorkerStep(w) ==
    \/ Get(w) \/ ServiceNotFound(w) \/ GetService(w) \/ ListPods(w) \/ ListSlices(w)
    \/ Stale(w) \/ Reconcile(w)
    \/ CreateSlice(w) \/ Track(w) \/ Finalized(w) \/ HandleErr(w) \/ CallFails(w)
    \/ \E u \in SliceId : UpdateSlice(w, u) \/ DeleteSlice(w, u)

InformerStep == Receive \/ Relist \/ OnEndpointSliceUpdate \/ OnEndpointSliceDelete

Next ==
    \/ \E s \in Service :
          \/ ServiceCreated(s) \/ ServiceDeleted(s) \/ OnServiceUpdate(s)
          \/ PodChanged(s) \/ DelayOver(s)
    \/ \E u \in SliceId : Removed(u) \/ GarbageCollected(u)
    \/ InformerStep
    \/ \E w \in Worker : WorkerStep(w)
    \/ Failover

Spec == Init /\ [][Next]_vars

\* Goroutines go on; watches deliver; delays end; resyncs recur.
Fairness ==
    /\ \A w \in Worker : WF_vars(WorkerStep(w))
    /\ WF_vars(InformerStep)
    /\ \A s \in Service : WF_vars(DelayOver(s)) /\ WF_vars(OnServiceUpdate(s))

FairSpec == Spec /\ Fairness
-----------------------------------------------------------------------------
Busy(w) == ~At(w, "idle")

Stored == [SliceId -> EndpointSlice \cup {NoSlice}]

Events == [uid : SliceId, gone : BOOLEAN, slice : EndpointSlice]

Job ==
    [pc : {"idle", "get", "pods", "slices", "check", "call", "track", "ok", "error"},
     service : Service, owner : 1..MaxIncarnation, want : 1..MaxVersion,
     listed : Stored,
     create : BOOLEAN, updates : SUBSET SliceId, deletes : SUBSET SliceId,
     reply : [uid : SliceId, generation : Nat \cup {deletionExpected}]]

\* The queue has no service twice, and has none that is being processed; the
\* services being processed are those of the busy workers.
QueueOK ==
    /\ \A i \in DOMAIN queue : queue[i] \in dirty /\ queue[i] \notin processing
    /\ \A i, j \in DOMAIN queue : queue[i] = queue[j] => i = j
    /\ processing = {work[w].service : w \in {v \in Worker : Busy(v)}}

TypeOK ==
    /\ alive \in [Service -> BOOLEAN]
    /\ incarnation \in [Service -> 1..MaxIncarnation]
    /\ \A s \in Service : ~alive[s] => incarnation[s] < MaxIncarnation
    /\ want \in [Service -> 1..MaxVersion]
    /\ slices \in Stored /\ cache \in Stored
    /\ used \in 0..MaxSlices
    /\ watch \in Seq(Events) /\ notes \in Seq(Events)
    /\ tracker \in [Service -> [SliceId -> Nat \cup {deletionExpected}]]
    /\ queue \in Seq(Service) /\ dirty \subseteq Service /\ delayed \subseteq Service
    /\ processing \subseteq Service
    /\ requeues \in [Service -> 0..maxRetries]
    /\ work \in [Worker -> Job]
    /\ mishaps \in [Mishaps -> Nat]
    /\ QueueOK

\* No two workers process the same service at the same time (the comment on
\* worker relies on the work queue for it).
OneWorkerPerService ==
    \A v, w \in Worker :
        Busy(v) /\ Busy(w) /\ work[v].service = work[w].service => v = w

Owned(s) == {u \in Of(s, slices) : slices[u].owner = incarnation[s]}

\* However far the informer lags behind, a service never gets a second slice
\* while it has one: what the tracker is for (StaleSlices).  It knows of no
\* write whose reply was lost, and of none of an earlier process.
NoDuplicates ==
    mishaps["lost"] = 0 /\ mishaps["failover"] = 0
    => \A s \in Service : Cardinality(Owned(s)) <= 1

\* A slice that this process has written: one it has tracked, and any as long
\* as there was no other process.
Ours(u) == mishaps["failover"] = 0 \/ tracker[slices[u].service][u] # Untracked

\* A slice never goes back to an earlier state of the pods than the process that
\* changes it has written there: that would take a sync that read the pods
\* before and writes after another one.  Only a process that takes over may know
\* less than the one before, and only until it has written the slice itself.
NeverBack ==
    [][\A u \in SliceId :
          slices[u] # NoSlice /\ slices'[u] # NoSlice /\ Ours(u)
          => slices'[u].content >= slices[u].content]_vars

\* A sync only fails for a stale cache if the cache is stale: not when it
\* listed what the API server has and no change is on its way (the comment
\* on StaleInformerCache).
StaleOnlyIfBehind ==
    [][\A w \in Worker :
          At(w, "check") /\ work'[w].pc = "error"
          /\ work[w].listed = List(work[w].service, slices)
          => watch # << >> \/ notes # << >>]_vars

\* A sync that succeeds leaves its service with a slice that has what the pods
\* were at its start, unless there is another service of that name by now (the
\* comment on reconcile; not with removals by others).
SyncPublishes ==
    [][\A w \in Worker :
          At(w, "call") /\ work'[w].pc = "ok" /\ work[w].owner = incarnation[work[w].service]
          => \E u \in Owned(work[w].service) : slices[u].content = work[w].want]_vars

\* What is left of it when nothing else interferes: no reply was lost, no process
\* was taken over and nothing removed by others, and the service still exists.
\* Then a slice that was kept, or updated, is not deleted by a later call.
ReliablyPublished ==
    [][mishaps["lost"] = 0 /\ mishaps["failover"] = 0 /\ mishaps["removed"] = 0
       => \A w \in Worker :
            LET s == work[w].service
            IN  /\ At(w, "call") /\ work'[w].pc = "ok"
                /\ alive[s] /\ work[w].owner = incarnation[s]
                => \E u \in Owned(s) : slices[u].content = work[w].want]_vars

\* Once services and pods stop changing every service has one slice, its own,
\* with what its pod is in the lister; in spite of calls that fail, replies that get lost
\* and retries that are given up.
Converges ==
    <>[](\A s \in Service : alive[s] =>
            /\ Owned(s) = Of(s, slices)
            /\ Cardinality(Owned(s)) = 1
            /\ \A u \in Owned(s) : slices[u].content = want[s])
=============================================================================
