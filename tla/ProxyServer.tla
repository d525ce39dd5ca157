----------------------------- MODULE ProxyServer -----------------------------
(***************************************************************************)
(* multus-proxy as a whole (pkg/proxy/server/server.go): three informers,  *)
(* the callbacks that open the sync gate, the sync runner and Run, which   *)
(* all call syncServiceForwarding, and the mutex that makes them take      *)
(* turns.                                                                  *)
(*                                                                         *)
(* The caches are used through what SyncedView promises of them: handlers  *)
(* move what is observed, a sync publishes it.  A namespace is used        *)
(* through what NatTable promises of it: one sync of it installs exactly   *)
(* what the published maps say, or fails and leaves what there is.         *)
(* Objects either exist or not, and of an update of a Service it is only   *)
(* kept that it is pending; the rules of a pod are the Services and        *)
(* EndpointSlices they were made from.  All pods are targets with a second *)
(* interface, and do not come back under the name of a deleted one.        *)
(***************************************************************************)
EXTENDS Integers

CONSTANTS
    Pod, Service, Slice,   \* the objects: pods of this node, and so on
    ServiceOf,             \* [Slice -> Service]
    Unreachable,           \* pods whose network namespace can never be entered
    Later,                 \* objects that need not exist at first
    Changing,              \* bound: the objects that are created, updated and deleted
    NoThread,              \* nobody holds the mutex
    MaxChanges,            \* bound on objects created, updated and deleted
    MaxMishaps             \* bound on signals, crashes and failed visits

Object == Pod \cup Service \cup Slice

ASSUME ObjectsAssumption ==
    /\ Pod \cap Service = {} /\ Pod \cap Slice = {} /\ Service \cap Slice = {}
    /\ ServiceOf \in [Slice -> Service]
    /\ Unreachable \subseteq Pod /\ Later \subseteq Object
    /\ Changing \subseteq Object
ASSUME BoundsAssumption == MaxChanges \in Nat /\ MaxMishaps \in Nat

Kind == {"pods", "services", "slices"}

\* The goroutines: one per informer, named after its kind; the three of the
\* configs' Run, which are alike and counted together; the sync runner; and the
\* one Server.Run is on.
Config == "config"
Runner == "runner"
Main   == "main"
Thread == Kind \cup {Config, Runner, Main}

ASSUME NoThreadAssumption == NoThread \notin Thread

VARIABLES
    api,        \* the objects in the API server
    removed,    \* those that have ever been deleted (a history)
    store,      \* the indexers of the three informers
    listed,     \* the informers that have synced (HasSynced)
    podList,    \* the indexer behind s.podLister, a fourth informer
    observed,   \* what the handlers told the trackers and the cache
    updated,    \* applied Services with a pending item that was an update
    synced,     \* s.podSynced, s.serviceSynced, s.endpointsSynced
    applied,    \* s.podMap, s.serviceMap, s.endpointsMap as published
    nilMap,     \* Run has set s.serviceMap to nil
    mu,         \* who holds s.mu
    due,        \* thread -> the calls of syncServiceForwarding it still has to make
    stage,      \* where the sync is that holds s.mu
    toVisit,    \* pods the sync has yet to look at
    missed,     \* pods the sync could not enter, or program
    pc,         \* where Run is
    mine,       \* the pods this process has programmed
    rules,      \* pod -> what its rules were made from; they outlive the process
    changes,    \* objects created, updated and deleted so far
    mishaps     \* signals, crashes and failed visits so far

informers == <<store, listed, podList, observed, updated>>
maps      == <<applied, nilMap>>
sync      == <<mu, stage, toVisit, missed>>
bounds    == <<changes, mishaps>>
vars == <<api, removed, informers, synced, maps, sync, due, pc, mine, rules, bounds>>

Of(k) == CASE k = "pods" -> Pod [] k = "services" -> Service [] k = "slices" -> Slice

Up == pc \in {"running", "signalled", "sent", "cleaning"}
-----------------------------------------------------------------------------
ProcessInit ==
    /\ store = {} /\ listed = {} /\ podList = {} /\ observed = {} /\ updated = {}
    /\ synced = {} /\ applied = {} /\ nilMap = FALSE
    /\ mu = NoThread /\ stage = "none" /\ toVisit = {} /\ missed = {}
    /\ due = [t \in Thread |-> 0]
    /\ mine = {}

\* What the rules of a pod should be made from.
Wanted == {o \in api : o \in Service \/ (o \in Slice /\ ServiceOf[o] \in api)}

\* The process starts on a node where none ran before, or after one that did.
Init ==
    /\ \E missing \in SUBSET Later : api = Object \ missing
    /\ removed = {}
    /\ ProcessInit
    /\ pc = "running"
    /\ \E old \in {{}, Pod \ Unreachable} :
         rules = [p \in Pod |-> IF p \in old THEN Wanted ELSE {}]
    /\ changes = 0 /\ mishaps = 0

\* A user or a controller creates or deletes an object.  With a pod goes its
\* network namespace and what is installed in it.
Create(o) ==
    /\ changes < MaxChanges
    /\ o \notin api /\ ~(o \in Pod /\ o \in removed)
    /\ api' = api \cup {o}
    /\ changes' = changes + 1
    /\ UNCHANGED <<removed, informers, synced, maps, sync, due, pc, mine, rules, mishaps>>

Delete(o) ==
    /\ changes < MaxChanges
    /\ o \in api
    /\ api' = api \ {o}
    /\ removed' = removed \cup {o}
    /\ rules' = [p \in Pod |-> IF p = o THEN {} ELSE rules[p]]
    /\ changes' = changes + 1
    /\ UNCHANGED <<informers, synced, maps, sync, due, pc, mine, mishaps>>

\* The reflector of an informer lists, or catches up with the watch.  Its
\* handlers run later, on a goroutine of their own.
Reflect(k) ==
    /\ Up
    /\ k \notin listed \/ store \cap Of(k) # api \cap Of(k)
    /\ store' = (store \ Of(k)) \cup (api \cap Of(k))
    /\ listed' = listed \cup {k}
    /\ UNCHANGED <<api, removed, podList, observed, updated, synced, maps, sync, due, pc, mine,
                   rules, bounds>>

\* The informer of all nodes' pods, whose first list nobody waits for.
ReflectPodList ==
    /\ Up
    /\ podList # api \cap Pod
    /\ podList' = api \cap Pod
    /\ UNCHANGED <<api, removed, store, listed, observed, updated, synced, maps, sync, due, pc,
                   mine, rules, bounds>>

\* OnPodAdd, OnPodDelete and their siblings: tell the tracker, under its own
\* lock, then sync; the two handlers of pods sync twice.
Handle(k) ==
    /\ Up
    /\ due[k] = 0
    /\ \E o \in Of(k) :
         /\ o \in store <=> o \notin observed
         /\ observed' = IF o \in store THEN observed \cup {o} ELSE observed \ {o}
    /\ due' = [due EXCEPT ![k] = IF k = "pods" THEN 2 ELSE 1]
    /\ UNCHANGED <<api, removed, store, listed, podList, updated, synced, maps, sync, pc, mine,
                   rules, bounds>>

\* A Service that is known is updated.  What the map shows of it becomes
\* something else, or what it was; the API server and the informer are part of
\* the step, for nothing depends on when they are.
HandleUpdate(s) ==
    /\ Up
    /\ changes < MaxChanges
    /\ due["services"] = 0
    /\ s \in api \cap store \cap observed
    /\ updated' \in {updated \cup {s}, updated \ {s}}
    /\ due' = [due EXCEPT !["services"] = 1]
    /\ changes' = changes + 1
    /\ UNCHANGED <<api, removed, store, listed, podList, observed, synced, maps, sync, pc,
                   mine, rules, mishaps>>

\* Faulty variant: nobody waits for HasSynced.
WaitedForNothing(k) == k \notin synced

\* The configs' Run: the wait for HasSynced is over.  That the handlers have run
\* as well is not waited for.
WaitedFor(k) == k \in listed \ synced

\* Faulty variant: OnEndpointSliceSynced forgets its flag.
OnSyncedFlagless(k) ==
    /\ Up
    /\ WaitedFor(k) /\ k # "slices"
    /\ mu = NoThread
    /\ synced' = synced \cup {k}
    /\ due' = [due EXCEPT ![Config] = @ + 1]
    /\ UNCHANGED <<api, removed, informers, maps, sync, pc, mine, rules, bounds>>

\* OnPodSynced, OnServiceSynced and OnEndpointSliceSynced: set the flag under
\* the mutex, then sync.
OnSynced(k) ==
    /\ Up
    /\ WaitedFor(k)
    /\ mu = NoThread
    /\ synced' = synced \cup {k}
    /\ due' = [due EXCEPT ![Config] = @ + 1]
    /\ UNCHANGED <<api, removed, informers, maps, sync, pc, mine, rules, bounds>>

\* The timer of the sync runner: 30 seconds after its last run.
Tick ==
    /\ pc \in {"running", "signalled"}
    /\ due[Runner] = 0
    /\ due' = [due EXCEPT ![Runner] = 1]
    /\ UNCHANGED <<api, removed, informers, synced, maps, sync, pc, mine, rules, bounds>>
-----------------------------------------------------------------------------
\* Faulty variant: a flag that is set opens the gate.
GateOpenOnce == synced # {}

\* server.go:451.
GateOpen == synced = Kind

\* syncServiceForwarding, step by step.  The gate is closed: lock, return.
ReturnAtGate(t) ==
    /\ Up /\ due[t] > 0 /\ mu = NoThread
    /\ ~GateOpen
    /\ due' = [due EXCEPT ![t] = @ - 1]
    /\ pc' = IF t = Main THEN "stopped" ELSE pc
    /\ UNCHANGED <<api, removed, informers, synced, maps, sync, mine, rules, bounds>>

Lock(t) ==
    /\ Up /\ due[t] > 0 /\ mu = NoThread
    /\ GateOpen
    /\ mu' = t
    /\ stage' = "pods"
    /\ UNCHANGED <<api, removed, informers, synced, maps, toVisit, missed, due, pc, mine,
                   rules, bounds>>

Publish(k) ==
    /\ stage = k
    /\ applied' = (applied \ Of(k)) \cup (observed \cap Of(k))

PublishPods ==
    /\ Up /\ Publish("pods")
    /\ stage' = "services"
    /\ UNCHANGED <<api, removed, informers, synced, nilMap, mu, toVisit, missed, due, pc,
                   mine, rules, bounds>>

\* A pending Service, new or updated, would be merged into the nil map.
PendingService == \E s \in Service \cap observed : s \notin applied \/ s \in updated

PublishServices ==
    /\ Up /\ Publish("services")
    /\ ~(nilMap /\ PendingService)
    /\ updated' = {}
    /\ stage' = "slices"
    /\ UNCHANGED <<api, removed, store, listed, podList, observed, synced, nilMap, mu, toVisit,
                   missed, due, pc, mine, rules, bounds>>

\* The last map, and the list of the pods.
PublishSlices ==
    /\ Up /\ Publish("slices")
    /\ stage' = "program"
    /\ toVisit' = podList /\ missed' = {}
    /\ UNCHANGED <<api, removed, informers, synced, nilMap, mu, due, pc, mine, rules, bounds>>

\* What the published maps make of a namespace: the rules of a Service need the
\* Service, and with a nil map there are none.
Programmed ==
    IF nilMap THEN {}
    ELSE {o \in applied : o \in Service \/ (o \in Slice /\ ServiceOf[o] \in applied)}

\* A pod of the list has a PodInfo, and a namespace that can be entered.
Reachable(p) == p \in applied /\ p \in api /\ p \notin Unreachable

Visit(p) ==
    /\ Up /\ stage = "program" /\ p \in toVisit
    /\ toVisit' = toVisit \ {p}
    /\ UNCHANGED <<api, removed, informers, synced, maps, mu, stage, due, pc, changes>>

\* It gets its rules; any other is skipped.
Program(p) ==
    /\ Visit(p) /\ Reachable(p)
    /\ rules' = [rules EXCEPT ![p] = Programmed]
    /\ mine' = mine \cup {p}
    /\ UNCHANGED <<missed, mishaps>>

Skip(p) ==
    /\ Visit(p) /\ ~Reachable(p)
    /\ UNCHANGED <<missed, mishaps, rules, mine>>

\* The namespace cannot be entered this time, or iptables fails: the error is
\* logged and the loop goes on.
ProgramFails(p) ==
    /\ Visit(p) /\ Reachable(p)
    /\ mishaps < MaxMishaps
    /\ mishaps' = mishaps + 1
    /\ missed' = missed \cup {p}
    /\ UNCHANGED <<rules, mine>>

Unlock ==
    /\ Up /\ stage = "program" /\ toVisit = {}
    /\ stage' = "none"
    /\ mu' = NoThread
    /\ due' = [due EXCEPT ![mu] = @ - 1]
    /\ pc' = IF mu = Main THEN "stopped" ELSE pc
    /\ UNCHANGED <<api, removed, informers, synced, maps, toVisit, missed, mine, rules,
                   bounds>>
-----------------------------------------------------------------------------
\* A signal: Options.Stop hands it over to Run.
Signal ==
    /\ pc = "running"
    /\ mishaps < MaxMishaps
    /\ pc' = "signalled"
    /\ mishaps' = mishaps + 1
    /\ UNCHANGED <<api, removed, informers, synced, maps, sync, due, mine, rules, changes>>

\* Run stops the sync runner, which receives only between two of its syncs.
StopRunner ==
    /\ pc = "signalled"
    /\ due[Runner] = 0
    /\ pc' = "sent"
    /\ UNCHANGED <<api, removed, informers, synced, maps, sync, due, mine, rules, bounds>>

\* Faulty variant: the map is not cleared before the last sync.
KeepServices ==
    /\ pc = "sent"
    /\ pc' = "cleaning"
    /\ due' = [due EXCEPT ![Main] = 1]
    /\ UNCHANGED <<api, removed, informers, synced, maps, sync, mine, rules, bounds>>

\* s.serviceMap = nil, without the mutex; then one more sync, after which
\* Unlock, or ReturnAtGate, ends the process.
ClearServices ==
    /\ pc = "sent"
    /\ pc' = "cleaning"
    /\ nilMap' = TRUE
    /\ due' = [due EXCEPT ![Main] = 1]
    /\ UNCHANGED <<api, removed, informers, synced, applied, sync, mine, rules, bounds>>

ProcessGone ==
    /\ store' = {} /\ listed' = {} /\ podList' = {} /\ observed' = {} /\ updated' = {}
    /\ synced' = {} /\ applied' = {} /\ nilMap' = FALSE
    /\ mu' = NoThread /\ stage' = "none" /\ toVisit' = {} /\ missed' = {}
    /\ due' = [t \in Thread |-> 0]
    /\ mine' = {}

\* "assignment to entry in nil map": the whole process ends at once.
Panic ==
    /\ Up /\ stage = "services" /\ nilMap /\ PendingService
    /\ pc' = "down"
    /\ ProcessGone
    /\ UNCHANGED <<api, removed, rules, bounds>>

Crash ==
    /\ Up
    /\ mishaps < MaxMishaps
    /\ pc' = "down"
    /\ mishaps' = mishaps + 1
    /\ ProcessGone
    /\ UNCHANGED <<api, removed, rules, changes>>

\* The DaemonSet starts the process again.
Start ==
    /\ pc \in {"down", "stopped"}
    /\ pc' = "running"
    /\ ProcessGone
    /\ UNCHANGED <<api, removed, rules, bounds>>

Next ==
    \/ \E o \in Changing : Create(o) \/ Delete(o)
    \/ \E s \in Service \cap Changing : HandleUpdate(s)
    \/ \E k \in Kind : Reflect(k) \/ Handle(k) \/ OnSynced(k)
    \/ ReflectPodList
    \/ Tick
    \/ \E t \in Thread : ReturnAtGate(t) \/ Lock(t)
    \/ PublishPods \/ PublishServices \/ PublishSlices
    \/ \E p \in Pod : Program(p) \/ Skip(p) \/ ProgramFails(p)
    \/ Unlock
    \/ Signal \/ StopRunner \/ ClearServices
    \/ Panic \/ Crash \/ Start

Spec == Init /\ [][Next]_vars

(***************************************************************************)
(* Informers deliver, a sync that holds the mutex ends, Run goes on and    *)
(* the DaemonSet restarts: each of these steps happens finitely often, so  *)
(* fairness of all of them together is enough.  Go hands a mutex to        *)
(* whoever has waited for long (its starvation mode), and the runner is    *)
(* between two syncs for 30 seconds: those who wait for the mutex or the   *)
(* runner do not wait for ever.                                            *)
(***************************************************************************)
Acquire(t) == ReturnAtGate(t) \/ Lock(t)

Progress ==
    \/ \E k \in Kind : Reflect(k) \/ Handle(k)
    \/ ReflectPodList
    \/ ClearServices \/ Start

RunnerTurn == Tick \/ Acquire(Runner)

SyncBody ==
    \/ PublishPods \/ PublishServices \/ PublishSlices \/ Panic
    \/ \E p \in Pod : Program(p) \/ Skip(p)
    \/ Unlock

Waiting ==
    \/ \E t \in Thread \ {Runner} : Acquire(t)
    \/ \E k \in Kind : OnSynced(k)
    \/ StopRunner

Fairness ==
    /\ WF_vars(Progress) /\ WF_vars(RunnerTurn) /\ WF_vars(SyncBody)
    /\ SF_vars(Waiting)

FairSpec == Spec /\ Fairness
-----------------------------------------------------------------------------
\* Types of the variables; who syncs owes a sync, and nothing is seen before it
\* is listed.
TypeOK ==
    /\ api \subseteq Object /\ removed \subseteq Object
    /\ store \subseteq Object /\ listed \subseteq Kind /\ podList \subseteq Pod
    /\ observed \subseteq Object /\ applied \subseteq Object /\ updated \subseteq Service
    /\ synced \subseteq listed /\ nilMap \in BOOLEAN
    /\ mu \in Thread \cup {NoThread}
    /\ stage \in Kind \cup {"none", "program"}
    /\ stage = "none" <=> mu = NoThread
    /\ toVisit \subseteq Pod /\ missed \subseteq Pod
    /\ due \in [Thread -> Nat]
    /\ mu # NoThread => due[mu] > 0
    /\ pc \in {"running", "signalled", "sent", "cleaning", "stopped", "down"}
    /\ mine \subseteq Pod
    /\ rules \in [Pod -> SUBSET (Service \cup Slice)]
    /\ changes \in 0..MaxChanges /\ mishaps \in 0..MaxMishaps

\* A Service that was never deleted, or an EndpointSlice of such a Service that
\* was not either.
Lasting ==
    {o \in (Service \cup Slice) \ removed : o \in Slice => ServiceOf[o] \notin removed}

\* The lasting objects whose rules a step takes away from p.
TakenAway(p) == (rules[p] \cap Lasting') \ rules'[p]

\* What a rule made from o is made from.
Sources(o) == {o} \cup {ServiceOf[e] : e \in Slice \cap {o}}

\* No step takes away what a pod's rules have and ought to keep, not even while
\* a restarted process learns what there is: what the comments at the callbacks
\* promise ("once all the initial event handlers were called", pod.go:85).
NoGap ==
    [][~nilMap => \A p \in Pod \cap api' : TakenAway(p) = {}]_vars

\* What the gate of server.go:451 does ensure, which opens when the three
\* informers have listed: a lasting rule is only taken away by the first sync
\* of a process that programs the pod, and only because something the rule is
\* made from is in the indexer of its informer and has not been handed on.
GapOnlyAtStart ==
    [][~nilMap => \A p \in Pod \cap api' : \A o \in TakenAway(p) :
          /\ p \notin mine
          /\ \E x \in Sources(o) : x \in store \ applied]_vars

\* When Run has come to its end with the gate open, no pod this process has
\* programmed is left with rules (server.go:169), but one the last sync failed
\* for.
StopsClean ==
    pc = "stopped" /\ GateOpen => \A p \in (mine \cap api) \ missed : rules[p] = {}

\* Every pod that can be entered comes to have the rules of all that exists and
\* keeps them, whichever informer is late and whatever visit has failed; and a
\* stop ends, after which the process runs again: no sync, informer or runner
\* holds it up for ever.
RulesFollow ==
    <>[](/\ pc = "running"
         /\ \A p \in (Pod \cap api) \ Unreachable : rules[p] = Wanted)
=============================================================================
