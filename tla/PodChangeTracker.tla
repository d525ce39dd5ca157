-------------------------- MODULE PodChangeTracker --------------------------
(***************************************************************************)
(* The pod tracker of multus-proxy (pkg/proxy/controllers/pod.go).  It     *)
(* works like the service tracker, except that a pod is not described by   *)
(* its object alone: the path of its network namespace is asked of the     *)
(* container runtime while the event is handled, once for the old object   *)
(* and once for the new one, and each call may fail.                       *)
(*                                                                         *)
(* The map podToPodMap returns has the pod as its only key and is          *)
(* represented by its PodInfo.  The path /proc/<pid>/ns/net is represented *)
(* by the container whose process it is.  Pods of other nodes never reach  *)
(* the tracker: its informer selects by spec.nodeName.                     *)
(***************************************************************************)
CONSTANTS
    Pod,           \* namespaced names
    Container,     \* container IDs
    Interfaces,    \* contents of the network-status annotation
    PodObject,     \* the objects of each pod
    NoContainer,   \* no container status, or one without a container ID
    NoInterfaces,  \* what is read of a pod that is no target
    ExitedPath,    \* /proc/0/ns/net, the path of a container that has exited
    NoPath,        \* "", after a call that failed
    NoPod,         \* nil for an object
    NoInfo,        \* the nil PodMap, or no entry
    NoChange       \* the tracker holds no item for a pod

VARIABLES
    running,   \* the containers whose process runs
    seen,      \* the object of each pod the last callback was about
    items,     \* PodChangeTracker.items
    podMap,    \* Server.podMap
    doubtful   \* pods described incompletely since their entry was written (a history)

vars == <<running, seen, items, podMap, doubtful>>
-----------------------------------------------------------------------------
\* What the tracker reads of a pod; target: running, and not on the host network.
PodFields ==
    [target : BOOLEAN, container : Container \cup {NoContainer}, status : Interfaces]

NetNSPath == Container \cup {ExitedPath, NoPath}

PodInfo == [NetNSPath : NetNSPath, Interfaces : Interfaces \cup {NoInterfaces}]

Change == [previous : PodInfo \cup {NoInfo}, current : PodInfo \cup {NoInfo}]

ASSUME ObjectsAssumption ==
    PodObject \in [Pod -> SUBSET PodFields]

ASSUME AbsentAssumption ==
    /\ NoContainer \notin Container
    /\ ExitedPath \notin Container /\ NoPath \notin Container
    /\ ExitedPath # NoPath
    /\ NoInterfaces \notin Interfaces
    /\ NoPod \notin PodFields
    /\ NoInfo \notin PodInfo
    /\ NoChange \notin Change

\* getPodNetNSPath: the possible answers while the processes of "alive" run.
\* Without a container ID there is no call; a process that is gone has pid 0.
\* A pod's status has the ID of a container from when the kubelet has started
\* it, so that none is asked for before its process runs.
Answers(container, alive) ==
    IF container = NoContainer
    THEN {NoPath}
    ELSE {NoPath, IF container \in alive THEN container ELSE ExitedPath}

\* newPodInfo and podToPodMap, with the answer of the runtime.
Describe(pod, path) ==
    IF pod = NoPod
    THEN NoInfo
    ELSE IF pod.target
         THEN [NetNSPath |-> path, Interfaces |-> pod.status]
         ELSE [NetNSPath |-> NoPath, Interfaces |-> NoInterfaces]

\* What podToPodMap may make of an object now.
Descriptions(pod, alive) ==
    IF pod = NoPod THEN {NoInfo}
    ELSE {Describe(pod, path) : path \in Answers(pod.container, alive)}
-----------------------------------------------------------------------------
Init ==
    /\ running = Container
    /\ seen = [p \in Pod |-> NoPod]
    /\ items = [p \in Pod |-> NoChange]
    /\ podMap = [p \in Pod |-> NoInfo]
    /\ doubtful = {}

\* A description a target gets when no container is there or no answer comes.
Incomplete(info) == info # NoInfo /\ info.NetNSPath = NoPath /\ info.Interfaces # NoInterfaces

\* Faulty variant: a difference that cancels out stays.
KeepAll(p, prev, cur) ==
    items' = [items EXCEPT ![p] = [previous |-> prev, current |-> cur]]

\* The item of p after a change from "prev" to "cur": none if they are equal.
Keep(p, prev, cur) ==
    items' = [items EXCEPT ![p] =
                IF prev = cur THEN NoChange ELSE [previous |-> prev, current |-> cur]]

\* Faulty variant: the old object is described again at every event.
PreviousAlwaysNew(p, previous) == Descriptions(previous, running)

\* change.previous: the old object is described by the first event after the
\* last apply only.
Previous(p, previous) ==
    IF items[p] = NoChange THEN Descriptions(previous, running) ELSE {items[p].previous}

\* PodChangeTracker.Update, under the tracker's lock.  The new object is always
\* described, by a second call: processes may be gone by then.
Update(p, previous, current) ==
    \E gone \in SUBSET running, prev \in Previous(p, previous) :
        /\ running' = running \ gone
        /\ \E cur \in Descriptions(current, running') :
             /\ Keep(p, prev, cur)
             /\ doubtful' = IF Incomplete(prev) \/ Incomplete(cur) THEN doubtful \cup {p}
                            ELSE doubtful

\* OnPodAdd, OnPodUpdate (also a periodic resync, whose two objects are the
\* same, and a relist that hides a deletion) and OnPodDelete (also from a
\* tombstone): the informer hands over the object of its previous callback.
OnPodAdd(p) ==
    \E pod \in PodObject[p] :
        /\ seen[p] = NoPod
        /\ seen' = [seen EXCEPT ![p] = pod]
        /\ Update(p, NoPod, pod)
        /\ UNCHANGED podMap

OnPodUpdate(p) ==
    \E pod \in PodObject[p] :
        /\ seen[p] # NoPod
        /\ seen' = [seen EXCEPT ![p] = pod]
        /\ Update(p, seen[p], pod)
        /\ UNCHANGED podMap

OnPodDelete(p) ==
    /\ seen[p] # NoPod
    /\ seen' = [seen EXCEPT ![p] = NoPod]
    /\ Update(p, seen[p], NoPod)
    /\ UNCHANGED podMap

\* PodMap.apply: unmerge every previous, merge every current, clear the items.
\* Faulty variant: nothing is unmerged.
AppliedWithoutUnmerge(p) ==
    IF items[p] = NoChange \/ items[p].current = NoInfo THEN podMap[p]
    ELSE items[p].current

Applied(p) ==
    IF items[p] = NoChange THEN podMap[p]
    ELSE IF items[p].current # NoInfo THEN items[p].current
    ELSE IF items[p].previous # NoInfo THEN NoInfo
    ELSE podMap[p]

Apply ==
    /\ podMap' = [p \in Pod |-> Applied(p)]
    /\ items' = [p \in Pod |-> NoChange]
    /\ doubtful' = {p \in doubtful : items[p] = NoChange \/ Incomplete(items[p].current)}
    /\ UNCHANGED <<running, seen>>

\* The process of a container ends; a restarted container has a new ID.
Exit(c) ==
    /\ c \in running
    /\ running' = running \ {c}
    /\ UNCHANGED <<seen, items, podMap, doubtful>>

Next ==
    \/ \E p \in Pod : OnPodAdd(p) \/ OnPodUpdate(p) \/ OnPodDelete(p)
    \/ Apply
    \/ \E c \in Container : Exit(c)

Spec == Init /\ [][Next]_vars
-----------------------------------------------------------------------------
\* Types of the variables; no item is kept for a pod that did not change.
TypeOK ==
    /\ running \subseteq Container
    /\ \A p \in Pod : seen[p] = NoPod \/ seen[p] \in PodObject[p]
    /\ DOMAIN seen = Pod
    /\ items \in [Pod -> Change \cup {NoChange}]
    /\ \A p \in Pod : items[p] # NoChange => items[p].previous # items[p].current
    /\ podMap \in [Pod -> PodInfo \cup {NoInfo}]
    /\ doubtful \subseteq Pod

\* As long as the runtime answers, a pod whose container runs is entered by the
\* path of that container, however its containers were restarted before and
\* whatever events fell together (pod.go:329, pod.go:405): the path the proxy
\* enters is that of the pod's processes, not of the ones before.
PathFollowsContainer ==
    \A p \in Pod \ doubtful :
        seen[p] # NoPod /\ seen[p].target /\ seen[p].container \in running =>
            /\ Applied(p) # NoInfo
            /\ Applied(p).NetNSPath = seen[p].container

\* What a map entry says about a pod apart from the path.
Shown(info) == IF info = NoInfo THEN NoInfo ELSE info.Interfaces

\* Apart from the path the tracker implements the abstract view, whatever the
\* runtime answers, or fails to answer, while events are handled: no pod is
\* lost or kept for ever, and its interfaces are those of its last object.
View == INSTANCE SyncedView WITH
    Key <- Pod,
    Nothing <- NoInfo,
    observed <- [p \in Pod |-> Shown(Describe(seen[p], NoPath))],
    table <- [p \in Pod |-> Shown(podMap[p])]

\* Every event is one observation and every apply publishes every pod.
ImplementsView == View!ViewSpec
=============================================================================
