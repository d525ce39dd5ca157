# multus-service in TLA+

Two programs give pods with secondary (Multus) networks a Service abstraction:

* **multus-service-controller** watches Services, Pods and Nodes and writes
  EndpointSlices that hold the secondary-network addresses of the pods a
  Service selects;
* **multus-proxy**, one per node, watches Services, Pods and EndpointSlices and
  programs NAT rules and routes into the network namespaces of the node's pods.

This directory holds TLA+ models of both, the TLC configurations that check
them, and TLAPS proofs. Paths are relative to `src/`. `PROJECT.json` lists the
components, the runs, the mutants, the source lines of every definition, the
hazards and the theorems.

    tlc -workers 2 -config MCNatTable.cfg MCNatTable.tla
    tlapm NatTableProofs.tla

## 1. Inventory

### multus-service-controller

| part | state | operations | correct when |
|---|---|---|---|
| controller (`pkg/service-controller/endpointslice_controller.go`) | work queue, workers, service selector cache | handlers of Service, Pod and EndpointSlice events; `processNextWorkItem`, `syncService`, `handleErr` | a service is processed by one worker at a time; changes are never lost; slices converge to what the pods are |
| tracker (`endpointslice_tracker.go`) | generation (or "deletion expected") of each slice the controller wrote, under a lock | `ShouldSync`, `StaleSlices`, `Update`, `DeleteService`, `ExpectDeletion`, `HandleDeletion` | a sync never acts on a cache older than the controller's own writes, and none is held back by a cache that is not |
| reconciler (`reconciler.go`, `endpointset.go`) | none between rounds | `reconcile`, `reconcileByAddressType`, `reconcileByPortMapping`, `finalize` | each wanted endpoint is in exactly one slice of at most `maxEndpointsPerSlice`; a round that fails halfway is repaired by the next; no endpoint disappears on the way |
| endpoint construction (`utils.go`) | none | `podToEndpoint`, `getEndpointPorts`, `newEndpointSlice`, `setEndpointSliceLabels`, `getSliceToFill`, ... | translation of API objects |
| metrics cache (`vendor/k8s.io/kubernetes/pkg/controller/endpointslice/metrics/`, as `reconciler.go` uses it; `pkg/service-controller/metrics/` is a copy that nothing imports) | endpoints and slices per service and port list, under a lock | `UpdateServicePortCache`, `DeleteService` | counters agree with the slices |
| process (`cmd/multus-service-controller/`) | the lease | `Run`: informers start at once, workers when the lease is held | a new leader takes over from any state of the old one |

### multus-proxy

| part | state | operations | correct when |
|---|---|---|---|
| service tracker (`pkg/proxy/controllers/service.go`) | pending changes per service, under a lock; the service map | `Update` from callbacks, `ServiceMap.Update` from syncs | the map becomes what the last events said, however many were coalesced |
| EndpointSlice cache (`pkg/proxy/controllers/endpointslice.go`) | applied and pending slices per service, under a lock; the endpoints map | `EndpointSliceUpdate`, `checkoutChanges`, `EndpointsMap.Update` | the same, for endpoints |
| pod tracker (`pkg/proxy/controllers/pod.go`) | pending changes per pod; the pod map | `Update`, which asks the container runtime for the path of the network namespace, for the old object and for the new one; `PodMap.Update` | each pod is known with its interfaces and with the namespace of the container that runs now |
| server (`pkg/proxy/server/server.go`) | the three maps under one lock, three "synced" flags, the runner that syncs every 30 s, the pod list of a fourth informer | informer callbacks, `syncServiceForwarding`, `Run` | nothing is programmed from maps that are still being filled; every pod that can be entered comes to be programmed; a stop ends, and cleans up |
| NAT table and routes (`pkg/proxy/server/iptables.go`) | the kernel's table and routes, which outlive the process | `CreateNATChain`, `FinalizeRules`, `SaveInto`, restore, route loops | wanted rules and no others; no interruption of what does not change; a stop cleans up |
| process (`cmd/multus-proxy/main.go`, `options.go`, `utils/node.go`) | stop channel | start, signal handling, `Options.Stop` | stops cleanly on the first signal |

Interaction: the two programs share only the API server. Inside the controller,
informer handlers and workers share the queue, the listers and the tracker.
Inside the proxy each informer's callback first adds to its cache (the cache's
own lock) and then calls the sync (the server's lock), which applies the
pending changes of all three caches and programs one pod after the other. The
pods it visits are listed by a fourth informer.

### What is hard

* **Lag.** The controller reads its own writes through an informer that lags
  behind, and it learns of the reply to a write after, or before, the informer
  has delivered its event. The tracker is there for that.
* **Coalescing.** The proxy keeps differences, not states. Any number of events
  falls between two syncs, and "previous" must be what is in the map.
* **Learning at the start.** Three informers fill three maps in any order. A sync
  from maps that are not full yet takes away what the process before has left
  installed, and rightly so.
* **Asking twice.** A pod is described by what the container runtime answers at
  the moment of an event, which need not be what it answers a moment later.
* **Memory in the kernel.** The proxy recomputes the rules from nothing, but
  decides about routes by which chains come and go.
* **Partial failure.** A round of API calls may end after any of them; so may a
  sync between the restore and the routes.
* **Crashes and takeover.** Both programs restart with nothing in memory and
  find what an earlier process left.

The `hazards` of `PROJECT.json` list these at their lines, with the properties
that would notice, and those no property covers yet.

## 2. Modules

| module | models | extends / instantiates |
|---|---|---|
| `SyncedView` | abstract: what a cache of the proxy promises to the sync | |
| `ServiceChangeTracker` | service tracker and service map | `View == INSTANCE SyncedView` |
| `EndpointSliceCache` | EndpointSlice cache and endpoints map | `View == INSTANCE SyncedView` |
| `PodChangeTracker` | pod tracker, pod map, container runtime | `View == INSTANCE SyncedView` |
| `Reconciler` | a round of reconciliation, call by call, and its counts for the metrics | |
| `SliceController` | queue, workers, tracker, informer, API server, takeover | |
| `NatTable` | rules and routes of one network namespace, stops, crashes | |
| `ProxyServer` | the proxy's goroutines: informers, gate, mutex, loop over the pods, end and restart | |
| `MC...` | constants of the runs that a `.cfg` cannot write | the module after `MC` |
| `...Proofs` | theorems | the module before `Proofs`, `TLAPS` |
| `SliceTrackingProofs` | theorems about what the tracker is for | `SliceControllerProofs` |

In the modules, a definition that a comment calls a *faulty variant* is not part
of the model: it is a plausible bug, kept beside the definition it would
replace, which makes the property it is meant for fail in TLC (`mutants` in
`PROJECT.json`). No property is kept that no such bug can break.

### ServiceChangeTracker

State: `items` is `ServiceChangeTracker.items`; `serviceMap` is the server's map;
`seen` is the object of the informer's last callback, from which its next one
takes the "old" object. Actions: `OnServiceAdd`, `OnServiceUpdate` (also a
periodic resync with two equal objects, and a relist that hides a deletion and
recreation), `OnServiceDelete` (also from a tombstone), and `Apply`, the
service-map part of a sync. A nil map and an empty one differ for `DeepEqual`,
and so they do in the model (`NilMap`).

### EndpointSliceCache

State: `tracker` is `trackerByServiceMap` with `applied` and `pending`;
`endpointsMap` the server's map; `slices` the informer's objects. Only what
reaches the rules is kept of an endpoint: its address, its family and its port
numbers; the port 0 and nil names are kept because the code filters them. Left out:
lists of two ports or more with a nil number in them, at which the code's sort
panics (`byPort.Less`), and slices without a service label, which are passed over.
`Spec` has updates that keep the service label (what the controller does),
`SpecRelabel` any update.

### PodChangeTracker

State: `items`, `podMap` and `seen` as in `ServiceChangeTracker`; `running` are the
containers whose process runs, each of which stands for the path
`/proc/<pid>/ns/net` of its process. `Update` describes the new object always and the
old one only if there is no item yet (`Previous`), each time with one of the
`Answers` of the runtime: the path of the container, `ExitedPath` (`/proc/0/ns/net`)
when it has exited, `NoPath` after a call that failed. Processes end at any time
(`Exit`), also between the two calls of one `Update`; none starts after it was
described, for a pod's status names a container only when the kubelet has started it. `doubtful` is a history
variable: pods that were described without an answer since their entry was written.

The path is what keeps the tracker from implementing `SyncedView` as it stands: two
descriptions of one object differ. The refinement is therefore about the entries
without their path, and the path has a property of its own, `PathFollowsContainer`.

### Reconciler

One service, one address type. `Start` takes any set of pods; then there is one
action per port map (`StartGroup`), per existing slice (`ScanSlice`, step 1), per
filled slice (`FillUpdated`, step 2), per placement (`PlaceInUnchanged`,
`PlaceInNew`, step 3), and one per API call of `finalize`. Where the code ranges
over a Go map, pops any element of a set or takes an unsorted list, the model
chooses. `CallFails` ends the round at any call; it also stands for the create
that is refused because the namespace is terminating, which ends the round
without an error. Between rounds slices are lost, labels
change and the service is recreated, which leaves slices of a foreign owner
(`Mishap`, at most `MaxMishaps` of them). `counts` is the entry
`UpdateServicePortCache` gets, which is written before `finalize` turns creates into
updates and deletes into nothing.

Not modelled: two pods with the same address, the loop over address types, the
deletion of slices of types no longer supported, and the slices' names.

### SliceController

The API server (`slices`, `used`, `watch`), the informer (`cache`; `notes` are
events stored and not yet handled), the tracker, client-go's queue (`queue`,
`dirty`, `processing`, `delayed`, `requeues`), and a program counter per worker.
A sync is cut where others may step in between: the Service (`GetService`,
`ServiceNotFound`), its pods (`ListPods`), its slices (`ListSlices`), the
check for staleness with the plan (`Stale`, `Reconcile`), each API call, and the
tracker's update after each reply (`Track`). Each service has one pod with a
version, so the plan is "keep, update or create one slice, delete the others".
Mishaps: a call that fails, a reply that is lost although the call succeeded, a
slice removed by somebody else, a failover. A relist tells the informer the
outcome of what it missed, in any order.

`want` and `alive` are what the pod and Service listers of the process say. After a
`Failover` the new process' pod lister may be behind the old one's by any number of
states, and catches up (`PodChanged`). Its Service lister and its EndpointSlice cache
are those of the old one, which may lag themselves but no further: `deploy.yml` runs
one replica, whose successor lists anew, and a standby whose Service lister or slice
cache is behind the leader's is left out. An update of a slice that is kept carries a resourceVersion: a
conflict is one of the calls that fail, and the model also lets the call go through;
an update that `finalize` has made from a create is a new object under an old name
(`reconciler.go:252-257`), carries none and is unconditional. Not modelled: slices
managed by other controllers or that change hands (`managedByChanged`), slices
whose service label a user edits (`endpointslice_controller.go:451-458`, which
queues both services; for the proxy see `slice_relabelled`), services without a
selector, the node handlers (they do nothing).

### NatTable

One namespace. `services` are the rules of MULTUS-SERVICES, `svc` the chain of
each service port with the endpoints it jumps to, `sep` the chains of the
endpoints, `routes` the routes to cluster IPs. `Restore` is a sync from the
reading of the table up to and with iptables-restore, which is one transaction;
`DeleteRoute` and `AddRoute` are one call each; `Return` ends the sync. A chain
name is a hash of its port and endpoint, and is represented by them.

Facts of the code that shape it: `LinkByName` that fails leaves the chain
without rules (its line is written already); `RouteAdd` of a route that exists
keeps the old one; obsolete chains alone must cause a restore; `Stop` sets the
service map to nil and syncs once more. `orderly` is a history variable: it is true
as long as a Service that has rules keeps its cluster IP and those ports until the
process has seen it go, no link or route is missed, and no crash comes between a
restore and the last route. Left out: interfaces without an address, for which the
code panics (`status.IPs[0]`, `iptables.go:254`), probabilities, comments, counters, the files written for troubleshooting, the jump from OUTPUT, and the
empty chain MULTUS-SERVICES that stays.

### ProxyServer

Every goroutine that calls `syncServiceForwarding` is a thread with a number of
calls it still has to make (`due`): one per informer (its handlers), the `Run`s of
the three configs, the sync runner, and `Server.Run`. Objects exist or do not, and of
an update only that it is pending is kept; the rules of a pod are the Services and
EndpointSlices they were made from.

| action | code |
|---|---|
| `Reflect(k)`, `ReflectPodList` | an informer's indexer lists or catches up; `HasSynced` is true from then on |
| `Handle(k)` | the handler of one object: the cache's `Update`, then the sync (twice for pods) |
| `HandleUpdate(s)` | the handler of an update of a known Service: an item in the tracker, or none if the update takes another back |
| `OnSynced(k)` | the config's `Run` has waited for `HasSynced` (`WaitedFor`), and for no handler; it sets the flag under the mutex, then syncs |
| `Tick` | the runner's timer |
| `ReturnAtGate`, `Lock`, `PublishPods`, `PublishServices`, `PublishSlices`, `Unlock` | `syncServiceForwarding`: the gate, the three `Update`s, the end |
| `Program(p)`, `Skip(p)`, `ProgramFails(p)` | its loop, one pod after the other: programmed, not reachable, or an error of this visit (the namespace cannot be entered now, iptables fails) |
| `Signal`, `StopRunner`, `ClearServices` | the signal, the hand-over to the runner, `s.serviceMap = nil` without the mutex |
| `Panic` | a pending Service, new or updated, is merged into the nil map: the process is gone, its rules stay |
| `Crash`, `Start` | nothing in memory; the DaemonSet starts the process again |

Each cache is used through what `SyncedView` promises (`Handle` is `Observe`, a
`Publish...` is `Publish`: the three refinements are checked and proved), and a
namespace through what `NatTable` promises: one sync installs exactly what the
maps say (`RulesExact`), or fails and leaves what there is.

`HasSynced` is what client-go makes it: the first list is in the indexer, handlers
may still have to run. So the gate may open on maps that lack what the
informers have listed. The comment at the callbacks says otherwise ("called once all
the initial event handlers were called"): `NoGap` is what would follow from it and
`gate_early` refutes it; `GapOnlyAtStart` is what the code does ensure.

Left out: the container runtime (`PodChangeTracker`), pods that come back under the
name of a deleted one, the host's own namespace, files and events.

## 3. Runs

| run | question | distinct states |
|---|---|---|
| `services` | Is anything lost or invented by coalescing the events of a service? | 18 thousand |
| `slice_cache` | Does the endpoints map become exactly what the slices say? | 62 thousand |
| `slice_relabelled` | the same when a slice's service label is edited: **violated** | |
| `pods` | Is a pod lost, or entered by the path of a container that is gone, when containers restart and the runtime does not answer? | 50 thousand |
| `packing` | How do endpoints fill slices; is any lost, doubled or one too many; do slices change hands between port lists; are the counts right? | 1.1 million |
| `controller` | Does the tracker keep a service at one slice, with two workers, a lagging informer, failed calls and a recreated service; is that slice ever overwritten with an older state of the pods; does a sync that succeeds leave it, if nothing interferes? | 1.7 million |
| `controller_faults` | Do the slices converge in spite of a lost reply, a retry that is given up and a takeover with an empty tracker and a pod lister that lags behind the old one's; is a cache called stale only when it is; does no slice that the new process has written go back to an earlier state of the pods? | 1.0 million |
| `stuck_on_stale` | is a cache called stale only when it is, if slices are removed by others: **violated** | |
| `sync_loses_slice` | does a sync that succeeds leave a slice: **violated** | |
| `nat_table` | Are the rules right after every good sync and in the end, do all jumps resolve, is what is wanted and installed ever interrupted, do routes follow, does a stop clean up? | 319 thousand |
| `proxy` | Does a stop leave rules; does any step take a rule away that ought to stay, but the first sync of a process, from a map that lacks what its informer has listed; do the rules come to follow what exists, through restarts, stops, failed visits and a gate that opens early? | 1.2 million |
| `gate_early` | does a restart take rules away, as the code waits: **violated** | |

### Bounds, and why they are enough

* `ServiceChangeTracker`, `EndpointSliceCache`: no bound but the constants. Two
  services show that changes of one leave the other alone; two slices of one
  service show that the entries of one survive the removal of the other; the
  two port lists share a name and differ in its number. Number and order of
  events between two syncs are unbounded.
* `PodChangeTracker`: no bound but the constants. One pod whose container restarts
  under the same name, changes its interfaces and stops being a target; another
  that comes and goes.
* `Reconciler`: slices hold two endpoints of three pods, so that a slice is empty,
  half full, exactly full, and endpoints are left over in every step; three slices
  let a round keep, fill and delete one each. One pod may change its condition, one
  its port list and one may lose its address; one of the two port lists is that of
  the placeholder, so that slices of one list take over those of the other and a
  placeholder becomes a slice with endpoints. Rounds and failing calls are
  unbounded, `MaxMishaps` 1. `SliceName` bounds how many slices exist at once; a
  create that finds no name waits.
* `SliceController`: one service, for services share nothing but the queue, and the
  queue's mutual exclusion is proved for any number. Two workers in the safety
  run; one in the run with fairness, as two never work on the one service.
  `MaxVersion` 2 or 3 lets the pods change before, during and after a sync;
  `MaxIncarnation` 2 is a deletion and recreation; `maxRetries` 0 or 1 instead of 15
  makes "given up" reachable; `MaxMishaps` says how often each kind of mishap
  happens. `MaxSlices` bounds all slices ever created, and a create beyond it
  waits: with the mishaps of `controller_faults` no behaviour needs a sixth (with
  four, `Converges` fails only because a fifth cannot be made).
* `NatTable`: a Service with two ports and one with a single port, two cluster IPs
  that can swap owners, one link, one endpoint. `MaxChanges` 4 inputs, stops and
  crashes and `MaxFailures` 1 failed call per behaviour; syncs are not bounded.
* `ProxyServer`: one Service with one slice (two sources of a rule) and one pod. The
  Service is created, updated or deleted once, and one mishap happens: a signal, a
  crash or a visit that fails. The process starts on a node with or without rules,
  before or after the Service exists. Ticks and syncs are unbounded. More pods and
  changes make the run with fairness too long; the safety properties are proved for
  any number of both. `gate_early` has a second pod, which can never be entered.

The theorems below hold without these bounds.

Symmetry is used only for sets whose members the specification does not tell
apart, and only in runs without liveness. No run turns the deadlock check off.

### Fairness

Only what the program's own machinery does for ever is fair.

* `SliceController`: a worker goes on (goroutines are scheduled, and API calls
  return); the informer delivers, one way or the other (watch or relist, both
  in one action: neither is promised); a delay ends; and the resync of the
  Service informer recurs (`cmd/multus-service-controller/server.go:116-128`). The
  last stands for the first list of services as well, and is what makes a service
  right again whose retries are used up; without it `Converges` is false.
  Nothing is assumed of the changes of services and pods, of mishaps, or of the
  garbage collector, which only matters for slices of a deleted service.
* `NatTable`: the runner syncs every 30 s (`pkg/proxy/server/server.go:290, 328-330`),
  a sync that has begun goes on to its end, and the DaemonSet restarts the process
  (`deploy.yml`). `RestoreFails` is not fair, and bounded by `MaxFailures`: failures
  end.
* `ProxyServer`: informers deliver, the runner's timer comes round, a sync that holds the
  mutex goes on, the process is restarted (all weak). Waiting for the mutex, and
  for the runner to receive the stop, is strongly fair: Go hands a mutex to a
  goroutine that has waited for a millisecond (its starvation mode), and the runner
  is between two syncs for 30 s. Signals, crashes, changes and
  visits that fail are not fair.

### Violations

* `slice_relabelled`: `OnEndpointSliceUpdate` looks at the new object only, so a slice
  whose `kubernetes.io/service-name` label is edited stays applied under the old
  service, until the proxy restarts.
* `stuck_on_stale`: `finalize` tells the tracker of a slice after the create has
  returned. If the slice was removed meanwhile and the informer never saw it or
  has seen it go, nobody removes its UID from the tracker, and every later sync
  of the service ends with `StaleInformerCache`, although the cache is what the API
  server has.
* `sync_loses_slice`: `syncService` lists slices, then asks the tracker. A delete event
  handled in between takes the "deletion expected" mark away, so that a list from
  before it passes; with a duplicate around, the sync keeps the slice that is gone
  and deletes the other. The next event or resync repairs it: `Converges` holds.
* `gate_early`: the configs' `Run` waits for `HasSynced` of the shared informer, which is
  true when the first list is in the indexer. Handlers run on a goroutine of their
  own and may not have run: the gate opens, and the first sync of a restarted proxy
  removes rules from pods until the handlers of the Services have run.

## 4. Proofs

For every value of the constants that satisfies the named assumptions.

| module | theorem | argument |
|---|---|---|
| `ServiceChangeTrackerProofs` | `TypeCorrect`, `NothingIsLost`, `TrackerImplementsView` | `NothingLost` is inductive with `TypeOK`: its second conjunct ("previous" is the part of the map that belongs to the service) is what makes `Apply` exact, and both together what makes `Update` keep it. The refinement maps an event to `Observe` of its service and `Apply` to `Publish` |
| `EndpointSliceCacheProofs` | `TypeCorrect`, `PendingIsComplete`, `MapIsExact`, `CacheImplementsView` | `Overlay(tracker[s]) = Described(s)` and "the map shows the applied slices" are each inductive with `TypeOK`; the lemma that `GetEndpointsMap` of a service has only keys of that service lets the changes of different services be merged independently |
| `SliceControllerProofs` | `TypeCorrect`, `MutualExclusion` | `OneWorkerPerService` follows from what the queue does: the inductive part is `QueueOK` (the queue has no service twice and none that is being processed, and the services being processed are those of the busy workers) together with the exclusion itself |
| `SliceTrackingProofs` | `NeverGoesBack`, `NoSecondSlice`, `StaleMeansBehind`, `SyncsPublish` | see below |
| `PodChangeTrackerProofs` | `TypeCorrect`, `PathIsCurrent`, `TrackerImplementsView` | `Good`, inductive with `TypeOK`: what the next apply makes of a pod describes its last object; the old side of an item says what the map's entry says, path included if the pod is not doubtful and that container still runs. So an item whose two sides are equal can be dropped without losing a path |
| `ReconcilerProofs` | `TypeCorrect`, `CapacityHolds`, `RoundsAreExact`, `EndpointsStay`, `NothingNeedless`, `MetricsComeTrue` | see below |
| `NatTableProofs` | `TypeCorrect`, `JumpsAlwaysResolve`, `SyncIsExact`, `NoInterruption`, `RoutesAreRight`, `StopCleans` | the strengthening `ExactInv` says which of the ports are exact while a sync is on its way (`pc = "routes"` and nothing missed) as well as after it; a restore is computed from the inputs and not from what was installed, except for the ports whose link was not found, which had no chain. For the routes `RouteInv`: in an orderly history the routes there will be when the two lists are worked off are those some rule matches (`Routed`, `Matched`), each rule has the cluster IP of its Service (`Current`), and no two Services share one (`OneServicePerIP`, `UniqueIPs`) |
| `ProxyServerProofs` | `TypeCorrect`, `StopCleans`, `LostOnlyAtStart` | What the rules of any pod rely on exists and is in the indexer of every informer that has listed, which the open gate ensures of all three (`Learned`); what the rules of a pod this process has programmed are made from is published, and stays so (`Current`, `Chain`). So a rule is lost only at the first visit of a pod, and what the map lacks then is in the indexer: its handler is late. `StopCleans`: from `ClearServices` on the sync of `Main` installs nothing, and every pod the process has programmed is still listed and known, so that the last sync visits it (`Reached`) |

`ReconcilerProofs` is about a round in progress, in which each endpoint and each
slice is on its way from one container of the code to another:

* `Structure`: what each phase has in which container, and of which port lists; a
  slice still to be scanned, one to be kept or updated, and one to be deleted are
  three different ones; slices of other owners are to be deleted; the endpoints left
  over are those of one port list;
* `Fitting`: nothing in any of these places has more than `MaxEndpoints` endpoints.
  With `Structure` this gives `Capacity`; the filling of slices from `left` is a
  matter of cardinalities of function domains, proved from `FiniteSetTheorems`;
* `Laid`: the slices that stay and the creates hold what pods say, and every endpoint
  of a port list that was taken on is in exactly one of them, or left over;
* `Planned`: in `finalize` the same of what the slices will be when the remaining
  calls succeed; that creates take over deletes one by one is an injection, and a
  round that has no call left has `Planned` of the slices themselves, which is
  `Exact`;
* `Keeping`, `Kept`: an endpoint that is published and still wanted is in a slice that
  no step of the round takes it from, which is `NeverLost`: an update of one slice
  never removes what only another, not yet written, will have;
* `Worthwhile`, `Pending`: every delete, update and create on the plan has a reason, in
  the slice as it is or in what it would become. With `Planned` the reasons are gone
  when the slices are up to date, and so are the calls, which is `Stable`. It holds
  since `Laid` gives each endpoint one slice: a wanted slice that changes has to take an
  endpoint from elsewhere;
* `Tallied`: what the metrics cache was told of a port list is the number of slices with
  it, and of endpoints in them, once the calls still on the plan have succeeded; each
  call moves a slice from the plan to the slices and changes no count. With no call
  left it is `MetricsExact`.

`SliceTrackingProofs` is about what a sync knows, from lists that lag and replies that
come late. It rests on `MutualExclusion`:

* `Knowing`: a UID is given out once, and a slice keeps its service and its owner; so
  whatever is on its way about a slice that exists (an event in `watch` or `notes`, an
  entry of `cache`, the list of a sync) is about the same slice (`Once`), and a deletion is
  only reported of a slice that is gone;
* `Recent`: no slice that the process has written (`Ours`: it is tracked, or there was
  no other process) is ahead of the process' pod lister, nor of what a sync of its
  service has read of the pods, for the work queue lets no other sync write it
  meanwhile. So every write of such a slice goes forward, which is `NeverBack`. At a
  takeover nothing is `Ours`, however far the new lister is behind;
* `Counted`, as long as no reply was lost and no process taken over (`Reliable`): while a
  sync may rely on the tracker (`Relying`: the service exists, or a sync of it is on
  its way), the tracker knows of every slice the service owns, or the worker that
  just got the reply is about to tell it (`Tracking`). So a list that lacks one of them is
  found stale, a slice is only created where there is none (`Needed`), and there is
  at most one (`Single`), which is `NoDuplicates`. The step that takes the argument is
  `ServiceNotFound`, which forgets all of a service: it is not `Relying` then, and a
  service that is created again owns nothing of what is left;
* `Followed`: what the tracker, or a reply on its way to it, has of a slice is what the
  slice is or was before, and of a slice that is gone and that the tracker has a
  generation of, the deletion is still to be heard of, from `watch` or `notes`. No
  event of a slice comes after its deletion, and the informer still has a slice whose
  deletion is in `watch`, so that a relist reports it too (`Ending`). So a list that is what the API server has, found stale with
  nothing left to be handled, is a contradiction, which is `StaleOnlyIfBehind`. The
  hypothesis `Undisturbed` (no removals by others, no service recreated) is needed:
  without its first half see `stuck_on_stale`, without its second section 5;
* `Confirmed`, with `Counted`: what the cache, the watch and the list of a sync have of a
  slice is not newer than the slice, and as long as no mishap but failed calls happens
  (`Orderly`) the slice is there while the service that owns it is (`Vouched`). So the
  slice a plan keeps or updates exists and goes on existing: what a plan deletes is
  none that a service needs (`Spared`), for with `Single` a needed one could only be the
  one that is kept. A plan with nothing left to do then has its slice, with the
  content it wanted (`Provided`), which is `ReliablyPublished`.

Assumptions: absent values differ from present ones (`AbsentAssumption`,
`SliceAssumption`, `NothingAssumption`, `NoThreadAssumption`), finite sets where something
is counted (`FiniteAssumption`), bounds are numbers (`ControllerAssumption`,
`ReconcilerAssumption`, `BoundsAssumption`), each port belongs to a Service
(`PortsAssumption`), kinds of objects are disjoint (`ObjectsAssumption`). TLC evaluates
them in the runs. `Undisturbed` is a hypothesis of `StaleMeansBehind` and no assumption.

Only model-checked:

* liveness (`Converges`, `RulesSettle`, `RulesFollow`): out of the prover's reach, as is
  what depends on ENABLED.

## 5. Conditions on properties

* `NoDuplicates` excludes lost replies and failovers: the tracker is in memory, and
  knows only replies. `Converges` covers both.
* `Exact` excludes a service pending deletion, for which nothing is created.
* `Stable` is for services with endpoints: the placeholder of a service without is
  rewritten by every round (`reconciler.go`: it is deleted and created, which `finalize`
  makes an update).
* `SyncPublishes` is stated for services that are not recreated meanwhile, and fails
  after a lost reply (`sync_loses_slice`). `ReliablyPublished` is what remains: it leaves
  out histories with a lost reply, a failover or a removal by others, and services that
  do not exist when the sync ends (the garbage collector may have taken their slice).
* `StaleOnlyIfBehind` holds as long as no one else removes slices (`stuck_on_stale`) and
  no service is recreated. A service that is deleted during its own sync, between the
  create and `Track`, has its new slice garbage-collected and the deletion reported
  before the tracker knows of the slice; if it is created again before its next
  sync, the tracker keeps a UID that nothing will remove. TLC finds this with
  `MaxIncarnation` 2. If it is not created again, `ServiceNotFound` clears the entry.
* `MetricsExact` is stated for rounds that end well and services that are not pending
  deletion: the entry is written before `finalize`, so a call that fails leaves it wrong
  until the next round.
* `PathFollowsContainer` leaves out the pods in `doubtful`: when the runtime does not
  answer, the path stays empty until the pod changes, since a resync describes the
  old and the new object alike. `ImplementsView` says that nothing else suffers.
* `RoutesFollow`, and what `StopsClean` of `NatTable` says of routes, are for orderly
  histories. Outside of them the code does not keep routes in step: the route goes
  with the chain of one port although another port still has rules, a changed
  cluster IP gets no route as its chain is not new, and a route missed once is
  never added. No document promises more, so these are hazards of `PROJECT.json`
  and no findings.
* `NeverBack` is about slices the process has written, and about all as long as there
  was one process. A new process whose pod lister lags behind what the old one has
  seen may overwrite a slice with an older state of the pods, once; nothing in the
  code prevents it, `Converges` says that it comes right, and no document promises
  more.
* `GapOnlyAtStart` and `NoGap` are about Services and slices that were never deleted (one
  that is deleted and created again may lose its rules in between), and not about a
  proxy that is stopping. `NoGap` is what the comments promise, see `gate_early`.
* `StopsClean` of `ProxyServer` is about a `Run` that comes to its end: after a `Panic` the
  rules stay, and so do those of a pod that the last sync failed for (`missed`). With the gate still closed nothing is cleaned, for nothing was
  programmed.

## 6. Not modelled

| what | why |
|---|---|
| loop over address types, deletion of slices of types no longer supported | `Reconciler` is one iteration; iterations share the pods and nothing else, except that the metrics entry of one overwrites that of the other, which is listed as a hazard |
| sums and collectors of the metrics | a fold over entries; the entries are modelled (`counts`) |
| text and deadlines of the runtime's answers | the outcomes are modelled (`Answers`); a call that never returns, or an answer without "info", is listed as a hazard |
| slices without a port number among several ports; interfaces without an address | the proxy panics (`endpointslice.go:650`, `iptables.go:254`): listed as hazards |
| `pkg/service-controller/metrics/` | nothing imports it but its test |
| lease protocol | client-go's; a failover is one action |
| pure translations of API objects (`podToEndpoint`, `getEndpointPorts`, ...) | their results are the inputs of `Reconciler` (`PodState`) |
| iptables' own parsing, rule probabilities | layout of rules; the probability of the i-th of n endpoints is 1/(n-i+1), without state |
| stale-connection and health-check results of the EndpointSlice cache | computed and dropped by the caller |
| flags, logging, manifests, vendored code | no state of interest |

## 7. Plan

Done, in this order: `ServiceChangeTracker` and `SyncedView`, `EndpointSliceCache`,
`Reconciler`, `SliceController`, `NatTable`, `PodChangeTracker`, `ProxyServer`, with their runs,
and the proofs of section 4.

What would come next:

1. The loop over address types around `Reconciler` (dual stack, slices of unsupported
   types, the overwritten entry of the metrics cache).
2. Controller and proxy end to end: a pod's change reaches the rules, through the
   abstract views.
