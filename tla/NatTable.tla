------------------------------ MODULE NatTable ------------------------------
(***************************************************************************)
(* What multus-proxy installs in one network namespace: the MULTUS chains  *)
(* of the nat table and the routes to the cluster IPs                      *)
(* (pkg/proxy/server/iptables.go and generateServiceForwardingRules in     *)
(* pkg/proxy/server/server.go).                                            *)
(*                                                                         *)
(* A sync reads the installed table, builds the text of the new one,       *)
(* restores it in one transaction, and then deletes and adds routes one by *)
(* one.  Which routes to touch is worked out from which chains appear and  *)
(* disappear, so the routes have a memory the rules do not have.  Calls    *)
(* may fail, and the process may stop or crash between two of them; the    *)
(* table and the routes outlive it.                                        *)
(*                                                                         *)
(* A chain is named after its service port, or its port and endpoint, and  *)
(* is represented by them.  Probabilities, counters and comments are left  *)
(* out; so is the jump from OUTPUT, which every sync ensures first and     *)
(* nothing removes.  Every interface has an address: the code panics at    *)
(* status.IPs[0] of one that has none.                                     *)
(***************************************************************************)
EXTENDS Integers, FiniteSets

CONSTANTS
    Service,      \* Services
    Port,         \* service ports, each of one Service
    ServiceOf,    \* [Port -> Service]
    Endpoint,     \* "ip:port" strings of ready endpoints
    Address,      \* cluster IPs
    Headless,     \* the cluster IP "None"
    Link,         \* the interfaces of the namespace (podInfo.Interfaces)
    Nothing,      \* no Service, no chain, no route
    MaxChanges,   \* bound on changes of the inputs, stops and crashes
    MaxFailures   \* bound on calls that fail

ASSUME PortsAssumption == ServiceOf \in [Port -> Service]
ASSUME NothingAssumption ==
    /\ Headless \notin Address
    /\ Nothing \notin Link
    /\ \A E \in SUBSET Endpoint : E # Nothing
ASSUME FiniteAssumption == IsFiniteSet(Link) /\ IsFiniteSet(Port)
ASSUME BoundsAssumption == MaxChanges \in Nat /\ MaxFailures \in Nat

VARIABLES
    serviceMap,   \* the Services as s.serviceMap will hold them at the next sync
    endpoints,    \* the endpoints of each port, as s.endpointsMap will
    services,     \* the rules of MULTUS-SERVICES: a cluster IP and a port's chain
    svc,          \* port -> the endpoints its MULTUS-SVC chain jumps to
    sep,          \* the MULTUS-SEP chains: pairs of a port and an endpoint
    routes,       \* cluster IP -> the link of its route
    pc,           \* where the process is
    stopping,     \* Run has set s.serviceMap to nil
    oldIPs,       \* iptableBuffer.OldClusterIPs still to handle
    newIPs,       \* iptableBuffer.NewClusterIPs still to handle
    missed,       \* this sync met a link it could not find
    outcome,      \* how the last sync ended, if nothing changed since
    orderly,      \* every step so far was one the routes can follow (a history)
    changes, failures

inputs  == <<serviceMap, endpoints>>
table   == <<services, svc, sep>>
process == <<pc, stopping, oldIPs, newIPs, missed, outcome, orderly>>
vars == <<inputs, table, routes, process, changes, failures>>

(***************************************************************************)
(* A Service as the map holds it: its cluster IP, the links that are       *)
(* attached to its TargetNetwork, and the ports it has.                    *)
(***************************************************************************)
Info(s) == [ip: Address \cup {Headless}, links: SUBSET Link,
            ports: SUBSET {p \in Port : ServiceOf[p] = s}]

Rule     == [ip: Address, port: Port]
NewRoute == [ip: Address, link: Link]

Wanted(p) ==
    LET info == serviceMap[ServiceOf[p]]
    IN  IF stopping \/ info = Nothing \/ p \notin info.ports THEN Nothing ELSE info

\* Faulty variant: headless Services are not left out.
ChosenHeadless ==
    {c \in Link \X Port : Wanted(c[2]) # Nothing /\ c[1] \in Wanted(c[2]).links}

(***************************************************************************)
(* The pairs of a link and a port the two loops of                         *)
(* generateServiceForwardingRules keep.                                    *)
(***************************************************************************)
Chosen == {c \in Link \X Port :
             /\ Wanted(c[2]) # Nothing
             /\ c[1] \in Wanted(c[2]).links
             /\ Wanted(c[2]).ip # Headless}

Ports(pairs) == {c[2] : c \in pairs}

\* Faulty variant: a chain that is installed already is not marked active.
ActiveSepNew(written) ==
    {c \in Port \X Endpoint :
       c[1] \in Ports(written) /\ c[2] \in endpoints[c[1]] /\ c \notin sep}

\* CreateNATChain: the chains the new table keeps or creates.
ActiveSvc(chosen)  == Ports(chosen)
ActiveSep(written) == {c \in Port \X Endpoint :
                         c[1] \in Ports(written) /\ c[2] \in endpoints[c[1]]}

\* The chains of FinalizeRules: installed, and not active.
ObsoleteSvc(chosen)  == {p \in Port : svc[p] # Nothing} \ ActiveSvc(chosen)
ObsoleteSep(written) == sep \ ActiveSep(written)

\* Faulty variant: obsolete chains alone do not count.
AnyRulesWritten(chosen, written) == written # {}

\* Whether FinalizeRules finds any text to restore.
AnyRules(chosen, written) ==
    \/ written # {}
    \/ ObsoleteSvc(chosen) # {}
    \/ ObsoleteSep(written) # {}

\* Faulty variant: each cluster IP overwrites the one before it.
OldClusterIPsLast(chosen) ==
    LET all == {r.ip : r \in {q \in services : q.port \in ObsoleteSvc(chosen)}}
    IN  IF all = {} THEN {} ELSE {CHOOSE a \in all : TRUE}

OldClusterIPs(chosen) ==
    {r.ip : r \in {q \in services : q.port \in ObsoleteSvc(chosen)}}

NewClusterIPs(written) ==
    {[ip |-> Wanted(c[2]).ip, link |-> c[1]] :
       c \in {d \in written : svc[d[2]] = Nothing}}

(***************************************************************************)
(* The circumstances under which the routes follow the chains: a Service   *)
(* that still has rules keeps its cluster IP and the ports it has rules    *)
(* for until the process has seen it go, and no sync is cut short or misses *)
(* a link or a route between its restore and its last route.               *)
(***************************************************************************)
Steady ==
    /\ \A r \in services :
         LET info == serviceMap'[ServiceOf[r.port]]
         IN  \/ serviceMap' = serviceMap
             \/ info = Nothing
             \/ info.links = {}
             \/ info.ip = r.ip /\ r.port \in info.ports
    /\ pc = "routes" => pc' # "down"
    /\ ~missed'

Recorded == orderly' = (orderly /\ Steady)

-----------------------------------------------------------------------------
Init ==
    /\ serviceMap = [s \in Service |-> Nothing]
    /\ endpoints = [p \in Port |-> {}]
    /\ services = {} /\ sep = {}
    /\ svc = [p \in Port |-> Nothing]
    /\ routes = [a \in Address |-> Nothing]
    /\ pc = "due" /\ stopping = FALSE
    /\ oldIPs = {} /\ newIPs = {} /\ missed = FALSE
    /\ outcome = "none" /\ orderly = TRUE
    /\ changes = 0 /\ failures = 0

(***************************************************************************)
(* The handlers of the Service informer run one after the other, and each  *)
(* one calls syncServiceForwarding before it returns.  The maps are read   *)
(* when a sync starts, so a change during one counts after it.  Cluster    *)
(* IPs are unique among the Services that exist.                           *)
(***************************************************************************)
SetService(s) ==
    /\ pc \in {"idle", "down"}
    /\ changes < MaxChanges
    /\ \E info \in Info(s) \cup {Nothing} :
         /\ info # serviceMap[s]
         /\ info # Nothing /\ info.ip # Headless =>
              \A o \in Service \ {s} : serviceMap[o] # Nothing => serviceMap[o].ip # info.ip
         /\ serviceMap' = [serviceMap EXCEPT ![s] = info]
    /\ pc' = IF pc = "idle" THEN "due" ELSE pc
    /\ outcome' = "none"
    /\ changes' = changes + 1
    /\ UNCHANGED <<endpoints, table, routes, stopping, oldIPs, newIPs, missed, failures>>
    /\ Recorded

\* The handlers of the EndpointSlice informer.
SetEndpoints(p) ==
    /\ pc \in {"idle", "due", "down"}
    /\ changes < MaxChanges
    /\ \E es \in (SUBSET Endpoint) \ {endpoints[p]} : endpoints' = [endpoints EXCEPT ![p] = es]
    /\ pc' = IF pc = "idle" THEN "due" ELSE pc
    /\ outcome' = "none"
    /\ changes' = changes + 1
    /\ UNCHANGED <<serviceMap, table, routes, stopping, oldIPs, newIPs, missed, failures>>
    /\ Recorded

(***************************************************************************)
(* A sync up to and with iptables-restore: after a change, or when the     *)
(* sync runner's 30 seconds are over.  missing are the calls of            *)
(* LinkByName that fail: the chain is active by then and its line is       *)
(* written, its rules and its route are not.  With nothing to write the    *)
(* table is left alone.                                                    *)
(***************************************************************************)
Restore ==
    /\ pc \in {"idle", "due"}
    /\ \E missing \in SUBSET {c \in Chosen : svc[c[2]] = Nothing} :
         LET chosen  == Chosen
             written == chosen \ missing
         IN  /\ failures + Cardinality(missing) <= MaxFailures
             /\ failures' = failures + Cardinality(missing)
             /\ missed' = (missing # {})
             /\ IF AnyRules(chosen, written)
                THEN /\ services' = {[ip |-> Wanted(p).ip, port |-> p] : p \in Ports(written)}
                     /\ svc' = [p \in Port |->
                                  IF p \in Ports(written) THEN endpoints[p]
                                  ELSE IF p \in ActiveSvc(chosen) THEN {}
                                  ELSE Nothing]
                     /\ sep' = ActiveSep(written)
                ELSE UNCHANGED table
             /\ oldIPs' = OldClusterIPs(chosen)
             /\ newIPs' = NewClusterIPs(written)
    /\ pc' = "routes"
    /\ outcome' = "none"
    /\ UNCHANGED <<inputs, routes, stopping, changes>>
    /\ Recorded

(***************************************************************************)
(* EnsureRule, iptables-save or iptables-restore fails: the sync returns   *)
(* and the table is as it was.                                             *)
(***************************************************************************)
RestoreFails ==
    /\ pc \in {"idle", "due"}
    /\ failures < MaxFailures
    /\ failures' = failures + 1
    /\ pc' = IF stopping THEN "down" ELSE "idle"
    /\ stopping' = FALSE
    /\ outcome' = "failed"
    /\ UNCHANGED <<inputs, table, routes, oldIPs, newIPs, missed, changes>>
    /\ Recorded

(***************************************************************************)
(* RouteDel of the next cluster IP.  A route that is not there (ESRCH) is  *)
(* no failure; any other error is logged and the loop goes on.             *)
(***************************************************************************)
DeleteRoute ==
    /\ pc = "routes"
    /\ \E a \in oldIPs :
         /\ oldIPs' = oldIPs \ {a}
         /\ \/ /\ routes' = [routes EXCEPT ![a] = Nothing]
               /\ UNCHANGED <<missed, failures>>
            \/ /\ failures < MaxFailures
               /\ failures' = failures + 1
               /\ missed' = TRUE
               /\ UNCHANGED routes
    /\ UNCHANGED <<inputs, table, pc, stopping, newIPs, outcome, changes>>
    /\ Recorded

\* Faulty variant: routes are added while old ones are still to be deleted.
AddRouteEarly ==
    /\ pc = "routes"
    /\ \E n \in newIPs :
         /\ newIPs' = newIPs \ {n}
         /\ \/ /\ routes' = IF routes[n.ip] = Nothing
                            THEN [routes EXCEPT ![n.ip] = n.link] ELSE routes
               /\ UNCHANGED <<missed, failures>>
            \/ /\ failures < MaxFailures
               /\ failures' = failures + 1
               /\ missed' = TRUE
               /\ UNCHANGED routes
    /\ UNCHANGED <<inputs, table, pc, stopping, oldIPs, outcome, changes>>
    /\ Recorded

(***************************************************************************)
(* RouteAdd of the next cluster IP, once all the old ones were handled.    *)
(* A route to that address that is already there stays (EEXIST).           *)
(***************************************************************************)
AddRoute ==
    /\ pc = "routes"
    /\ oldIPs = {}
    /\ \E n \in newIPs :
         /\ newIPs' = newIPs \ {n}
         /\ \/ /\ routes' = IF routes[n.ip] = Nothing
                            THEN [routes EXCEPT ![n.ip] = n.link] ELSE routes
               /\ UNCHANGED <<missed, failures>>
            \/ /\ failures < MaxFailures
               /\ failures' = failures + 1
               /\ missed' = TRUE
               /\ UNCHANGED routes
    /\ UNCHANGED <<inputs, table, pc, stopping, oldIPs, outcome, changes>>
    /\ Recorded

\* The sync returns; the last one of Run ends the process.
Return ==
    /\ pc = "routes"
    /\ oldIPs = {} /\ newIPs = {}
    /\ pc' = IF stopping THEN "stopped" ELSE "idle"
    /\ outcome' = IF missed THEN "partial" ELSE "done"
    /\ UNCHANGED <<inputs, table, routes, stopping, oldIPs, newIPs, missed, changes, failures>>
    /\ Recorded

(***************************************************************************)
(* Run got the stop signal: the sync runner has ended, s.serviceMap is     *)
(* nil, and one more sync follows.                                         *)
(***************************************************************************)
Stop ==
    /\ pc \in {"idle", "due"}
    /\ ~stopping
    /\ changes < MaxChanges
    /\ stopping' = TRUE
    /\ pc' = "due"
    /\ outcome' = "none"
    /\ changes' = changes + 1
    /\ UNCHANGED <<inputs, table, routes, oldIPs, newIPs, missed, failures>>
    /\ Recorded

\* The process dies, with what it had in memory.
Crash ==
    /\ pc \in {"idle", "due", "routes"}
    /\ changes < MaxChanges
    /\ pc' = "down"
    /\ stopping' = FALSE
    /\ oldIPs' = {} /\ newIPs' = {} /\ missed' = FALSE
    /\ outcome' = "none"
    /\ changes' = changes + 1
    /\ UNCHANGED <<inputs, table, routes, failures>>
    /\ Recorded

\* The DaemonSet starts it again: the informers fill the maps, then it syncs.
Start ==
    /\ pc \in {"down", "stopped"}
    /\ pc' = "due"
    /\ stopping' = FALSE
    /\ outcome' = "none"
    /\ missed' = FALSE
    /\ UNCHANGED <<inputs, table, routes, oldIPs, newIPs, changes, failures>>
    /\ Recorded

Next ==
    \/ \E s \in Service : SetService(s)
    \/ \E p \in Port : SetEndpoints(p)
    \/ Restore
    \/ RestoreFails
    \/ DeleteRoute
    \/ AddRoute
    \/ Return
    \/ Stop
    \/ Crash
    \/ Start

Spec == Init /\ [][Next]_vars

(***************************************************************************)
(* The sync runner syncs every 30 seconds, a sync runs to its end, and the *)
(* DaemonSet restarts the process.                                         *)
(***************************************************************************)
Fairness ==
    /\ WF_vars(Restore)
    /\ WF_vars(DeleteRoute)
    /\ WF_vars(AddRoute)
    /\ WF_vars(Return)
    /\ WF_vars(Start)

FairSpec == Spec /\ Fairness

-----------------------------------------------------------------------------
(***************************************************************************)
(* Every state is well formed: in particular no rule and no route is made  *)
(* for the cluster IP "None".                                              *)
(***************************************************************************)
InputsOK ==
    /\ DOMAIN serviceMap = Service
    /\ \A s \in Service : serviceMap[s] = Nothing \/ serviceMap[s] \in Info(s)
    /\ endpoints \in [Port -> SUBSET Endpoint]

TableOK ==
    /\ services \subseteq Rule
    /\ svc \in [Port -> {Nothing} \cup (SUBSET Endpoint)]
    /\ sep \subseteq Port \X Endpoint

RoutesOK ==
    /\ routes \in [Address -> Link \cup {Nothing}]
    /\ oldIPs \subseteq Address
    /\ newIPs \subseteq NewRoute

ProcessOK ==
    /\ pc \in {"idle", "due", "routes", "stopped", "down"}
    /\ stopping \in BOOLEAN /\ missed \in BOOLEAN
    /\ outcome \in {"none", "done", "partial", "failed"}
    /\ orderly \in BOOLEAN

CountsOK == changes \in 0..MaxChanges /\ failures \in 0..MaxFailures

TypeOK == InputsOK /\ TableOK /\ RoutesOK /\ ProcessOK /\ CountsOK

(***************************************************************************)
(* The table a sync restores is one iptables accepts and can follow: every *)
(* jump has its target chain, every chain that is deleted is referenced by *)
(* nothing, whatever was installed before and whichever links were not     *)
(* found (CreateNATChain, FinalizeRules).                                  *)
(***************************************************************************)
JumpsResolve ==
    /\ \A r \in services : svc[r.port] # Nothing
    /\ \A p \in Port : svc[p] # Nothing =>
         \A e \in svc[p] : <<p, e>> \in sep
    /\ \A c \in sep : svc[c[1]] # Nothing /\ c[2] \in svc[c[1]]

\* Port p is forwarded exactly as the Services and EndpointSlices want it.
Forwarded(p) ==
    IF p \in Ports(Chosen)
    THEN /\ {r \in services : r.port = p} = {[ip |-> Wanted(p).ip, port |-> p]}
         /\ svc[p] = endpoints[p]
         /\ {c \in sep : c[1] = p} = {p} \X endpoints[p]
    ELSE /\ \A r \in services : r.port # p
         /\ svc[p] = Nothing
         /\ \A c \in sep : c[1] # p

(***************************************************************************)
(* A sync that returned with every call a success left exactly the wanted  *)
(* rules, whatever earlier syncs, crashes and failures had left behind.    *)
(***************************************************************************)
RulesExact == outcome = "done" => \A p \in Port : Forwarded(p)

(***************************************************************************)
(* A port that is forwarded as it should stays so until what is wanted of  *)
(* it changes: no sync for another Service, failed call, crash or restart  *)
(* interrupts it (one restore, atomic, of all the rules).                  *)
(***************************************************************************)
Undisturbed(p) ==
    Forwarded(p) /\ Wanted(p)' = Wanted(p) /\ endpoints'[p] = endpoints[p] => Forwarded(p)'

NeverInterrupted == [][\A p \in Port : Undisturbed(p)]_vars

(***************************************************************************)
(* When the inputs are at rest the rules come to be the wanted ones and    *)
(* stay so, although syncs failed, links were missing when their chain was *)
(* created and the process died (the periodic sync of the sync runner).    *)
(***************************************************************************)
RulesSettle == <>[](\A p \in Port : Forwarded(p))

(***************************************************************************)
(* After a sync that went well a cluster IP has a route exactly when some  *)
(* rule matches it: OldClusterIPs and NewClusterIPs, computed from chains  *)
(* that go and come, add up over any number of syncs, stops and restarts,  *)
(* as long as the steps were orderly.                                      *)
(***************************************************************************)
RoutesFollow ==
    orderly /\ outcome = "done" =>
      \A a \in Address : routes[a] # Nothing <=> \E r \in services : r.ip = a

(***************************************************************************)
(* Run leaves no rule and no chain of a port behind when it stops, and no  *)
(* route if the steps were orderly: the last sync, with no service, cleans *)
(* up whatever was installed.                                              *)
(***************************************************************************)
StopsClean ==
    pc = "stopped" /\ outcome = "done" =>
      /\ services = {} /\ sep = {}
      /\ \A p \in Port : svc[p] = Nothing
      /\ orderly => \A a \in Address : routes[a] = Nothing

=============================================================================
