--------------------------- MODULE NatTableProofs ---------------------------
(***************************************************************************)
(* Proofs about NatTable, for every set of Services, ports, endpoints,     *)
(* addresses and links, and every number of changes and failures.          *)
(*                                                                         *)
(* Restore is the only action that writes the table, so each proof is a    *)
(* lemma about Restore and a lemma that the other actions leave the table  *)
(* alone.                                                                  *)
(***************************************************************************)
EXTENDS NatTable, FiniteSetTheorems, TLAPS

(***************************************************************************)
(* The actions that change neither the table nor what is wanted, apart     *)
(* from the inputs, stopping and pc: everything but Restore.               *)
(***************************************************************************)
TableUnchanged == UNCHANGED table

\* A step that is not a restore leaves the table alone (every action but Restore).
LEMMA OthersKeepTable ==
    ASSUME [Next]_vars, ~Restore
    PROVE  TableUnchanged
BY DEF Next, vars, inputs, table, process, TableUnchanged, SetService, SetEndpoints,
       RestoreFails, DeleteRoute, AddRoute, Return, Stop, Crash, Start

\* What is wanted of a port is Nothing or a Service's record (Wanted).
LEMMA WantedType ==
    ASSUME TypeOK, NEW p \in Port
    PROVE  Wanted(p) = Nothing \/ Wanted(p) \in Info(ServiceOf[p])
BY PortsAssumption DEF TypeOK, InputsOK, Wanted

\* A chosen port has a cluster IP that is an address (line 550 of server.go).
LEMMA ChosenType ==
    ASSUME TypeOK, NEW c \in Chosen
    PROVE  /\ c \in Link \X Port
           /\ c[1] \in Link /\ c[2] \in Port
           /\ Wanted(c[2]).ip \in Address
<1>1. /\ c \in Link \X Port /\ c[1] \in Link /\ c[2] \in Port
      /\ Wanted(c[2]) # Nothing /\ Wanted(c[2]).ip # Headless
  BY DEF Chosen
<1>2. Wanted(c[2]) \in Info(ServiceOf[c[2]])
  BY <1>1, WantedType
<1>. QED  BY <1>1, <1>2 DEF Info

\* Some of the chosen pairs fail in a finite number of calls (LinkByName).
LEMMA FailuresCount ==
    ASSUME NEW missing \in SUBSET Chosen
    PROVE  Cardinality(missing) \in Nat
<1>1. IsFiniteSet(Link \X Port)
  BY FiniteAssumption, FS_Product
<1>2. missing \subseteq Link \X Port
  BY DEF Chosen
<1>. QED  BY <1>1, <1>2, FS_Subset, FS_CardinalityType

-----------------------------------------------------------------------------
\* The restore, the route loops and a failed sync leave the inputs as they are.
LEMMA NextInputs == InputsOK /\ [Next]_vars => InputsOK'
<1>. SUFFICES ASSUME InputsOK, [Next]_vars PROVE InputsOK'
  OBVIOUS
<1>1. ASSUME NEW s \in Service, SetService(s) PROVE InputsOK'
  <2>1. PICK info \in Info(s) \cup {Nothing} : serviceMap' = [serviceMap EXCEPT ![s] = info]
    BY <1>1 DEF SetService
  <2>2. endpoints' = endpoints
    BY <1>1 DEF SetService
  <2>. QED  BY <2>1, <2>2 DEF InputsOK, Info
<1>2. ASSUME NEW p \in Port, SetEndpoints(p) PROVE InputsOK'
  BY <1>2 DEF SetEndpoints, InputsOK, Info
<1>3. CASE UNCHANGED inputs
  BY <1>3 DEF inputs, InputsOK, Info
<1>. QED
  BY <1>1, <1>2, <1>3 DEF Next, vars, Restore, RestoreFails, DeleteRoute, AddRoute,
                          Return, Stop, Crash, Start

\* A restore writes rules only for cluster IPs that are addresses.
LEMMA RestoreTable ==
    ASSUME TypeOK, Restore
    PROVE  TableOK'
<1>1. PICK missing \in SUBSET {c \in Chosen : svc[c[2]] = Nothing} :
         IF AnyRules(Chosen, Chosen \ missing)
         THEN /\ services' = {[ip |-> Wanted(p).ip, port |-> p] : p \in Ports(Chosen \ missing)}
              /\ svc' = [p \in Port |->
                           IF p \in Ports(Chosen \ missing) THEN endpoints[p]
                           ELSE IF p \in ActiveSvc(Chosen) THEN {}
                           ELSE Nothing]
              /\ sep' = ActiveSep(Chosen \ missing)
         ELSE UNCHANGED table
  BY DEF Restore
<1>2. CASE ~AnyRules(Chosen, Chosen \ missing)
  BY <1>1, <1>2 DEF TypeOK, TableOK, table, Rule
<1>3. CASE AnyRules(Chosen, Chosen \ missing)
  <2>1. \A p \in Ports(Chosen \ missing) : [ip |-> Wanted(p).ip, port |-> p] \in Rule
    BY ChosenType DEF Ports, Rule
  <2>2. services' \subseteq Rule
    <3>. DEFINE W == Ports(Chosen \ missing)
    <3>1. services' = {[ip |-> Wanted(p).ip, port |-> p] : p \in W}
      BY <1>1, <1>3
    <3>2. \A p \in W : [ip |-> Wanted(p).ip, port |-> p] \in Rule
      BY <2>1
    <3>. HIDE DEF W
    <3>. QED  BY <3>1, <3>2
  <2>3. svc' \in [Port -> {Nothing} \cup (SUBSET Endpoint)]
    BY <1>1, <1>3 DEF TypeOK, InputsOK
  <2>4. sep' \subseteq Port \X Endpoint
    BY <1>1, <1>3 DEF ActiveSep
  <2>. QED  BY <2>2, <2>3, <2>4 DEF TableOK, Rule
<1>. QED  BY <1>2, <1>3

\* The routes and the two lists of cluster IPs stay well formed.
LEMMA NextRoutes ==
    ASSUME TypeOK, [Next]_vars
    PROVE  RoutesOK'
<1>. USE DEF RoutesOK, NewRoute
<1>. RoutesOK
  BY DEF TypeOK
<1>1. CASE Restore
  <2>1. PICK missing : /\ oldIPs' = OldClusterIPs(Chosen)
                       /\ newIPs' = NewClusterIPs(Chosen \ missing)
                       /\ UNCHANGED routes
    BY <1>1 DEF Restore
  <2>2. oldIPs' \subseteq Address
    BY <2>1 DEF OldClusterIPs, TypeOK, TableOK, Rule
  <2>3. newIPs' \subseteq NewRoute
    BY <2>1, ChosenType DEF NewClusterIPs
  <2>. QED  BY <2>1, <2>2, <2>3
<1>2. CASE DeleteRoute
  BY <1>2 DEF DeleteRoute
<1>3. CASE AddRoute
  BY <1>3 DEF AddRoute
<1>4. CASE Crash
  BY <1>4 DEF Crash
<1>5. CASE UNCHANGED <<routes, oldIPs, newIPs>>
  BY <1>5
<1>. QED
  BY <1>1, <1>2, <1>3, <1>4, <1>5 DEF Next, vars, process, SetService, SetEndpoints,
                                      RestoreFails, Return, Stop, Start

\* Where the process is stays well formed.
LEMMA NextProcess ==
    ASSUME ProcessOK, [Next]_vars
    PROVE  ProcessOK'
<1>1. stopping' \in BOOLEAN /\ missed' \in BOOLEAN
  BY DEF ProcessOK, Next, vars, process, SetService, SetEndpoints, Restore, RestoreFails,
         DeleteRoute, AddRoute, Return, Stop, Crash, Start
<1>2. pc' \in {"idle", "due", "routes", "stopped", "down"}
  BY DEF ProcessOK, Next, vars, process, SetService, SetEndpoints, Restore, RestoreFails,
         DeleteRoute, AddRoute, Return, Stop, Crash, Start
<1>3. outcome' \in {"none", "done", "partial", "failed"}
  BY DEF ProcessOK, Next, vars, process, SetService, SetEndpoints, Restore, RestoreFails,
         DeleteRoute, AddRoute, Return, Stop, Crash, Start
<1>4. orderly' \in BOOLEAN
  BY DEF ProcessOK, Next, vars, process, SetService, SetEndpoints, Restore, RestoreFails,
         DeleteRoute, AddRoute, Return, Stop, Crash, Start, Recorded
<1>. QED  BY <1>1, <1>2, <1>3, <1>4 DEF ProcessOK

\* The two counters stay within their bounds.
LEMMA NextCounts ==
    ASSUME CountsOK, [Next]_vars
    PROVE  CountsOK'
<1>1. CASE Restore
  <2>1. PICK missing \in SUBSET Chosen :
           /\ failures + Cardinality(missing) <= MaxFailures
           /\ failures' = failures + Cardinality(missing)
    BY <1>1 DEF Restore
  <2>2. Cardinality(missing) \in Nat
    BY FailuresCount
  <2>3. changes' = changes
    BY <1>1 DEF Restore
  <2>. QED  BY <2>1, <2>2, <2>3, BoundsAssumption DEF CountsOK
<1>2. CASE ~Restore
  BY <1>2, BoundsAssumption DEF CountsOK, Next, vars, SetService, SetEndpoints, RestoreFails,
         DeleteRoute, AddRoute, Return, Stop, Crash, Start
<1>. QED  BY <1>1, <1>2

\* A step of any kind keeps the state well formed.
LEMMA NextType == TypeOK /\ [Next]_vars => TypeOK'
<1>. SUFFICES ASSUME TypeOK, [Next]_vars PROVE TypeOK'
  OBVIOUS
<1>1. TableOK'
  <2>1. CASE Restore
    BY <2>1, RestoreTable
  <2>2. CASE ~Restore
    BY <2>2, OthersKeepTable DEF TableUnchanged, TypeOK, TableOK, table, Rule
  <2>. QED  BY <2>1, <2>2
<1>2. InputsOK' /\ RoutesOK' /\ ProcessOK' /\ CountsOK'
  BY NextInputs, NextRoutes, NextProcess, NextCounts DEF TypeOK
<1>. QED  BY <1>1, <1>2 DEF TypeOK

\* The first state is well formed: the table and the routes are empty.
LEMMA InitType == Init => TypeOK
<1>. SUFFICES ASSUME Init PROVE TypeOK
  OBVIOUS
<1>1. InputsOK
  BY DEF Init, InputsOK
<1>2. TableOK
  BY DEF Init, TableOK
<1>3. RoutesOK
  BY DEF Init, RoutesOK, NewRoute
<1>4. ProcessOK
  BY DEF Init, ProcessOK
<1>5. CountsOK
  BY BoundsAssumption DEF Init, CountsOK
<1>. QED  BY <1>1, <1>2, <1>3, <1>4, <1>5 DEF TypeOK

(***************************************************************************)
(* The state is well formed for every instance: in particular no rule and  *)
(* no route is ever made for the cluster IP "None" (line 550 of            *)
(* server.go).                                                             *)
(***************************************************************************)
THEOREM TypeCorrect == Spec => []TypeOK
BY InitType, NextType, PTL DEF Spec

-----------------------------------------------------------------------------
(***************************************************************************)
(* What a restore that writes does to each port.                           *)
(***************************************************************************)
\* The table after a restore, for the pairs that were written.
Written(missing) ==
    /\ services' = {[ip |-> Wanted(p).ip, port |-> p] : p \in Ports(Chosen \ missing)}
    /\ svc' = [p \in Port |->
                 IF p \in Ports(Chosen \ missing) THEN endpoints[p]
                 ELSE IF p \in ActiveSvc(Chosen) THEN {}
                 ELSE Nothing]
    /\ sep' = ActiveSep(Chosen \ missing)

\* A restore writes the new table, or nothing (FinalizeRules).
LEMMA RestoreCases ==
    ASSUME Restore
    PROVE  \E missing \in SUBSET {c \in Chosen : svc[c[2]] = Nothing} :
             /\ missed' = (missing # {})
             /\ \/ AnyRules(Chosen, Chosen \ missing) /\ Written(missing)
                \/ ~AnyRules(Chosen, Chosen \ missing) /\ TableUnchanged
BY DEF Restore, Written, TableUnchanged

\* The chosen ports are ports.
LEMMA PortsOfPairs ==
    ASSUME NEW pairs \in SUBSET Chosen
    PROVE  Ports(pairs) \subseteq Port
BY DEF Ports, Chosen

\* After a restore every jump has its target and no chain is left over.
LEMMA WrittenResolves ==
    ASSUME TypeOK, NEW missing \in SUBSET Chosen, Written(missing)
    PROVE  JumpsResolve'
<1>. DEFINE W == Ports(Chosen \ missing)
<1>1. W \subseteq Port
  BY PortsOfPairs
<1>2. \A p \in W : svc'[p] = endpoints[p] /\ endpoints[p] \in SUBSET Endpoint
  BY <1>1 DEF Written, TypeOK, InputsOK
<1>3. \A p \in Port : svc'[p] # Nothing => svc'[p] = {} \/ p \in W
  BY DEF Written
<1>4. \A c : c \in sep' <=> c \in Port \X Endpoint /\ c[1] \in W /\ c[2] \in endpoints[c[1]]
  BY DEF Written, ActiveSep
<1>5. \A r \in services' : r.port \in W
  <2>1. services' = {[ip |-> Wanted(p).ip, port |-> p] : p \in W}
    BY DEF Written
  <2>. HIDE DEF W
  <2>. QED  BY <2>1
<1>. HIDE DEF W
<1>6. \A r \in services' : svc'[r.port] # Nothing
  BY <1>2, <1>5, NothingAssumption
<1>7. ASSUME NEW p \in Port, svc'[p] # Nothing, NEW e \in svc'[p] PROVE <<p, e>> \in sep'
  BY <1>2, <1>3, <1>4, <1>7
<1>8. \A c \in sep' : svc'[c[1]] # Nothing /\ c[2] \in svc'[c[1]]
  BY <1>1, <1>2, <1>4, NothingAssumption
<1>. QED  BY <1>6, <1>7, <1>8 DEF JumpsResolve

(***************************************************************************)
(* Every table a sync restores resolves: each jump has its target chain    *)
(* and no MULTUS-SEP chain is left that nothing jumps to.                  *)
(***************************************************************************)
THEOREM JumpsAlwaysResolve == Spec => []JumpsResolve
<1>1. Init => JumpsResolve
  BY DEF Init, JumpsResolve
<1>2. TypeOK /\ JumpsResolve /\ [Next]_vars => JumpsResolve'
  <2>. SUFFICES ASSUME TypeOK, JumpsResolve, [Next]_vars PROVE JumpsResolve'
    OBVIOUS
  <2>1. CASE TableUnchanged
    BY <2>1 DEF TableUnchanged, table, JumpsResolve
  <2>2. CASE Restore
    BY <2>1, <2>2, RestoreCases, WrittenResolves
  <2>. QED  BY <2>1, <2>2, OthersKeepTable
<1>. QED  BY <1>1, <1>2, TypeCorrect, PTL DEF Spec

-----------------------------------------------------------------------------
\* Whether p is forwarded at all depends on what is wanted of p alone (line 550).
IsChosen(p) ==
    /\ Wanted(p) # Nothing
    /\ Wanted(p).ip # Headless
    /\ \E l \in Link : l \in Wanted(p).links

\* The ports the two loops keep, one by one.
LEMMA PortsOfChosen ==
    ASSUME NEW p \in Port
    PROVE  p \in Ports(Chosen) <=> IsChosen(p)
<1>1. ASSUME IsChosen(p) PROVE p \in Ports(Chosen)
  <2>1. PICK l \in Link : l \in Wanted(p).links
    BY <1>1 DEF IsChosen
  <2>2. <<l, p>> \in Chosen
    BY <1>1, <2>1 DEF IsChosen, Chosen
  <2>3. <<l, p>>[2] = p
    OBVIOUS
  <2>. QED  BY <2>2, <2>3 DEF Ports
<1>2. ASSUME p \in Ports(Chosen) PROVE IsChosen(p)
  <2>1. PICK c \in Chosen : c[2] = p
    BY <1>2 DEF Ports
  <2>. QED  BY <2>1 DEF Chosen, IsChosen
<1>. QED  BY <1>1, <1>2

\* The same in the next state.
LEMMA PortsOfChosenNext ==
    ASSUME NEW p \in Port
    PROVE  p \in Ports(Chosen)' <=> IsChosen(p)'
<1>1. ASSUME IsChosen(p)' PROVE p \in Ports(Chosen)'
  <2>1. PICK l \in Link : l \in Wanted(p)'.links
    BY <1>1 DEF IsChosen
  <2>2. <<l, p>> \in Chosen'
    BY <1>1, <2>1 DEF IsChosen, Chosen
  <2>3. <<l, p>>[2] = p
    OBVIOUS
  <2>. QED  BY <2>2, <2>3 DEF Ports
<1>2. ASSUME p \in Ports(Chosen)' PROVE IsChosen(p)'
  <2>1. PICK c \in Chosen' : c[2] = p
    BY <1>2 DEF Ports
  <2>. QED  BY <2>1 DEF Chosen, IsChosen
<1>. QED  BY <1>1, <1>2

\* A step that changes neither the wish for p nor the table keeps p forwarded.
LEMMA ForwardedStays ==
    ASSUME NEW p \in Port, Forwarded(p), TableUnchanged,
           Wanted(p)' = Wanted(p), endpoints'[p] = endpoints[p]
    PROVE  Forwarded(p)'
<1>1. p \in Ports(Chosen)' <=> p \in Ports(Chosen)
  BY PortsOfChosen, PortsOfChosenNext DEF IsChosen
<1>2. services' = services /\ svc' = svc /\ sep' = sep
  BY DEF TableUnchanged, table
<1>. QED  BY <1>1, <1>2 DEF Forwarded

\* A port whose every chosen pair was written is forwarded after the restore.
LEMMA WrittenForwards ==
    ASSUME InputsOK, NEW missing \in SUBSET Chosen, Written(missing),
           NEW p \in Port, Wanted(p)' = Wanted(p), endpoints'[p] = endpoints[p],
           p \in Ports(Chosen) => p \in Ports(Chosen \ missing)
    PROVE  Forwarded(p)'
<1>. DEFINE W == Ports(Chosen \ missing)
<1>1. p \in Ports(Chosen)' <=> p \in Ports(Chosen)
  BY PortsOfChosen, PortsOfChosenNext DEF IsChosen
<1>2. W \subseteq Ports(Chosen)
  BY DEF Ports
<1>3. services' = {[ip |-> Wanted(q).ip, port |-> q] : q \in W}
  BY DEF Written
<1>4. \A c : c \in sep' <=> c \in Port \X Endpoint /\ c[1] \in W /\ c[2] \in endpoints[c[1]]
  BY DEF Written, ActiveSep
<1>5. svc'[p] = IF p \in W THEN endpoints[p] ELSE IF p \in Ports(Chosen) THEN {} ELSE Nothing
  BY DEF Written, ActiveSvc
<1>6. p \in Ports(Chosen) => p \in W
  OBVIOUS
<1>. HIDE DEF W
<1>7. CASE p \in Ports(Chosen)
  <2>1. {r \in services' : r.port = p} = {[ip |-> Wanted(p).ip, port |-> p]}
    BY <1>3, <1>6, <1>7
  <2>2. svc'[p] = endpoints[p]
    BY <1>5, <1>6, <1>7
  <2>3. {c \in sep' : c[1] = p} = {p} \X endpoints[p]
    <3>1. endpoints[p] \in SUBSET Endpoint
      BY DEF InputsOK
    <3>2. \A c : c \in sep' /\ c[1] = p <=> c \in {p} \X endpoints[p]
      BY <1>4, <1>6, <1>7, <3>1
    <3>. QED  BY <3>2
  <2>. QED  BY <1>1, <1>7, <2>1, <2>2, <2>3 DEF Forwarded
<1>8. CASE p \notin Ports(Chosen)
  <2>1. p \notin W
    BY <1>2, <1>8
  <2>2. \A r \in services' : r.port # p
    BY <1>3, <2>1
  <2>3. svc'[p] = Nothing
    BY <1>5, <1>8, <2>1
  <2>4. \A c \in sep' : c[1] # p
    BY <1>4, <2>1
  <2>. QED  BY <1>1, <1>8, <2>2, <2>3, <2>4 DEF Forwarded
<1>. QED  BY <1>7, <1>8

-----------------------------------------------------------------------------
\* A port that is forwarded has its chain: LinkByName is not called for it.
LEMMA ForwardedIsWritten ==
    ASSUME InputsOK, NEW missing \in SUBSET {c \in Chosen : svc[c[2]] = Nothing},
           NEW p \in Port, Forwarded(p), p \in Ports(Chosen)
    PROVE  p \in Ports(Chosen \ missing)
<1>1. svc[p] # Nothing
  BY NothingAssumption DEF Forwarded, InputsOK
<1>2. PICK c \in Chosen : c[2] = p
  BY DEF Ports
<1>3. c \notin missing
  BY <1>1, <1>2
<1>. QED  BY <1>2, <1>3 DEF Ports

(***************************************************************************)
(* No step interrupts a port that is forwarded as it should be and whose   *)
(* Service and endpoints stay the same: not a sync for another Service,    *)
(* nor a failed call, a crash or a restart.                                *)
(***************************************************************************)
THEOREM NoInterruption == Spec => NeverInterrupted
<1>1. TypeOK /\ [Next]_vars => [\A p \in Port : Undisturbed(p)]_vars
  <2>. SUFFICES ASSUME TypeOK, [Next]_vars, NEW p \in Port, Forwarded(p),
                       Wanted(p)' = Wanted(p), endpoints'[p] = endpoints[p]
                PROVE  Forwarded(p)'
    BY DEF Undisturbed
  <2>1. CASE TableUnchanged
    BY <2>1, ForwardedStays
  <2>2. CASE Restore
    <3>1. PICK missing \in SUBSET {c \in Chosen : svc[c[2]] = Nothing} :
             \/ Written(missing)
             \/ TableUnchanged
      BY <2>2, RestoreCases
    <3>2. CASE Written(missing)
      <4>1. p \in Ports(Chosen) => p \in Ports(Chosen \ missing)
        BY ForwardedIsWritten DEF TypeOK
      <4>2. missing \in SUBSET Chosen
        OBVIOUS
      <4>. QED  BY <3>2, <4>1, <4>2, WrittenForwards DEF TypeOK
    <3>. QED  BY <2>1, <3>1, <3>2
  <2>. QED  BY <2>1, <2>2, OthersKeepTable
<1>. QED  BY <1>1, TypeCorrect, PTL DEF Spec, NeverInterrupted

-----------------------------------------------------------------------------
\* With nothing chosen and nothing to restore there is nothing installed.
LEMMA NothingInstalled ==
    ASSUME TypeOK, JumpsResolve, ~AnyRules(Chosen, Chosen), NEW p \in Port
    PROVE  Forwarded(p)
<1>1. Chosen = {} /\ ObsoleteSvc(Chosen) = {} /\ ObsoleteSep(Chosen) = {}
  BY DEF AnyRules
<1>2. Ports(Chosen) = {}
  BY <1>1 DEF Ports
<1>3. \A q \in Port : svc[q] = Nothing
  BY <1>1, <1>2 DEF ObsoleteSvc, ActiveSvc
<1>4. services = {}
  BY <1>3 DEF JumpsResolve, TypeOK, TableOK, Rule
<1>5. sep = {}
  BY <1>1, <1>2 DEF ObsoleteSep, ActiveSep
<1>. QED  BY <1>2, <1>3, <1>4, <1>5 DEF Forwarded

(***************************************************************************)
(* The strengthening RulesExact needs: while the routes are handled, as    *)
(* long as no call of this sync failed, the rules are exact already.       *)
(***************************************************************************)
ExactInv ==
    (pc = "routes" /\ ~missed) \/ outcome = "done" => \A p \in Port : Forwarded(p)

\* A restore in which every link was found makes the rules exact.
LEMMA RestoreExact ==
    ASSUME TypeOK, JumpsResolve, Restore, ~missed', NEW p \in Port
    PROVE  Forwarded(p)'
<1>1. Wanted(p)' = Wanted(p) /\ endpoints'[p] = endpoints[p]
  BY DEF Restore, inputs, Wanted
<1>2. \/ AnyRules(Chosen, Chosen) /\ Written({})
      \/ ~AnyRules(Chosen, Chosen) /\ TableUnchanged
  <2>1. PICK missing \in SUBSET {c \in Chosen : svc[c[2]] = Nothing} :
           /\ missed' = (missing # {})
           /\ \/ AnyRules(Chosen, Chosen \ missing) /\ Written(missing)
              \/ ~AnyRules(Chosen, Chosen \ missing) /\ TableUnchanged
    BY RestoreCases
  <2>2. missing = {}
    BY <2>1
  <2>3. Chosen \ {} = Chosen
    OBVIOUS
  <2>. QED  BY <2>1, <2>2, <2>3
<1>3. CASE Written({})
  <2>1. Chosen \ {} = Chosen
    OBVIOUS
  <2>. QED  BY <1>1, <1>3, <2>1, WrittenForwards DEF TypeOK
<1>4. CASE ~AnyRules(Chosen, Chosen) /\ TableUnchanged
  BY <1>1, <1>4, NothingInstalled, ForwardedStays
<1>. QED  BY <1>2, <1>3, <1>4

\* No other step leaves the rules inexact while the invariant's premise holds.
LEMMA OthersExact ==
    ASSUME ExactInv, [Next]_vars, ~Restore
    PROVE  ExactInv'
<1>. SUFFICES ASSUME (pc' = "routes" /\ ~missed') \/ outcome' = "done", NEW p \in Port
              PROVE  Forwarded(p)'
  BY DEF ExactInv
<1>1. TableUnchanged
  BY OthersKeepTable
<1>2. UNCHANGED inputs /\ UNCHANGED stopping
  BY DEF Next, vars, inputs, process, SetService, SetEndpoints, RestoreFails, DeleteRoute,
         AddRoute, Return, Stop, Crash, Start
<1>3. (pc = "routes" /\ ~missed) \/ outcome = "done"
  BY DEF Next, vars, process, SetService, SetEndpoints, RestoreFails, DeleteRoute,
         AddRoute, Return, Stop, Crash, Start
<1>4. Wanted(p)' = Wanted(p) /\ endpoints'[p] = endpoints[p]
  BY <1>2 DEF inputs, Wanted
<1>. QED  BY <1>1, <1>3, <1>4, ForwardedStays DEF ExactInv

(***************************************************************************)
(* A sync in which every call succeeded leaves exactly the wanted rules,   *)
(* whatever it found installed.                                            *)
(***************************************************************************)
THEOREM SyncIsExact == Spec => []RulesExact
<1>1. Init => ExactInv
  BY DEF Init, ExactInv
<1>2. TypeOK /\ JumpsResolve /\ ExactInv /\ [Next]_vars => ExactInv'
  <2>. SUFFICES ASSUME TypeOK, JumpsResolve, ExactInv, [Next]_vars PROVE ExactInv'
    OBVIOUS
  <2>1. CASE Restore
    <3>1. outcome' = "none"
      BY <2>1 DEF Restore
    <3>. QED  BY <2>1, <3>1, RestoreExact DEF ExactInv
  <2>2. CASE ~Restore
    BY <2>2, OthersExact
  <2>. QED  BY <2>1, <2>2
<1>3. ExactInv => RulesExact
  BY DEF ExactInv, RulesExact
<1>. QED  BY <1>1, <1>2, <1>3, TypeCorrect, JumpsAlwaysResolve, PTL DEF Spec

-----------------------------------------------------------------------------
(***************************************************************************)
(* The routes.  In an orderly history a cluster IP of an installed rule is *)
(* still that of its Service, unless the Service is gone or unattached;    *)
(* every installed chain has its rule; and the routes that will be there   *)
(* when the sync has handled its two lists are those the rules need.       *)
(***************************************************************************)
\* Cluster IPs are unique among the Services that exist.
UniqueIPs ==
    \A s, t \in Service :
        /\ serviceMap[s] # Nothing /\ serviceMap[t] # Nothing
        /\ serviceMap[s].ip = serviceMap[t].ip /\ serviceMap[s].ip # Headless
        => s = t

\* Rules of one restore for one cluster IP are of one Service.
OneServicePerIP ==
    \A q, r \in services : q.ip = r.ip => ServiceOf[q.port] = ServiceOf[r.port]

\* Rule r is one its Service, as it is now, still stands for.
Current(r) ==
    LET info == serviceMap[ServiceOf[r.port]]
    IN  info = Nothing \/ info.links = {} \/ (info.ip = r.ip /\ r.port \in info.ports)

\* The address has a route now that stays, or is to get one.
Routed(a) ==
    IF pc = "routes"
    THEN \/ routes[a] # Nothing /\ a \notin oldIPs
         \/ \E n \in newIPs : n.ip = a
    ELSE routes[a] # Nothing

Matched(a) == \E r \in services : r.ip = a

RouteInv ==
    orderly =>
      /\ ~missed
      /\ \A r \in services : Current(r)
      /\ \A p \in Port : svc[p] # Nothing => \E r \in services : r.port = p
      /\ \A a \in Address : Routed(a) <=> Matched(a)

-----------------------------------------------------------------------------
\* A change of a Service keeps the cluster IPs unique (the API server does).
LEMMA NextUnique == TypeOK /\ UniqueIPs /\ [Next]_vars => UniqueIPs'
<1>. SUFFICES ASSUME TypeOK, UniqueIPs, [Next]_vars PROVE UniqueIPs'
  OBVIOUS
<1>1. ASSUME NEW s \in Service, SetService(s) PROVE UniqueIPs'
  <2>1. PICK info \in Info(s) \cup {Nothing} :
           /\ info # Nothing /\ info.ip # Headless =>
                \A o \in Service \ {s} : serviceMap[o] # Nothing => serviceMap[o].ip # info.ip
           /\ serviceMap' = [serviceMap EXCEPT ![s] = info]
    BY <1>1 DEF SetService
  <2>2. DOMAIN serviceMap = Service
    BY DEF TypeOK, InputsOK
  <2>3. serviceMap'[s] = info /\ \A o \in Service \ {s} : serviceMap'[o] = serviceMap[o]
    BY <2>1, <2>2
  <2>. QED  BY <2>1, <2>3 DEF UniqueIPs
<1>2. CASE UNCHANGED serviceMap
  BY <1>2 DEF UniqueIPs
<1>. QED
  BY <1>1, <1>2 DEF Next, vars, inputs, SetEndpoints, Restore, RestoreFails, DeleteRoute,
                    AddRoute, Return, Stop, Crash, Start

\* The rules of one restore come from one reading of the Services.
LEMMA NextOneService ==
    TypeOK /\ UniqueIPs /\ OneServicePerIP /\ [Next]_vars => OneServicePerIP'
<1>. SUFFICES ASSUME TypeOK, UniqueIPs, OneServicePerIP, [Next]_vars PROVE OneServicePerIP'
  OBVIOUS
<1>1. CASE TableUnchanged
  BY <1>1 DEF TableUnchanged, table, OneServicePerIP
<1>2. ASSUME NEW missing \in SUBSET Chosen, Written(missing) PROVE OneServicePerIP'
  <2>. DEFINE W == Ports(Chosen \ missing)
  <2>1. services' = {[ip |-> Wanted(p).ip, port |-> p] : p \in W}
    BY <1>2 DEF Written
  <2>2. \A p \in W : /\ p \in Port /\ ServiceOf[p] \in Service
                     /\ serviceMap[ServiceOf[p]] # Nothing
                     /\ Wanted(p) = serviceMap[ServiceOf[p]]
                     /\ Wanted(p).ip # Headless
    BY PortsAssumption DEF Ports, Chosen, Wanted
  <2>. HIDE DEF W
  <2>. QED  BY <2>1, <2>2 DEF OneServicePerIP, UniqueIPs
<1>3. CASE Restore
  BY <1>1, <1>2, <1>3, RestoreCases
<1>. QED  BY <1>1, <1>3, OthersKeepTable

-----------------------------------------------------------------------------
\* What a restore that found every link writes and leaves for the routes.
LEMMA GoodRestore ==
    ASSUME TypeOK, JumpsResolve, Restore, ~missed'
    PROVE  /\ services' = {[ip |-> Wanted(p).ip, port |-> p] : p \in Ports(Chosen)}
           /\ \A p \in Port : svc'[p] # Nothing => p \in Ports(Chosen)
           /\ oldIPs' = OldClusterIPs(Chosen)
           /\ newIPs' = NewClusterIPs(Chosen)
<1>1. PICK missing \in SUBSET {c \in Chosen : svc[c[2]] = Nothing} :
         /\ missed' = (missing # {})
         /\ \/ AnyRules(Chosen, Chosen \ missing) /\ Written(missing)
            \/ ~AnyRules(Chosen, Chosen \ missing) /\ TableUnchanged
         /\ oldIPs' = OldClusterIPs(Chosen)
         /\ newIPs' = NewClusterIPs(Chosen \ missing)
  BY DEF Restore, Written, TableUnchanged
<1>2. missing = {} /\ Chosen \ missing = Chosen
  BY <1>1
<1>3. newIPs' = NewClusterIPs(Chosen)
  BY <1>1, <1>2
<1>4. CASE Written(missing)
  <2>1. services' = {[ip |-> Wanted(p).ip, port |-> p] : p \in Ports(Chosen)}
    BY <1>2, <1>4 DEF Written
  <2>2. \A p \in Port : svc'[p] # Nothing => p \in Ports(Chosen)
    BY <1>2, <1>4 DEF Written, ActiveSvc
  <2>. QED  BY <1>1, <1>3, <2>1, <2>2
<1>5. CASE ~AnyRules(Chosen, Chosen) /\ TableUnchanged
  <2>1. Chosen = {} /\ ObsoleteSvc(Chosen) = {}
    BY <1>5 DEF AnyRules
  <2>2. Ports(Chosen) = {}
    BY <2>1 DEF Ports
  <2>3. \A q \in Port : svc[q] = Nothing
    BY <2>1, <2>2 DEF ObsoleteSvc, ActiveSvc
  <2>4. services = {}
    BY <2>3 DEF JumpsResolve, TypeOK, TableOK, Rule
  <2>5. services' = services /\ svc' = svc
    BY <1>5 DEF TableUnchanged, table
  <2>. QED  BY <1>1, <1>3, <2>2, <2>3, <2>4, <2>5
<1>. QED  BY <1>1, <1>2, <1>4, <1>5

\* A restore in an orderly history: the lists it leaves make up for the change.
LEMMA RestoreRoutes ==
    ASSUME TypeOK, JumpsResolve, OneServicePerIP, RouteInv, orderly, Restore, ~missed'
    PROVE  RouteInv'
<1>. DEFINE W == Ports(Chosen)
<1>1. /\ services' = {[ip |-> Wanted(p).ip, port |-> p] : p \in W}
      /\ \A p \in Port : svc'[p] # Nothing => p \in W
      /\ oldIPs' = OldClusterIPs(Chosen)
      /\ newIPs' = NewClusterIPs(Chosen)
  BY GoodRestore
<1>2. /\ pc # "routes" /\ pc' = "routes"
      /\ serviceMap' = serviceMap /\ routes' = routes
  BY DEF Restore, inputs
<1>3. \A p \in W : /\ p \in Port /\ ServiceOf[p] \in Service
                   /\ Wanted(p) = serviceMap[ServiceOf[p]]
                   /\ Wanted(p) # Nothing /\ p \in Wanted(p).ports
                   /\ Wanted(p).ip # Headless /\ Wanted(p).links # {}
                   /\ ~stopping
  BY PortsAssumption DEF Ports, Chosen, Wanted
<1>4. \A r \in services : r.port \in Port /\ svc[r.port] # Nothing /\ r.ip \in Address
  BY DEF JumpsResolve, TypeOK, TableOK, Rule
<1>5. oldIPs' = {r.ip : r \in {q \in services : q.port \notin W}}
  <2>1. {q \in services : q.port \in ObsoleteSvc(Chosen)} = {q \in services : q.port \notin W}
    BY <1>4 DEF ObsoleteSvc, ActiveSvc
  <2>. QED  BY <1>1, <2>1 DEF OldClusterIPs
<1>6. \A a \in Address : (\E n \in newIPs' : n.ip = a)
                         <=> \E p \in W : svc[p] = Nothing /\ Wanted(p).ip = a
  <2>1. newIPs' = {[ip |-> Wanted(c[2]).ip, link |-> c[1]] :
                     c \in {d \in Chosen : svc[d[2]] = Nothing}}
    BY <1>1 DEF NewClusterIPs
  <2>2. \A c \in Chosen : c[2] \in W
    BY DEF Ports
  <2>3. \A p \in W : \E c \in Chosen : c[2] = p
    BY DEF Ports
  <2>. HIDE DEF W
  <2>4. ASSUME NEW n \in newIPs'
        PROVE  \E p \in W : svc[p] = Nothing /\ Wanted(p).ip = n.ip
    BY <2>1, <2>2
  <2>5. ASSUME NEW p \in W, svc[p] = Nothing
        PROVE  \E n \in newIPs' : n.ip = Wanted(p).ip
    <3>1. PICK c \in Chosen : c[2] = p
      BY <2>3
    <3>2. [ip |-> Wanted(c[2]).ip, link |-> c[1]] \in newIPs'
      BY <2>1, <2>5, <3>1
    <3>. QED  BY <3>1, <3>2
  <2>. QED  BY <2>4, <2>5
<1>7. \A r \in services, p \in W : r.port = p => r.ip = Wanted(p).ip
  BY <1>3 DEF RouteInv, Current
\* A port of the same Service as a chosen one, with a rule, is chosen.
<1>8. \A q \in services, p \in W :
         ServiceOf[q.port] = ServiceOf[p] => q.port \in W
  <2>. SUFFICES ASSUME NEW q \in services, NEW p \in W, ServiceOf[q.port] = ServiceOf[p]
                PROVE  IsChosen(q.port)
    BY <1>4, PortsOfChosen
  <2>1. serviceMap[ServiceOf[p]].links # {}
    BY <1>3
  <2>2. q.port \in serviceMap[ServiceOf[p]].ports
    BY <1>3, <2>1 DEF RouteInv, Current
  <2>3. Wanted(q.port) = serviceMap[ServiceOf[p]]
    BY <1>3, <2>2 DEF Wanted
  <2>4. serviceMap[ServiceOf[p]] \in Info(ServiceOf[p])
    BY <1>3 DEF TypeOK, InputsOK
  <2>. QED  BY <1>3, <2>1, <2>3, <2>4 DEF IsChosen, Info
<1>. HIDE DEF W
<1>9. ~missed'
  OBVIOUS
<1>10. \A r \in services' : Current(r)'
  BY <1>1, <1>2, <1>3 DEF Current
<1>11. \A p \in Port : svc'[p] # Nothing => \E r \in services' : r.port = p
  <2>1. \A p \in W : [ip |-> Wanted(p).ip, port |-> p] \in services'
    BY <1>1
  <2>. QED  BY <1>1, <2>1
<1>12. ASSUME NEW a \in Address PROVE Routed(a)' <=> Matched(a)'
  <2>1. Matched(a)' <=> \E p \in W : Wanted(p).ip = a
    <3>1. \A p \in W : [ip |-> Wanted(p).ip, port |-> p] \in services'
      BY <1>1
    <3>2. \A r \in services' : \E p \in W : r.ip = Wanted(p).ip
      BY <1>1
    <3>. QED  BY <3>1, <3>2 DEF Matched
  <2>2. routes[a] # Nothing <=> \E r \in services : r.ip = a
    BY <1>2 DEF RouteInv, Routed, Matched
  <2>3. Routed(a)' <=> \/ routes[a] # Nothing /\ a \notin oldIPs'
                       \/ \E p \in W : svc[p] = Nothing /\ Wanted(p).ip = a
    BY <1>2, <1>6 DEF Routed
  <2>4. ASSUME NEW p \in W, Wanted(p).ip = a, svc[p] # Nothing
        PROVE  routes[a] # Nothing /\ a \notin oldIPs'
    <3>1. PICK r \in services : r.port = p
      BY <1>3, <2>4 DEF RouteInv
    <3>2. r.ip = a
      BY <1>7, <2>4, <3>1
    <3>3. \A q \in services : q.ip = a => q.port \in W
      BY <1>8, <3>1, <3>2 DEF OneServicePerIP
    <3>. QED  BY <1>5, <2>2, <3>2, <3>1, <3>3
  <2>5. ASSUME routes[a] # Nothing, a \notin oldIPs'
        PROVE  \E p \in W : Wanted(p).ip = a
    <3>1. PICK r \in services : r.ip = a
      BY <2>2, <2>5
    <3>2. r.port \in W
      BY <1>5, <2>5, <3>1
    <3>. QED  BY <1>7, <3>1, <3>2
  <2>. QED  BY <2>1, <2>3, <2>4, <2>5
<1>. QED  BY <1>9, <1>10, <1>11, <1>12 DEF RouteInv

\* Handling one address changes nothing about which addresses end up routed.
LEMMA OthersRoutes ==
    ASSUME TypeOK, RouteInv, orderly, Steady, [Next]_vars, ~Restore
    PROVE  RouteInv'
<1>1. services' = services /\ svc' = svc
  BY OthersKeepTable DEF TableUnchanged, table
<1>2. ~missed'
  BY DEF Steady
<1>3. \A r \in services' : Current(r)'
  BY <1>1 DEF Steady, Current, RouteInv
<1>4. \A p \in Port : svc'[p] # Nothing => \E r \in services' : r.port = p
  BY <1>1 DEF RouteInv
<1>5. ASSUME NEW a \in Address PROVE Routed(a)' <=> Routed(a)
  <2>. USE DEF Routed
  <2>1. CASE UNCHANGED routes /\ pc # "routes" /\ pc' # "routes"
    BY <2>1
  <2>2. CASE DeleteRoute
    <3>1. pc = "routes" /\ pc' = "routes" /\ newIPs' = newIPs
      BY <2>2 DEF DeleteRoute
    <3>2. PICK b \in oldIPs : oldIPs' = oldIPs \ {b} /\ routes' = [routes EXCEPT ![b] = Nothing]
      BY <1>2, <2>2 DEF DeleteRoute
    <3>3. routes \in [Address -> Link \cup {Nothing}]
      BY DEF TypeOK, RoutesOK
    <3>. QED  BY <3>1, <3>2, <3>3
  <2>3. CASE AddRoute
    <3>1. pc = "routes" /\ pc' = "routes" /\ oldIPs = {} /\ oldIPs' = {}
      BY <2>3 DEF AddRoute
    <3>2. PICK n \in newIPs : /\ newIPs' = newIPs \ {n}
                              /\ routes' = IF routes[n.ip] = Nothing
                                           THEN [routes EXCEPT ![n.ip] = n.link] ELSE routes
      BY <1>2, <2>3 DEF AddRoute
    <3>3. n.ip \in Address /\ n.link \in Link
      BY DEF TypeOK, RoutesOK, NewRoute
    <3>4. routes \in [Address -> Link \cup {Nothing}]
      BY DEF TypeOK, RoutesOK
    <3>5. routes'[n.ip] # Nothing
      BY <3>2, <3>3, <3>4, NothingAssumption
    <3>6. a # n.ip => routes'[a] = routes[a]
      BY <3>2, <3>4
    <3>. QED  BY <3>1, <3>2, <3>5, <3>6
  <2>4. CASE Return
    BY <2>4 DEF Return
  <2>5. CASE UNCHANGED <<routes, pc, oldIPs, newIPs>>
    BY <2>5
  <2>. QED
    BY <2>1, <2>2, <2>3, <2>4, <2>5 DEF Next, vars, process, SetService, SetEndpoints,
                                        RestoreFails, Stop, Crash, Start, Steady
<1>6. \A a \in Address : Routed(a)' <=> Matched(a)'
  BY <1>1, <1>5 DEF RouteInv, Matched
<1>. QED  BY <1>2, <1>3, <1>4, <1>6 DEF RouteInv

\* An orderly step keeps the invariant, a disorderly one ends what it says.
LEMMA NextRouteInv ==
    TypeOK /\ JumpsResolve /\ OneServicePerIP /\ RouteInv /\ [Next]_vars => RouteInv'
<1>. SUFFICES ASSUME TypeOK, JumpsResolve, OneServicePerIP, RouteInv, [Next]_vars
              PROVE  RouteInv'
  OBVIOUS
<1>1. CASE UNCHANGED vars
  BY <1>1 DEF vars, inputs, table, process, RouteInv, Current, Routed, Matched
<1>2. CASE Next
  <2>1. orderly' = (orderly /\ Steady)
    BY <1>2 DEF Next, Recorded, SetService, SetEndpoints, Restore, RestoreFails, DeleteRoute,
                AddRoute, Return, Stop, Crash, Start
  <2>2. CASE ~orderly'
    BY <2>2 DEF RouteInv
  <2>3. CASE orderly'
    BY <2>1, <2>3, RestoreRoutes, OthersRoutes DEF Steady
  <2>. QED  BY <2>2, <2>3
<1>. QED  BY <1>1, <1>2

\* What the routes need is true at the start.
LEMMA InitRoutes == Init => UniqueIPs /\ OneServicePerIP /\ RouteInv
BY DEF Init, UniqueIPs, OneServicePerIP, RouteInv, Current, Routed, Matched

\* A sync that is done has handled its two lists.
DoneInv == outcome = "done" => pc # "routes"

\* Only Return calls a sync done.
LEMMA NextDone == DoneInv /\ [Next]_vars => DoneInv'
BY DEF DoneInv, Next, vars, process, SetService, SetEndpoints, Restore, RestoreFails,
       DeleteRoute, AddRoute, Return, Stop, Crash, Start

(***************************************************************************)
(* After a sync that went well a cluster IP has a route exactly when some  *)
(* rule matches it, for any number of orderly syncs, stops and restarts    *)
(* (OldClusterIPs and NewClusterIPs).                                      *)
(***************************************************************************)
THEOREM RoutesAreRight == Spec => []RoutesFollow
<1>1. Init => DoneInv
  BY DEF Init, DoneInv
<1>2. RouteInv /\ DoneInv => RoutesFollow
  BY DEF RouteInv, DoneInv, RoutesFollow, Routed, Matched
<1>. QED
  BY <1>1, <1>2, InitRoutes, NextUnique, NextOneService, NextRouteInv, NextDone, TypeCorrect,
     JumpsAlwaysResolve, PTL DEF Spec

\* A process has stopped only after its service map was cleared.
StoppedInv == pc = "stopped" => stopping

\* Return stops the process only when stopping.
LEMMA NextStopped == StoppedInv /\ [Next]_vars => StoppedInv'
BY DEF StoppedInv, Next, vars, process, SetService, SetEndpoints, Restore, RestoreFails,
       DeleteRoute, AddRoute, Return, Stop, Crash, Start

(***************************************************************************)
(* Run leaves no rule and no chain of a port behind when it stops, and no  *)
(* route if the history was orderly.                                       *)
(***************************************************************************)
THEOREM StopCleans == Spec => []StopsClean
<1>1. Init => StoppedInv
  BY DEF Init, StoppedInv
<1>2. TypeOK /\ StoppedInv /\ RulesExact /\ RoutesFollow => StopsClean
  <2>. SUFFICES ASSUME TypeOK, StoppedInv, RulesExact, RoutesFollow, pc = "stopped",
                       outcome = "done"
                PROVE  /\ services = {} /\ sep = {}
                       /\ \A p \in Port : svc[p] = Nothing
                       /\ orderly => \A a \in Address : routes[a] = Nothing
    BY DEF StopsClean
  <2>1. Ports(Chosen) = {}
    BY DEF StoppedInv, Ports, Chosen, Wanted
  <2>2. \A p \in Port : /\ \A r \in services : r.port # p
                        /\ svc[p] = Nothing
                        /\ \A c \in sep : c[1] # p
    BY <2>1 DEF RulesExact, Forwarded
  <2>3. services = {} /\ sep = {}
    BY <2>2 DEF TypeOK, TableOK, Rule
  <2>. QED  BY <2>2, <2>3 DEF RoutesFollow
<1>. QED
  BY <1>1, <1>2, NextStopped, TypeCorrect, SyncIsExact, RoutesAreRight, PTL DEF Spec

=============================================================================
