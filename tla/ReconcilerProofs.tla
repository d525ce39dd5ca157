-------------------------- MODULE ReconcilerProofs --------------------------
(***************************************************************************)
(* Proofs about Reconciler, for every finite set of pods and slices, every *)
(* set of port lists and every maxEndpointsPerSlice.                       *)
(*                                                                         *)
(* While the plan is made (InRound), no slice is in two places: still to   *)
(* be scanned, to be deleted, and kept or to be written (Structure).  Each *)
(* endpoint wanted by the port maps already taken on is in one slice that  *)
(* stays, in one slice to create, or left over, and nothing else is in any *)
(* of them (Laid).  While the calls are made, the same is said of what the *)
(* slices will be when all calls have succeeded (Planned), which they are  *)
(* when the round ends (Exact).                                            *)
(*                                                                         *)
(* Nothing comes on the plan without need (Worthwhile), and nothing is on  *)
(* it without need while the calls are made (Pending): slices that are     *)
(* up to date leave nothing to write (Stable).  What the metrics were told *)
(* counts the same slices and endpoints as the plan (Tallied), and in the  *)
(* end the slices there are (MetricsExact).                                *)
(***************************************************************************)
EXTENDS Reconciler, FiniteSetTheorems, SequenceTheorems, TLAPS

-----------------------------------------------------------------------------
\* Endpoints are functions on finite sets of addresses (endpointSet).
LEMMA EndpointsFacts ==
    ASSUME NEW f \in Endpoints
    PROVE  /\ DOMAIN f \subseteq Address
           /\ \A a \in DOMAIN f : f[a] \in Condition
           /\ f = [a \in DOMAIN f |-> f[a]]
           /\ IsFiniteSet(DOMAIN f) /\ Size(f) \in Nat
           /\ DOMAIN f = {} <=> f = NoEndpoints
<1>1. PICK S \in SUBSET Address : f \in [S -> Condition]
  BY DEF Endpoints
<1>2. DOMAIN f = S
  BY <1>1
<1>3. IsFiniteSet(DOMAIN f) /\ Size(f) \in Nat
  BY <1>2, FiniteAssumption, FS_Subset, FS_CardinalityType DEF Size
<1>4. DOMAIN f = {} <=> f = NoEndpoints
  BY <1>1, <1>2 DEF NoEndpoints
<1>. QED  BY <1>1, <1>2, <1>3, <1>4

\* A function from some addresses to conditions is a set of endpoints.
LEMMA MakeEndpoints ==
    ASSUME NEW S \in SUBSET Address, NEW f \in [S -> Condition]
    PROVE  f \in Endpoints
BY DEF Endpoints

\* The empty set of endpoints.
LEMMA NoEndpointsFacts ==
    /\ NoEndpoints \in Endpoints /\ DOMAIN NoEndpoints = {} /\ Size(NoEndpoints) = 0
<1>1. NoEndpoints \in [{} -> Condition] /\ DOMAIN NoEndpoints = {}
  BY DEF NoEndpoints
<1>. QED  BY <1>1, MakeEndpoints, FS_EmptySet DEF Size

\* Part of a set of endpoints.
LEMMA OnlyFacts ==
    ASSUME NEW f \in Endpoints, NEW S \in SUBSET DOMAIN f
    PROVE  /\ Only(f, S) \in Endpoints /\ DOMAIN Only(f, S) = S
           /\ \A a \in S : Only(f, S)[a] = f[a]
<1>1. Only(f, S) \in [S -> Condition] /\ S \subseteq Address
  BY EndpointsFacts DEF Only
<1>. QED  BY <1>1, MakeEndpoints DEF Only

\* Two sets of endpoints together; those of the first count.
LEMMA JoinFacts ==
    ASSUME NEW f \in Endpoints, NEW g \in Endpoints
    PROVE  /\ Join(f, g) \in Endpoints /\ DOMAIN Join(f, g) = DOMAIN f \cup DOMAIN g
           /\ \A a \in DOMAIN Join(f, g) :
                 Join(f, g)[a] = IF a \in DOMAIN f THEN f[a] ELSE g[a]
           /\ Size(Join(f, g)) <= Size(f) + Size(g)
<1>. DEFINE U == DOMAIN f \cup DOMAIN g
<1>1. Join(f, g) \in [U -> Condition] /\ U \subseteq Address
  BY EndpointsFacts DEF Join
<1>2. DOMAIN Join(f, g) = U
  BY <1>1
<1>3. Cardinality(U) <= Cardinality(DOMAIN f) + Cardinality(DOMAIN g)
  <2>1. /\ IsFiniteSet(DOMAIN f) /\ IsFiniteSet(DOMAIN g)
        /\ IsFiniteSet(DOMAIN f \cap DOMAIN g)
    BY EndpointsFacts, FS_Intersection
  <2>2. /\ Cardinality(DOMAIN f) \in Nat /\ Cardinality(DOMAIN g) \in Nat
        /\ Cardinality(DOMAIN f \cap DOMAIN g) \in Nat
    BY <2>1, FS_CardinalityType
  <2>3. Cardinality(U) = Cardinality(DOMAIN f) + Cardinality(DOMAIN g)
                         - Cardinality(DOMAIN f \cap DOMAIN g)
    BY <2>1, FS_Union
  <2>. QED  BY <2>2, <2>3
<1>. QED  BY <1>1, <1>2, <1>3, MakeEndpoints DEF Join, Size

\* A slice that can hold n endpoints and gets no more holds at most n.
LEMMA LesserFacts ==
    ASSUME NEW m \in Int, NEW n \in Int
    PROVE  /\ Lesser(m, n) \in Int /\ Lesser(m, n) <= m /\ Lesser(m, n) <= n
           /\ m \in Nat /\ n \in Nat => Lesser(m, n) \in Nat
BY DEF Lesser

\* What is known of a selected pod.
LEMMA PodFacts ==
    ASSUME pods \in Pods
    PROVE  /\ \A a \in Address : pods[a] # NoPod =>
                 /\ pods[a].ports \in PortMap /\ pods[a].condition \in Condition
                 /\ pods[a].addressed \in BOOLEAN
           /\ DesiredPorts \subseteq PortMap
<1>1. \A a \in Address : pods[a] # NoPod =>
         pods[a] \in [ports : PortMap, condition : Condition, addressed : BOOLEAN]
  BY ReconcilerAssumption DEF Pods
<1>. QED  BY <1>1 DEF DesiredPorts

\* The endpoints a port map wants (desiredEndpointsByPortMap).
LEMMA DesiredFacts ==
    ASSUME pods \in Pods, NEW pm
    PROVE  /\ Desired(pm) \in Endpoints
           /\ DOMAIN Desired(pm) =
                {a \in Address : pods[a] # NoPod /\ pods[a].addressed /\ pods[a].ports = pm}
           /\ \A a \in DOMAIN Desired(pm) : Desired(pm)[a] = pods[a].condition
<1>. DEFINE S == {a \in Address : pods[a] # NoPod /\ pods[a].addressed /\ pods[a].ports = pm}
<1>1. Desired(pm) = [a \in S |-> pods[a].condition]
  BY DEF Desired
<1>2. Desired(pm) \in [S -> Condition]
  BY <1>1, PodFacts
<1>. QED  BY <1>1, <1>2, MakeEndpoints
-----------------------------------------------------------------------------
InRound  == phase \in {"groups", "scan", "fill", "place"}
Grouping == phase \in {"scan", "fill", "place"}

\* The port maps that have been taken on.
Taken == DesiredPorts \ todo

\* What is empty when: between rounds, between groups, after step 1.
Cleared ==
    /\ AtRest => toCreate = << >> /\ toUpdate = {} /\ toDelete = {} /\ work = slices
    /\ ~Grouping => left = NoEndpoints /\ updated = {} /\ unchanged = {}
    /\ phase # "scan" => toScan = {}

\* Where the slices are while the plan is made.
Placed ==
    InRound =>
      /\ todo \subseteq DesiredPorts
      /\ toScan \cup updated \cup unchanged \cup toUpdate \subseteq Owned
      /\ toDelete \subseteq Names /\ Names \ Owned \subseteq toDelete
      /\ \A sl \in toScan \cup updated \cup unchanged \cup toUpdate \cup (toDelete \cap Owned) :
            slices[sl].ports \in Taken
      /\ toScan \cap (updated \cup unchanged \cup toUpdate \cup toDelete) = {}
      /\ toDelete \cap (updated \cup unchanged \cup toUpdate) = {}
      /\ \A sl \in SliceName : work[sl] = NoSlice <=> slices[sl] = NoSlice

\* The group under way: its slices, and what is left of its endpoints, have one
\* port map.
Group ==
    Grouping =>
      \E pm \in Taken :
        /\ \A sl \in toScan \cup updated \cup unchanged : slices[sl].ports = pm
        /\ \A a \in DOMAIN left : a \in DOMAIN Desired(pm) /\ left[a] = pods[a].condition

\* What is to be written is a slice.
Writing == phase = "finalize" => \A sl \in toUpdate : work[sl] # NoSlice

Structure == TypeOK /\ Cleared /\ Placed /\ Group /\ Writing
-----------------------------------------------------------------------------
\* Steps that write no slice and hear of no pod leave what is derived alone.
LEMMA SameView ==
    ASSUME UNCHANGED <<slices, pods>>
    PROVE  /\ Names' = Names /\ Owned' = Owned /\ DesiredPorts' = DesiredPorts
           /\ \A pm : Desired(pm)' = Desired(pm)
BY DEF Names, Owned, DesiredPorts, Desired

\* At first there is nothing.
LEMMA InitStructure == Init => Structure
<1>. SUFFICES ASSUME Init PROVE Structure
  OBVIOUS
<1>. USE DEF Init
<1>1. TypeOK
  <2>1. pods \in Pods
    BY DEF Pods
  <2>2. slices \in [SliceName -> EndpointSlice \cup {NoSlice}] /\ work = slices
    OBVIOUS
  <2>3. left \in Endpoints /\ DOMAIN counts = {}
    BY NoEndpointsFacts DEF NoCounts
  <2>4. mishaps \in 0..MaxMishaps
    BY ReconcilerAssumption
  <2>5. toCreate \in Seq(EndpointSlice) /\ unchanged \subseteq Names
    OBVIOUS
  <2>. QED  BY <2>1, <2>2, <2>3, <2>4, <2>5 DEF TypeOK
<1>2. Cleared /\ Placed /\ Group /\ Writing
  BY DEF Cleared, Placed, Group, Writing, InRound, Grouping, AtRest
<1>. QED  BY <1>1, <1>2 DEF Structure

\* Between rounds: what happens to the slices from outside.
LEMMA MishapStructure ==
    ASSUME Structure,
           ServiceRelabelled \/ ServiceRecreated \/ \E sl \in SliceName : SliceLost(sl)
    PROVE  Structure'
<1>. USE DEF Structure
<1>1. /\ Mishap /\ work' = slices'
      /\ UNCHANGED <<pods, deleting, todo, left, toScan, unchanged, updated, unfilled, plan>>
  BY DEF ServiceRelabelled, ServiceRecreated, SliceLost
<1>2. AtRest /\ phase' = "idle"
  BY <1>1 DEF Mishap
<1>3. slices' \in [SliceName -> EndpointSlice \cup {NoSlice}]
  <2>1. \A sl \in SliceName : slices[sl] # NoSlice =>
           /\ [slices[sl] EXCEPT !.current = FALSE] \in EndpointSlice
           /\ [slices[sl] EXCEPT !.owned = FALSE] \in EndpointSlice
    BY DEF TypeOK, EndpointSlice
  <2>. QED  BY <2>1 DEF TypeOK, ServiceRelabelled, ServiceRecreated, SliceLost
<1>4. TypeOK'
  <2>1. unchanged' = {} /\ toUpdate' = {} /\ toDelete' = {}
    BY <1>1, <1>2 DEF Cleared, plan, AtRest, Grouping
  <2>2. mishaps' \in 0..MaxMishaps /\ DOMAIN counts' = {}
    BY <1>1, ReconcilerAssumption DEF TypeOK, Mishap, NoCounts
  <2>3. pods' \in Pods
    BY <1>1 DEF TypeOK, Pods
  <2>. QED  BY <1>1, <1>2, <1>3, <2>1, <2>2, <2>3 DEF TypeOK, plan
<1>5. Cleared'
  BY <1>1, <1>2 DEF Cleared, AtRest, Grouping, plan
<1>6. Placed' /\ Group' /\ Writing'
  BY <1>2 DEF Placed, Group, Writing, InRound, Grouping
<1>. QED  BY <1>4, <1>5, <1>6

\* The start of a round: slices of other owners are to be deleted.
LEMMA StartStructure == Structure /\ Start => Structure'
<1>. SUFFICES ASSUME Structure, Start PROVE Structure'
  OBVIOUS
<1>. USE DEF Structure
<1>1. /\ AtRest /\ phase' = "groups" /\ todo' = DesiredPorts' /\ pods' \in Pods
      /\ toCreate' = << >> /\ toUpdate' = {} /\ toDelete' = Names \ Owned
      /\ counts' = NoCounts /\ deleting' \in BOOLEAN
      /\ UNCHANGED <<slices, left, toScan, work, unchanged, updated, unfilled, mishaps>>
  BY DEF Start
<1>2. Names' = Names /\ Owned' = Owned
  BY <1>1 DEF Names, Owned
<1>3. DesiredPorts' \subseteq PortMap
  <2>1. \A a \in Address : pods'[a] # NoPod => pods'[a].ports \in PortMap
    <3>1. \A a \in Address : pods'[a] # NoPod =>
             pods'[a] \in [ports : PortMap, condition : Condition, addressed : BOOLEAN]
      BY <1>1, ReconcilerAssumption DEF Pods
    <3>. QED  BY <3>1
  <2>. QED  BY <2>1 DEF DesiredPorts
<1>4. TypeOK'
  <2>1. unchanged' = {} /\ DOMAIN counts' = {} /\ toCreate' \in Seq(EndpointSlice)
    BY <1>1 DEF Cleared, AtRest, Grouping, NoCounts
  <2>2. pods' \in Pods
    BY <1>1 DEF Pods
  <2>. QED  BY <1>1, <1>2, <1>3, <2>1, <2>2 DEF TypeOK, Owned
<1>5. Cleared'
  BY <1>1 DEF Cleared, AtRest, Grouping
<1>6. Placed'
  BY <1>1, <1>2, <1>5 DEF Placed, Cleared, AtRest, Grouping, InRound
<1>7. Group' /\ Writing'
  BY <1>1 DEF Group, Writing, Grouping
<1>. QED  BY <1>4, <1>5, <1>6, <1>7

\* A round that ends before it has begun.
LEMMA NodeMissingStructure == Structure /\ StartNodeMissing => Structure'
<1>. SUFFICES ASSUME Structure, StartNodeMissing PROVE Structure'
  OBVIOUS
<1>. USE DEF Structure
<1>1. /\ AtRest /\ phase' = "idle" /\ pods' \in Pods /\ counts' = NoCounts
      /\ UNCHANGED <<slices, deleting, packing, plan, mishaps>>
  BY DEF StartNodeMissing
<1>2. TypeOK'
  <2>1. Names' = Names /\ DOMAIN counts' = {} /\ pods' \in Pods
    BY <1>1 DEF Names, NoCounts, Pods
  <2>. QED  BY <1>1, <2>1 DEF TypeOK, packing, plan
<1>3. Cleared'
  BY <1>1 DEF Cleared, AtRest, Grouping, packing, plan
<1>4. Placed' /\ Group' /\ Writing'
  BY <1>1 DEF Placed, Group, Writing, InRound, Grouping
<1>. QED  BY <1>2, <1>3, <1>4
-----------------------------------------------------------------------------
\* What is known of a slice of the group under way, and of what is left.
LEMMA InGroup ==
    ASSUME Structure, InRound
    PROVE  /\ pods \in Pods /\ left \in Endpoints
           /\ \A sl \in Owned :
                 /\ sl \in SliceName /\ sl \in Names /\ slices[sl] \in EndpointSlice
                 /\ slices[sl].endpoints \in Endpoints
                 /\ work[sl] \in EndpointSlice /\ work[sl].endpoints \in Endpoints
           /\ toScan \cup updated \cup unchanged \subseteq Owned
BY AbsentAssumption DEF Structure, TypeOK, Placed, Owned, Names, EndpointSlice

\* A group is taken on: all its slices are to be scanned.
LEMMA StartGroupStructure ==
    ASSUME Structure, NEW pm \in PortMap, StartGroup(pm)
    PROVE  Structure'
<1>. USE DEF Structure
<1>1. /\ phase = "groups" /\ pm \in todo /\ phase' = "scan" /\ todo' = todo \ {pm}
      /\ left' = Desired(pm) /\ toScan' = {sl \in Owned : slices[sl].ports = pm}
      /\ UNCHANGED <<slices, pods, deleting, work, unchanged, updated, unfilled, plan, notes>>
  BY DEF StartGroup
<1>2. /\ Names' = Names /\ Owned' = Owned /\ DesiredPorts' = DesiredPorts
      /\ Desired(pm)' = Desired(pm)
  BY <1>1, SameView
<1>3. /\ updated = {} /\ unchanged = {} /\ pm \in DesiredPorts /\ pm \notin Taken
      /\ Taken' = Taken \cup {pm}
  BY <1>1, <1>2 DEF Cleared, Grouping, Placed, InRound, Taken
<1>4. Desired(pm) \in Endpoints /\ \A a \in DOMAIN Desired(pm) : Desired(pm)[a] = pods[a].condition
  BY DesiredFacts DEF TypeOK
<1>5. TypeOK'
  <2>1. pods' \in Pods /\ toScan' \subseteq SliceName
    BY <1>1 DEF TypeOK, Pods, Owned, Names
  <2>. QED  BY <1>1, <1>2, <1>4, <2>1 DEF TypeOK, plan, notes
<1>6. Cleared'
  BY <1>1 DEF Cleared, AtRest, Grouping, plan
<1>7. Placed'
  BY <1>1, <1>2, <1>3 DEF Placed, InRound, plan
<1>8. Group'
  BY <1>1, <1>2, <1>3, <1>4 DEF Group
<1>9. Writing'
  BY <1>1 DEF Writing
<1>. QED  BY <1>5, <1>6, <1>7, <1>8, <1>9

\* Changing one slice in memory keeps the map of them well formed.
LEMMA ChangeWork ==
    ASSUME work \in [SliceName -> EndpointSlice \cup {NoSlice}],
           NEW sl \in SliceName, work[sl] \in EndpointSlice, NEW new \in EndpointSlice,
           work' = [work EXCEPT ![sl] = new]
    PROVE  /\ work' \in [SliceName -> EndpointSlice \cup {NoSlice}]
           /\ work'[sl] = new
           /\ \A other \in SliceName :
                /\ other # sl => work'[other] = work[other]
                /\ work'[other] = NoSlice <=> work[other] = NoSlice
BY AbsentAssumption

\* Step 1 for one slice.
LEMMA ScanSliceStructure ==
    ASSUME Structure, NEW sl \in SliceName, ScanSlice(sl)
    PROVE  Structure'
<1>. USE DEF Structure
<1>. DEFINE kept == Only(left, DOMAIN slices[sl].endpoints \cap DOMAIN left)
<1>1. /\ phase = "scan" /\ sl \in toScan /\ toScan' = toScan \ {sl}
      /\ left' = Only(left, DOMAIN left \ DOMAIN kept)
      /\ UNCHANGED <<slices, pods, deleting, phase, todo, unfilled, toCreate, toUpdate, notes>>
  BY DEF ScanSlice
<1>2. InRound /\ Grouping
  BY <1>1 DEF InRound, Grouping
<1>3. /\ Names' = Names /\ Owned' = Owned /\ DesiredPorts' = DesiredPorts
      /\ \A pm : Desired(pm)' = Desired(pm)
      /\ Taken' = Taken
  BY <1>1, SameView DEF Taken
<1>4. /\ sl \in Owned /\ sl \in Names /\ left \in Endpoints /\ work[sl] \in EndpointSlice
      /\ sl \notin toDelete /\ sl \notin toUpdate /\ sl \notin updated /\ sl \notin unchanged
  BY <1>1, <1>2, InGroup DEF Placed
<1>5. kept \in Endpoints
  BY <1>4, OnlyFacts
<1>6. left' \in Endpoints /\ \A a \in DOMAIN left' : a \in DOMAIN left /\ left'[a] = left[a]
  BY <1>1, <1>4, OnlyFacts
<1>. HIDE DEF kept
<1>7. \/ toDelete' = toDelete \cup {sl} /\ UNCHANGED <<work, updated, unchanged>>
      \/ /\ updated' = updated \cup {sl} /\ UNCHANGED <<toDelete, unchanged>>
         /\ \/ work' = [work EXCEPT ![sl].endpoints = kept, ![sl].current = TRUE]
            \/ work' = [work EXCEPT ![sl].current = TRUE]
      \/ unchanged' = unchanged \cup {sl} /\ UNCHANGED <<work, updated, toDelete>>
  BY DEF ScanSlice, kept
<1>8. /\ work' \in [SliceName -> EndpointSlice \cup {NoSlice}]
      /\ \A other \in SliceName : work'[other] = NoSlice <=> work[other] = NoSlice
  <2>1. CASE work' = [work EXCEPT ![sl].endpoints = kept, ![sl].current = TRUE]
    <3>1. [work[sl] EXCEPT !.endpoints = kept, !.current = TRUE] \in EndpointSlice
      BY <1>4, <1>5 DEF EndpointSlice
    <3>2. work' = [work EXCEPT ![sl] = [work[sl] EXCEPT !.endpoints = kept, !.current = TRUE]]
      BY <2>1, <1>4 DEF TypeOK
    <3>. QED  BY <1>4, <3>1, <3>2, ChangeWork DEF TypeOK
  <2>2. CASE work' = [work EXCEPT ![sl].current = TRUE]
    <3>1. [work[sl] EXCEPT !.current = TRUE] \in EndpointSlice
      BY <1>4 DEF EndpointSlice
    <3>2. work' = [work EXCEPT ![sl] = [work[sl] EXCEPT !.current = TRUE]]
      BY <2>2
    <3>. QED  BY <1>4, <3>1, <3>2, ChangeWork DEF TypeOK
  <2>. QED  BY <1>7, <2>1, <2>2 DEF TypeOK
<1>9. TypeOK'
  <2>1. pods' \in Pods
    BY <1>1 DEF TypeOK, Pods
  <2>2. /\ toUpdate' \cup toDelete' \subseteq Names' /\ toUpdate' \cap toDelete' = {}
        /\ unchanged' \subseteq Names' /\ updated' \subseteq SliceName
        /\ unfilled' \subseteq updated'
    BY <1>1, <1>3, <1>4, <1>7 DEF TypeOK
  <2>. QED  BY <1>1, <1>6, <1>8, <2>1, <2>2 DEF TypeOK, notes
<1>10. Cleared'
  BY <1>1 DEF Cleared, AtRest, Grouping
<1>11. Placed'
  <2>1. slices[sl].ports \in Taken
    BY <1>1, <1>2 DEF Placed
  <2>2. /\ toDelete' \subseteq Names /\ Names \ Owned \subseteq toDelete'
        /\ toScan' \cup updated' \cup unchanged' \cup toUpdate' \subseteq Owned
    BY <1>1, <1>2, <1>4, <1>7 DEF Placed
  <2>3. \A other \in toScan' \cup updated' \cup unchanged' \cup toUpdate' \cup (toDelete' \cap Owned) :
            slices[other].ports \in Taken
    BY <1>1, <1>2, <1>7, <2>1 DEF Placed
  <2>4. /\ toScan' \cap (updated' \cup unchanged' \cup toUpdate' \cup toDelete') = {}
        /\ toDelete' \cap (updated' \cup unchanged' \cup toUpdate') = {}
    BY <1>1, <1>2, <1>4, <1>7 DEF Placed
  <2>. QED  BY <1>1, <1>2, <1>3, <1>8, <2>2, <2>3, <2>4 DEF Placed
<1>12. Group'
  <2>1. PICK pm \in Taken :
          /\ \A other \in toScan \cup updated \cup unchanged : slices[other].ports = pm
          /\ \A a \in DOMAIN left : a \in DOMAIN Desired(pm) /\ left[a] = pods[a].condition
    BY <1>2 DEF Group
  <2>2. \A other \in toScan' \cup updated' \cup unchanged' : slices'[other].ports = pm
    BY <1>1, <1>7, <2>1
  <2>3. \A a \in DOMAIN left' : a \in DOMAIN Desired(pm)' /\ left'[a] = pods'[a].condition
    BY <1>1, <1>3, <1>6, <2>1
  <2>. QED  BY <1>3, <2>2, <2>3 DEF Group
<1>13. Writing'
  BY <1>1 DEF Writing
<1>. QED  BY <1>9, <1>10, <1>11, <1>12, <1>13

\* A step ends, the next begins: nothing moves.
LEMMA PhaseStructure ==
    ASSUME Structure, ScanDone \/ FillDone
    PROVE  Structure'
<1>. USE DEF Structure
<1>1. /\ Grouping /\ InRound /\ Grouping' /\ InRound'
      /\ phase' \in {"fill", "place"}
      /\ toScan = {} /\ UNCHANGED <<slices, pods, deleting, todo, left, toScan, work, unchanged,
                                   updated, plan, notes>>
      /\ unfilled' \in {unfilled, updated}
  BY DEF ScanDone, FillDone, packing, Cleared, Grouping, InRound
<1>2. /\ Names' = Names /\ Owned' = Owned /\ DesiredPorts' = DesiredPorts
      /\ \A pm : Desired(pm)' = Desired(pm)
      /\ Taken' = Taken
  BY <1>1, SameView DEF Taken
<1>3. TypeOK'
  <2>1. pods' \in Pods /\ unfilled' \subseteq updated'
    BY <1>1 DEF TypeOK, Pods
  <2>. QED  BY <1>1, <1>2, <2>1 DEF TypeOK, plan, notes
<1>4. Cleared'
  BY <1>1 DEF Cleared, AtRest
<1>5. Placed'
  BY <1>1, <1>2 DEF Placed, plan
<1>6. Group'
  BY <1>1, <1>2 DEF Group
<1>7. Writing'
  BY <1>1 DEF Writing
<1>. QED  BY <1>3, <1>4, <1>5, <1>6, <1>7

\* A slice of the group takes endpoints that are left (steps 2 and 3).
LEMMA AddTo ==
    ASSUME Structure, Grouping, NEW sl \in updated \cup unchanged, NEW S \in SUBSET DOMAIN left,
           work' = [work EXCEPT ![sl].endpoints = Join(@, Only(left, S))]
    PROVE  /\ work' \in [SliceName -> EndpointSlice \cup {NoSlice}]
           /\ work'[sl] = [work[sl] EXCEPT !.endpoints = Join(work[sl].endpoints, Only(left, S))]
           /\ \A other \in SliceName :
                /\ other # sl => work'[other] = work[other]
                /\ work'[other] = NoSlice <=> work[other] = NoSlice
<1>. DEFINE new == [work[sl] EXCEPT !.endpoints = Join(work[sl].endpoints, Only(left, S))]
<1>1. /\ sl \in SliceName /\ work[sl] \in EndpointSlice /\ work[sl].endpoints \in Endpoints
      /\ left \in Endpoints
  BY InGroup DEF Grouping, InRound
<1>2. Join(work[sl].endpoints, Only(left, S)) \in Endpoints
  BY <1>1, OnlyFacts, JoinFacts
<1>3. new \in EndpointSlice
  BY <1>1, <1>2 DEF EndpointSlice
<1>4. work' = [work EXCEPT ![sl] = new]
  OBVIOUS
<1>. HIDE DEF new
<1>5. /\ work' \in [SliceName -> EndpointSlice \cup {NoSlice}] /\ work'[sl] = new
      /\ \A other \in SliceName :
            /\ other # sl => work'[other] = work[other]
            /\ work'[other] = NoSlice <=> work[other] = NoSlice
  BY <1>1, <1>3, <1>4, ChangeWork DEF Structure, TypeOK
<1>. QED  BY <1>5 DEF new

\* Step 2 for one slice.
LEMMA FillUpdatedStructure ==
    ASSUME Structure, NEW sl \in SliceName, FillUpdated(sl)
    PROVE  Structure'
<1>. USE DEF Structure
<1>1. /\ phase = "fill" /\ sl \in unfilled /\ unfilled' = unfilled \ {sl}
      /\ UNCHANGED <<slices, pods, deleting, phase, todo, toScan, unchanged, updated, plan, notes>>
  BY DEF FillUpdated
<1>2. PICK S \in Fillings(work[sl].endpoints) :
         /\ work' = [work EXCEPT ![sl].endpoints = Join(@, Only(left, S))]
         /\ left' = Only(left, DOMAIN left \ S)
  BY DEF FillUpdated
<1>3. Grouping /\ InRound /\ sl \in updated /\ S \in SUBSET DOMAIN left
  BY <1>1, <1>2 DEF Grouping, InRound, TypeOK, Fillings
<1>4. /\ work' \in [SliceName -> EndpointSlice \cup {NoSlice}]
      /\ \A other \in SliceName : work'[other] = NoSlice <=> work[other] = NoSlice
  BY <1>2, <1>3, AddTo
<1>5. left' \in Endpoints /\ \A a \in DOMAIN left' : a \in DOMAIN left /\ left'[a] = left[a]
  BY <1>2, <1>3, OnlyFacts DEF TypeOK
<1>6. /\ Names' = Names /\ Owned' = Owned /\ DesiredPorts' = DesiredPorts
      /\ \A pm : Desired(pm)' = Desired(pm)
      /\ Taken' = Taken
  BY <1>1, SameView DEF Taken
<1>7. TypeOK'
  <2>1. pods' \in Pods /\ unfilled' \subseteq updated'
    BY <1>1 DEF TypeOK, Pods
  <2>. QED  BY <1>1, <1>4, <1>5, <1>6, <2>1 DEF TypeOK, plan, notes
<1>8. Cleared'
  BY <1>1 DEF Cleared, AtRest, Grouping
<1>9. Placed'
  BY <1>1, <1>3, <1>4, <1>6 DEF Placed, plan
<1>10. Group'
  BY <1>1, <1>3, <1>5, <1>6 DEF Group
<1>11. Writing'
  BY <1>1 DEF Writing
<1>. QED  BY <1>7, <1>8, <1>9, <1>10, <1>11

\* Step 3: what is left goes into one slice not written yet.
LEMMA PlaceInUnchangedStructure == Structure /\ PlaceInUnchanged => Structure'
<1>. SUFFICES ASSUME Structure, PlaceInUnchanged PROVE Structure'
  OBVIOUS
<1>. USE DEF Structure
<1>1. /\ phase = "place" /\ left' = NoEndpoints
      /\ UNCHANGED <<slices, pods, deleting, phase, todo, toScan, unfilled, plan, notes>>
  BY DEF PlaceInUnchanged
<1>2. PICK sl \in unchanged :
         /\ work' = [work EXCEPT ![sl].endpoints = Join(@, left)]
         /\ updated' = updated \cup {sl} /\ unchanged' = unchanged \ {sl}
  BY DEF PlaceInUnchanged, SlicesToFill
<1>3. Grouping /\ InRound /\ left = Only(left, DOMAIN left)
  BY <1>1, EndpointsFacts DEF Grouping, InRound, TypeOK, Only
<1>4. /\ work' \in [SliceName -> EndpointSlice \cup {NoSlice}]
      /\ \A other \in SliceName : work'[other] = NoSlice <=> work[other] = NoSlice
  <2>1. work' = [work EXCEPT ![sl].endpoints = Join(@, Only(left, DOMAIN left))]
    BY <1>2, <1>3
  <2>. QED  BY <1>3, <2>1, AddTo
<1>5. /\ Names' = Names /\ Owned' = Owned /\ DesiredPorts' = DesiredPorts
      /\ \A pm : Desired(pm)' = Desired(pm)
      /\ Taken' = Taken
  BY <1>1, SameView DEF Taken
<1>6. updated' \cup unchanged' = updated \cup unchanged
  BY <1>2
<1>7. TypeOK'
  <2>1. pods' \in Pods /\ left' \in Endpoints
    BY <1>1, NoEndpointsFacts DEF TypeOK, Pods
  <2>2. unchanged' \subseteq Names' /\ updated' \subseteq SliceName /\ unfilled' \subseteq updated'
    BY <1>1, <1>2, <1>5 DEF TypeOK, Names
  <2>. QED  BY <1>1, <1>4, <1>5, <2>1, <2>2 DEF TypeOK, plan, notes
<1>8. Cleared'
  BY <1>1 DEF Cleared, AtRest, Grouping
<1>9. Placed'
  BY <1>1, <1>3, <1>4, <1>5, <1>6 DEF Placed, plan
<1>10. Group'
  BY <1>1, <1>3, <1>5, <1>6, NoEndpointsFacts DEF Group
<1>11. Writing'
  BY <1>1 DEF Writing
<1>. QED  BY <1>7, <1>8, <1>9, <1>10, <1>11

\* The ports of what is left are those of the group.
LEMMA PortsOfLeft ==
    ASSUME Structure, Grouping, left # NoEndpoints, NEW pm,
           \A a \in DOMAIN left : a \in DOMAIN Desired(pm)
    PROVE  PortsOf(left) = pm
<1>. DEFINE first == CHOOSE a \in DOMAIN left : TRUE
<1>1. first \in DOMAIN left
  <2>1. DOMAIN left # {}
    BY EndpointsFacts DEF Structure, TypeOK
  <2>. QED  BY <2>1
<1>2. first \in DOMAIN Desired(pm)
  BY <1>1
<1>3. pods[first].ports = pm
  <2>1. DOMAIN Desired(pm) =
          {a \in Address : pods[a] # NoPod /\ pods[a].addressed /\ pods[a].ports = pm}
    BY DesiredFacts DEF Structure, TypeOK
  <2>. HIDE DEF first
  <2>. QED  BY <1>2, <2>1
<1>. QED  BY <1>3 DEF PortsOf

\* Step 3: a new slice.
LEMMA PlaceInNewStructure == Structure /\ PlaceInNew => Structure'
<1>. SUFFICES ASSUME Structure, PlaceInNew PROVE Structure'
  OBVIOUS
<1>. USE DEF Structure
<1>1. /\ phase = "place" /\ left # NoEndpoints
      /\ UNCHANGED <<slices, pods, deleting, phase, todo, toScan, work, unchanged,
                     updated, unfilled, toUpdate, toDelete, notes>>
  BY DEF PlaceInNew
<1>2. PICK S \in Fillings(NoEndpoints) :
         /\ toCreate' = Append(toCreate, NewEndpointSlice(PortsOf(left), Only(left, S)))
         /\ left' = Only(left, DOMAIN left \ S)
  BY DEF PlaceInNew
<1>3. Grouping /\ InRound /\ S \in SUBSET DOMAIN left /\ left \in Endpoints
  BY <1>1, <1>2 DEF Grouping, InRound, TypeOK, Fillings
<1>4. PICK pm \in Taken :
        /\ \A sl \in toScan \cup updated \cup unchanged : slices[sl].ports = pm
        /\ \A a \in DOMAIN left : a \in DOMAIN Desired(pm) /\ left[a] = pods[a].condition
  BY <1>3 DEF Group
<1>5. PortsOf(left) \in PortMap
  BY <1>1, <1>3, <1>4, PortsOfLeft, PodFacts DEF TypeOK, Taken
<1>6. toCreate' \in Seq(EndpointSlice)
  <2>1. NewEndpointSlice(PortsOf(left), Only(left, S)) \in EndpointSlice
    BY <1>3, <1>5, OnlyFacts DEF NewEndpointSlice, EndpointSlice
  <2>. QED  BY <1>2, <2>1, AppendProperties DEF TypeOK
<1>7. left' \in Endpoints /\ \A a \in DOMAIN left' : a \in DOMAIN left /\ left'[a] = left[a]
  BY <1>2, <1>3, OnlyFacts
<1>8. /\ Names' = Names /\ Owned' = Owned /\ DesiredPorts' = DesiredPorts
      /\ \A port : Desired(port)' = Desired(port)
      /\ Taken' = Taken
  BY <1>1, SameView DEF Taken
<1>9. TypeOK'
  <2>1. pods' \in Pods
    BY <1>1 DEF TypeOK, Pods
  <2>. QED  BY <1>1, <1>6, <1>7, <1>8, <2>1 DEF TypeOK, notes
<1>10. Cleared'
  BY <1>1 DEF Cleared, AtRest, Grouping
<1>11. Placed'
  BY <1>1, <1>3, <1>8 DEF Placed
<1>12. Group'
  BY <1>1, <1>4, <1>7, <1>8 DEF Group
<1>13. Writing'
  BY <1>1 DEF Writing
<1>. QED  BY <1>9, <1>10, <1>11, <1>12, <1>13

\* The end of a group.
LEMMA GroupDoneStructure == Structure /\ GroupDone => Structure'
<1>. SUFFICES ASSUME Structure, GroupDone PROVE Structure'
  OBVIOUS
<1>. USE DEF Structure
<1>1. /\ phase = "place" /\ left = NoEndpoints /\ phase' = "groups"
      /\ toUpdate' = toUpdate \cup updated
      /\ unchanged' = {} /\ updated' = {} /\ unfilled' = {}
      /\ UNCHANGED <<slices, pods, deleting, todo, left, toScan, work, toCreate, toDelete, notes>>
  BY DEF GroupDone
<1>2. InRound /\ InRound' /\ toScan = {}
  BY <1>1 DEF InRound, Cleared
<1>3. /\ Names' = Names /\ Owned' = Owned /\ DesiredPorts' = DesiredPorts
      /\ Taken' = Taken
  BY <1>1, SameView DEF Taken
<1>4. TypeOK'
  <2>1. pods' \in Pods
    BY <1>1 DEF TypeOK, Pods
  <2>2. toUpdate' \cup toDelete' \subseteq Names' /\ toUpdate' \cap toDelete' = {}
    BY <1>1, <1>2, <1>3 DEF TypeOK, Placed, Owned
  <2>. QED  BY <1>1, <1>3, <2>1, <2>2 DEF TypeOK, notes
<1>5. Cleared'
  BY <1>1, <1>2 DEF Cleared, AtRest, Grouping
<1>6. Placed'
  BY <1>1, <1>2, <1>3 DEF Placed
<1>7. Group' /\ Writing'
  BY <1>1 DEF Group, Writing, Grouping
<1>. QED  BY <1>4, <1>5, <1>6, <1>7

-----------------------------------------------------------------------------
\* What Assemble works with: the slices to delete, the creates, and how many of
\* these take over a slice.
Dels    == toDelete \cup Obsolete
Empty   == Cardinality(Names) = Cardinality(Dels) /\ toCreate = << >>
Creates == IF Empty THEN <<Placeholder>> ELSE toCreate
Reused  == Lesser(Len(Creates), Cardinality(Dels \cap Owned))
Fresh   == Len(Creates) - Reused

\* The placeholder is a slice without endpoints.
LEMMA PlaceholderFacts ==
    /\ Placeholder \in EndpointSlice /\ Placeholder.endpoints = NoEndpoints
    /\ Placeholder.owned /\ Placeholder.current
BY NoEndpointsFacts, ReconcilerAssumption DEF Placeholder, NewEndpointSlice, EndpointSlice

\* The sizes of the parts fit together.
LEMMA AssembleSizes ==
    ASSUME TypeOK
    PROVE  /\ Creates \in Seq(EndpointSlice) /\ Len(Creates) \in Nat
           /\ IsFiniteSet(Names) /\ IsFiniteSet(Dels) /\ Dels \subseteq Names
           /\ Reused \in Nat /\ Fresh \in Nat /\ Fresh <= Len(Creates)
           /\ Reused <= Cardinality(Dels \cap Owned)
           /\ SubSeq(Creates, 1, Fresh) \in Seq(EndpointSlice)
           /\ Len(SubSeq(Creates, 1, Fresh)) = Fresh
           /\ \A i \in 1..Fresh : SubSeq(Creates, 1, Fresh)[i] = Creates[i]
<1>1. Creates \in Seq(EndpointSlice)
  BY PlaceholderFacts DEF Creates, TypeOK
<1>2. Len(Creates) \in Nat
  BY <1>1, LenProperties
<1>3. Names \subseteq SliceName /\ Dels \subseteq Names
  BY DEF Names, Dels, Obsolete, Owned, TypeOK
<1>4. IsFiniteSet(Names) /\ IsFiniteSet(Dels) /\ IsFiniteSet(Dels \cap Owned)
  BY <1>3, FiniteAssumption, FS_Subset, FS_Intersection
<1>5. Cardinality(Dels \cap Owned) \in Nat
  BY <1>4, FS_CardinalityType
<1>6. Reused \in Nat /\ Reused <= Len(Creates) /\ Reused <= Cardinality(Dels \cap Owned)
  BY <1>2, <1>5, LesserFacts DEF Reused
<1>7. Fresh \in Nat /\ Fresh <= Len(Creates)
  BY <1>2, <1>6 DEF Fresh
<1>8. \A i \in 1..Fresh : Creates[i] \in EndpointSlice
  BY <1>1, <1>2, <1>7, ElementOfSeq
<1>9. /\ SubSeq(Creates, 1, Fresh) \in Seq(EndpointSlice)
      /\ Len(SubSeq(Creates, 1, Fresh)) = Fresh
      /\ \A i \in 1..Fresh : SubSeq(Creates, 1, Fresh)[i] = Creates[i]
  <2>1. /\ SubSeq(Creates, 1, Fresh) \in Seq(EndpointSlice)
        /\ Len(SubSeq(Creates, 1, Fresh)) = IF 1 <= Fresh THEN Fresh - 1 + 1 ELSE 0
        /\ \A i \in 1 .. Fresh - 1 + 1 : SubSeq(Creates, 1, Fresh)[i] = Creates[1 + i - 1]
    BY <1>7, <1>8, SubSeqProperties
  <2>. QED  BY <1>7, <2>1
<1>. QED  BY <1>1, <1>2, <1>3, <1>4, <1>6, <1>7, <1>9

\* What Assemble does, in these terms: the creates after the first Fresh take
\* over one slice each.
LEMMA AssembleStep ==
    ASSUME TypeOK, Assemble
    PROVE  \E R \in SUBSET (Dels \cap Owned) : \E f \in [R -> (Fresh + 1)..Len(Creates)] :
             /\ Cardinality(R) = Reused
             /\ \A sl, other \in R : f[sl] = f[other] => sl = other
             /\ \A sl \in R : f[sl] \in 1..Len(Creates) /\ Creates[f[sl]] \in EndpointSlice
             /\ work' = [sl \in SliceName |-> IF sl \in R THEN Creates[f[sl]] ELSE work[sl]]
             /\ toUpdate' = toUpdate \cup R
             /\ toDelete' = Dels \ R
<1>. DEFINE From == (Fresh + 1)..Len(Creates)
<1>1. PICK R \in SUBSET (Dels \cap Owned) : \E f \in [R -> From] :
             /\ Cardinality(R) = Reused
             /\ \A sl, other \in R : f[sl] = f[other] => sl = other
             /\ work' = [sl \in SliceName |-> IF sl \in R THEN Creates[f[sl]] ELSE work[sl]]
             /\ toUpdate' = toUpdate \cup R
             /\ toDelete' = Dels \ R
  BY DEF Assemble, Dels, Empty, Creates, Reused, Fresh, RemainingDeletes
<1>2. PICK f \in [R -> From] :
             /\ Cardinality(R) = Reused
             /\ \A sl, other \in R : f[sl] = f[other] => sl = other
             /\ work' = [sl \in SliceName |-> IF sl \in R THEN Creates[f[sl]] ELSE work[sl]]
             /\ toUpdate' = toUpdate \cup R
             /\ toDelete' = Dels \ R
  BY <1>1
<1>3. \A i \in From : i \in 1..Len(Creates)
  BY AssembleSizes
<1>4. \A i \in 1..Len(Creates) : Creates[i] \in EndpointSlice
  BY AssembleSizes, ElementOfSeq
<1>. QED  BY <1>1, <1>2, <1>3, <1>4

\* The plan is complete.
LEMMA AssembleStructure == Structure /\ Assemble => Structure'
<1>. SUFFICES ASSUME Structure, Assemble PROVE Structure'
  OBVIOUS
<1>. USE DEF Structure
<1>1. /\ phase = "groups" /\ todo = {} /\ phase' = "finalize" /\ counts' = Counts(Empty)
      /\ toCreate' = IF deleting THEN << >> ELSE SubSeq(Creates, 1, Fresh)
      /\ UNCHANGED <<slices, pods, deleting, todo, left, toScan, unchanged,
                     updated, unfilled, mishaps>>
  BY DEF Assemble, Dels, Empty, Creates, Reused, Fresh
<1>2. PICK R \in SUBSET (Dels \cap Owned) : \E f \in [R -> (Fresh + 1)..Len(Creates)] :
             /\ \A sl \in R : f[sl] \in 1..Len(Creates) /\ Creates[f[sl]] \in EndpointSlice
             /\ work' = [sl \in SliceName |-> IF sl \in R THEN Creates[f[sl]] ELSE work[sl]]
             /\ toUpdate' = toUpdate \cup R
             /\ toDelete' = Dels \ R
  BY AssembleStep
<1>3. PICK f \in [R -> (Fresh + 1)..Len(Creates)] :
             /\ \A sl \in R : f[sl] \in 1..Len(Creates) /\ Creates[f[sl]] \in EndpointSlice
             /\ work' = [sl \in SliceName |-> IF sl \in R THEN Creates[f[sl]] ELSE work[sl]]
             /\ toUpdate' = toUpdate \cup R
             /\ toDelete' = Dels \ R
  BY <1>2
<1>4. InRound /\ toUpdate \subseteq Owned /\ toUpdate \cap toDelete = {} /\ Owned \subseteq Names
      /\ \A sl \in toUpdate : slices[sl].ports \in DesiredPorts
  BY <1>1 DEF InRound, Placed, Taken, Owned
<1>5. toUpdate \cap Dels = {}
  BY <1>4 DEF Dels, Obsolete
<1>6. Names' = Names
  BY <1>1, SameView
<1>7. work' \in [SliceName -> EndpointSlice \cup {NoSlice}]
  BY <1>3 DEF TypeOK
<1>8. TypeOK'
  <2>1. pods' \in Pods
    BY <1>1 DEF TypeOK, Pods
  <2>2. toCreate' \in Seq(EndpointSlice)
    BY <1>1, AssembleSizes
  <2>3. toUpdate' \cup toDelete' \subseteq Names' /\ toUpdate' \cap toDelete' = {}
    BY <1>3, <1>4, <1>5, <1>6, AssembleSizes
  <2>4. DOMAIN counts' \subseteq PortMap
    BY <1>1, PodFacts, ReconcilerAssumption DEF Counts, TypeOK
  <2>. QED  BY <1>1, <1>6, <1>7, <2>1, <2>2, <2>3, <2>4 DEF TypeOK
<1>9. Cleared'
  BY <1>1 DEF Cleared, AtRest, Grouping
<1>10. Placed' /\ Group'
  BY <1>1 DEF Placed, Group, InRound, Grouping
<1>11. Writing'
  <2>1. \A sl \in toUpdate : sl \in SliceName /\ sl \notin R /\ work[sl] # NoSlice
    BY <1>4, <1>5 DEF Placed, Names
  <2>2. \A sl \in R : sl \in SliceName /\ Creates[f[sl]] # NoSlice
    BY <1>3, AbsentAssumption DEF Owned, Names
  <2>. QED  BY <1>3, <2>1, <2>2 DEF Writing
<1>. QED  BY <1>8, <1>9, <1>10, <1>11

\* A call of finalize that succeeds.
LEMMA CreateSliceStructure == Structure /\ CreateSlice => Structure'
<1>. SUFFICES ASSUME Structure, CreateSlice PROVE Structure'
  OBVIOUS
<1>. USE DEF Structure
<1>1. /\ phase = "finalize" /\ toCreate # << >> /\ toCreate' = Tail(toCreate)
      /\ UNCHANGED <<pods, deleting, phase, packing, toUpdate, toDelete, notes>>
  BY DEF CreateSlice
<1>2. PICK sl \in SliceName \ Names : slices' = [slices EXCEPT ![sl] = Head(toCreate)]
  BY DEF CreateSlice
<1>3. Head(toCreate) \in EndpointSlice /\ Tail(toCreate) \in Seq(EndpointSlice)
  BY <1>1, HeadTailProperties DEF TypeOK
<1>4. slices' \in [SliceName -> EndpointSlice \cup {NoSlice}] /\ Names \subseteq Names'
  BY <1>2, <1>3, AbsentAssumption DEF TypeOK, Names
<1>5. TypeOK'
  <2>1. pods' \in Pods
    BY <1>1 DEF TypeOK, Pods
  <2>. QED  BY <1>1, <1>3, <1>4, <2>1 DEF TypeOK, packing, notes
<1>6. Cleared'
  BY <1>1 DEF Cleared, AtRest, Grouping, packing
<1>7. Placed' /\ Group' /\ Writing'
  BY <1>1 DEF Placed, Group, Writing, InRound, Grouping, packing
<1>. QED  BY <1>5, <1>6, <1>7

LEMMA UpdateSliceStructure ==
    ASSUME Structure, NEW sl \in SliceName, UpdateSlice(sl)
    PROVE  Structure'
<1>. USE DEF Structure
<1>1. /\ phase = "finalize" /\ sl \in toUpdate /\ toUpdate' = toUpdate \ {sl}
      /\ slices' = [slices EXCEPT ![sl] = work[sl]]
      /\ UNCHANGED <<pods, deleting, phase, packing, toCreate, toDelete, notes>>
  BY DEF UpdateSlice
<1>2. work[sl] # NoSlice /\ work[sl] \in EndpointSlice \cup {NoSlice}
  BY <1>1 DEF Writing, TypeOK
<1>3. slices' \in [SliceName -> EndpointSlice \cup {NoSlice}] /\ Names' = Names
  BY <1>1, <1>2 DEF TypeOK, Names
<1>4. TypeOK'
  <2>1. pods' \in Pods
    BY <1>1 DEF TypeOK, Pods
  <2>. QED  BY <1>1, <1>3, <2>1 DEF TypeOK, packing, notes
<1>5. Cleared'
  BY <1>1 DEF Cleared, AtRest, Grouping, packing
<1>6. Placed' /\ Group' /\ Writing'
  BY <1>1 DEF Placed, Group, Writing, InRound, Grouping, packing
<1>. QED  BY <1>4, <1>5, <1>6

LEMMA DeleteSliceStructure ==
    ASSUME Structure, NEW sl \in SliceName, DeleteSlice(sl)
    PROVE  Structure'
<1>. USE DEF Structure
<1>1. /\ phase = "finalize" /\ toUpdate = {} /\ sl \in toDelete /\ toDelete' = toDelete \ {sl}
      /\ slices' = [slices EXCEPT ![sl] = NoSlice]
      /\ UNCHANGED <<pods, deleting, phase, packing, toCreate, toUpdate, notes>>
  BY DEF DeleteSlice
<1>2. slices' \in [SliceName -> EndpointSlice \cup {NoSlice}] /\ Names' = Names \ {sl}
  BY <1>1 DEF TypeOK, Names
<1>3. unchanged = {}
  BY <1>1 DEF Cleared, Grouping
<1>4. TypeOK'
  <2>1. pods' \in Pods
    BY <1>1 DEF TypeOK, Pods
  <2>. QED  BY <1>1, <1>2, <1>3, <2>1 DEF TypeOK, packing, notes
<1>5. Cleared'
  BY <1>1 DEF Cleared, AtRest, Grouping, packing
<1>6. Placed' /\ Group' /\ Writing'
  BY <1>1 DEF Placed, Group, Writing, InRound, Grouping, packing
<1>. QED  BY <1>4, <1>5, <1>6

\* The end of finalize, with or without an error.
LEMMA RoundEndStructure ==
    ASSUME Structure, CallFails \/ FinalizeDone
    PROVE  Structure'
<1>. USE DEF Structure
<1>1. /\ phase = "finalize" /\ phase' \in {"idle", "synced"} /\ work' = slices
      /\ toCreate' = << >> /\ toUpdate' = {} /\ toDelete' = {}
      /\ counts' \in {counts, NoCounts}
      /\ UNCHANGED <<slices, pods, deleting, todo, left, toScan, unchanged, updated, unfilled,
                     mishaps>>
  BY DEF CallFails, FinalizeDone, plan, notes
<1>2. TypeOK'
  <2>1. pods' \in Pods /\ Names' = Names /\ DOMAIN counts' \subseteq PortMap
    BY <1>1 DEF TypeOK, Pods, Names, NoCounts
  <2>2. toCreate' \in Seq(EndpointSlice)
    BY <1>1
  <2>. QED  BY <1>1, <2>1, <2>2 DEF TypeOK
<1>3. Cleared'
  BY <1>1 DEF Cleared, AtRest, Grouping
<1>4. Placed' /\ Group' /\ Writing'
  BY <1>1 DEF Placed, Group, Writing, InRound, Grouping
<1>. QED  BY <1>2, <1>3, <1>4

LEMMA StutterStructure == Structure /\ UNCHANGED vars => Structure'
<1>. SUFFICES ASSUME Structure, UNCHANGED vars PROVE Structure'
  OBVIOUS
<1>1. UNCHANGED <<slices, pods, deleting, phase, todo, left, toScan, work, unchanged, updated,
                  unfilled, toCreate, toUpdate, toDelete, counts, mishaps>>
  BY DEF vars, packing, plan, notes
<1>2. TypeOK'
  BY <1>1 DEF Structure, TypeOK, Pods, Names
<1>3. Cleared' /\ Writing'
  BY <1>1 DEF Structure, Cleared, Writing, AtRest, Grouping
<1>4. Placed'
  BY <1>1, SameView DEF Structure, Placed, InRound, Taken
<1>5. Group'
  BY <1>1, SameView DEF Structure, Group, Grouping, Taken
<1>. QED  BY <1>2, <1>3, <1>4, <1>5 DEF Structure

LEMMA StructureStep == Structure /\ [Next]_vars => Structure'
<1>. SUFFICES ASSUME Structure, [Next]_vars PROVE Structure'
  OBVIOUS
<1>. USE DEF Next
<1>1. CASE ServiceRelabelled \/ ServiceRecreated \/ \E sl \in SliceName : SliceLost(sl)
  BY <1>1, MishapStructure
<1>2. CASE Start \/ StartNodeMissing
  BY <1>2, StartStructure, NodeMissingStructure
<1>3. CASE \E pm \in PortMap : StartGroup(pm)
  BY <1>3, StartGroupStructure
<1>4. CASE \E sl \in SliceName : ScanSlice(sl)
  BY <1>4, ScanSliceStructure
<1>5. CASE ScanDone \/ FillDone
  BY <1>5, PhaseStructure
<1>6. CASE \E sl \in SliceName : FillUpdated(sl)
  BY <1>6, FillUpdatedStructure
<1>7. CASE PlaceInUnchanged \/ PlaceInNew \/ GroupDone
  BY <1>7, PlaceInUnchangedStructure, PlaceInNewStructure, GroupDoneStructure
<1>8. CASE Assemble
  BY <1>8, AssembleStructure
<1>9. CASE CreateSlice \/ \E sl \in SliceName : UpdateSlice(sl) \/ DeleteSlice(sl)
  BY <1>9, CreateSliceStructure, UpdateSliceStructure, DeleteSliceStructure
<1>10. CASE CallFails \/ FinalizeDone
  BY <1>10, RoundEndStructure
<1>11. CASE UNCHANGED vars
  BY <1>11, StutterStructure
<1>. QED  BY <1>1, <1>2, <1>3, <1>4, <1>5, <1>6, <1>7, <1>8, <1>9, <1>10, <1>11

\* The reconciler's state always has its type; in particular no round plans to
\* write a slice that it also plans to delete, nor one that does not exist
\* (finalize in reconciler.go).  While the plan is made, a slice that is still to
\* be scanned is not yet kept, written or deleted, one to be deleted is neither
\* kept nor written, slices of other owners are all to be deleted, and the
\* others on the plan are of port lists that were taken on.
THEOREM TypeCorrect == Spec => [](TypeOK /\ Placed)
<1>1. Spec => []Structure
  BY InitStructure, StructureStep, PTL DEF Spec
<1>2. Structure => TypeOK /\ Placed
  BY DEF Structure
<1>. QED  BY <1>1, <1>2, PTL
-----------------------------------------------------------------------------
\* No slice is, becomes or is created with more than maxEndpointsPerSlice.
Fits(slice) == slice # NoSlice => Size(slice.endpoints) <= MaxEndpoints

Fitting ==
    /\ \A sl \in SliceName : Fits(slices[sl]) /\ Fits(work[sl])
    /\ \A i \in 1..Len(toCreate) : Fits(toCreate[i])

\* Part of a set of endpoints is no larger.
LEMMA PartSize ==
    ASSUME NEW f \in Endpoints, NEW S \in SUBSET DOMAIN f
    PROVE  Size(Only(f, S)) = Cardinality(S) /\ Size(Only(f, S)) <= Size(f)
           /\ Size(Only(f, S)) \in Nat
<1>1. DOMAIN Only(f, S) = S /\ Only(f, S) \in Endpoints
  BY OnlyFacts
<1>2. Cardinality(S) <= Cardinality(DOMAIN f)
  BY EndpointsFacts, FS_Subset
<1>. QED  BY <1>1, <1>2, EndpointsFacts DEF Size

\* What PopAny takes fits.
LEMMA FillingFacts ==
    ASSUME left \in Endpoints, NEW f \in Endpoints, NEW S \in Fillings(f)
    PROVE  /\ S \in SUBSET DOMAIN left
           /\ Size(Only(left, S)) + Size(f) <= MaxEndpoints
<1>1. S \in SUBSET DOMAIN left /\ Cardinality(S) = Lesser(Size(left), MaxEndpoints - Size(f))
  BY DEF Fillings
<1>2. Size(left) \in Nat /\ Size(f) \in Nat /\ MaxEndpoints \in Nat
  BY EndpointsFacts, ReconcilerAssumption
<1>3. Cardinality(S) <= MaxEndpoints - Size(f) /\ Cardinality(S) \in Int
  BY <1>1, <1>2, LesserFacts
<1>4. Size(Only(left, S)) = Cardinality(S)
  BY <1>1, PartSize
<1>. QED  BY <1>1, <1>2, <1>3, <1>4

\* A slice with endpoints added to it.
LEMMA FitsWithMore ==
    ASSUME Structure, Fitting, Grouping, NEW sl \in updated \cup unchanged,
           NEW S \in SUBSET DOMAIN left,
           Size(Only(left, S)) + Size(work[sl].endpoints) <= MaxEndpoints,
           work' = [work EXCEPT ![sl].endpoints = Join(@, Only(left, S))]
    PROVE  \A other \in SliceName : Fits(work'[other])
<1>1. /\ sl \in SliceName /\ work[sl].endpoints \in Endpoints /\ left \in Endpoints
      /\ work[sl] \in EndpointSlice
  BY InGroup DEF Grouping, InRound
<1>2. /\ work'[sl] = [work[sl] EXCEPT !.endpoints = Join(work[sl].endpoints, Only(left, S))]
      /\ \A other \in SliceName : other # sl => work'[other] = work[other]
  BY AddTo
<1>3. /\ Only(left, S) \in Endpoints
      /\ Size(Only(left, S)) \in Nat /\ Size(work[sl].endpoints) \in Nat
      /\ Join(work[sl].endpoints, Only(left, S)) \in Endpoints
      /\ Size(Join(work[sl].endpoints, Only(left, S))) \in Nat
  BY <1>1, OnlyFacts, EndpointsFacts, JoinFacts
<1>4. Size(Join(work[sl].endpoints, Only(left, S))) <= MaxEndpoints
  <2>1. Size(Join(work[sl].endpoints, Only(left, S)))
          <= Size(work[sl].endpoints) + Size(Only(left, S))
    BY <1>1, <1>3, JoinFacts
  <2>2. MaxEndpoints \in Nat
    BY ReconcilerAssumption
  <2>. QED  BY <1>3, <2>1, <2>2
<1>5. work'[sl].endpoints = Join(work[sl].endpoints, Only(left, S))
  BY <1>1, <1>2 DEF EndpointSlice
<1>. QED  BY <1>1, <1>2, <1>4, <1>5 DEF Fits, Fitting

LEMMA ScanSliceFits ==
    ASSUME Structure, Fitting, NEW sl \in SliceName, ScanSlice(sl)
    PROVE  Fitting'
<1>. DEFINE old  == slices[sl].endpoints
            kept == Only(left, DOMAIN old \cap DOMAIN left)
<1>1. /\ phase = "scan" /\ sl \in toScan /\ UNCHANGED <<slices, toCreate>>
      /\ \/ work' = work
         \/ work' = [work EXCEPT ![sl].endpoints = kept, ![sl].current = TRUE]
         \/ work' = [work EXCEPT ![sl].current = TRUE]
  BY DEF ScanSlice
<1>2. /\ left \in Endpoints /\ old \in Endpoints /\ work[sl] \in EndpointSlice
      /\ slices[sl] # NoSlice /\ work \in [SliceName -> EndpointSlice \cup {NoSlice}]
      /\ work[sl] # NoSlice
  <2>1. sl \in Owned
    BY <1>1 DEF Structure, Placed, InRound
  <2>. QED  BY <1>1, <2>1, InGroup, AbsentAssumption DEF InRound, Structure, TypeOK, Owned, Names
<1>3. Size(kept) <= MaxEndpoints
  <2>1. DOMAIN kept = DOMAIN old \cap DOMAIN left
    BY <1>2, OnlyFacts
  <2>2. Cardinality(DOMAIN kept) <= Cardinality(DOMAIN old) /\ Cardinality(DOMAIN kept) \in Nat
        /\ Cardinality(DOMAIN old) \in Nat
    BY <1>2, <2>1, EndpointsFacts, FS_Subset, FS_CardinalityType
  <2>. QED  BY <1>2, <2>2, ReconcilerAssumption DEF Size, Fitting, Fits
<1>4. work'[sl].endpoints \in {kept, work[sl].endpoints}
      /\ \A other \in SliceName : other # sl => work'[other] = work[other]
  BY <1>1, <1>2 DEF EndpointSlice
<1>5. \A other \in SliceName : Fits(work'[other])
  BY <1>2, <1>3, <1>4 DEF Fitting, Fits
<1>. QED  BY <1>1, <1>5 DEF Fitting

LEMMA FillingFits ==
    ASSUME Structure, Fitting,
           PlaceInUnchanged \/ PlaceInNew \/ \E sl \in SliceName : FillUpdated(sl)
    PROVE  Fitting'
<1>1. Grouping /\ InRound /\ slices' = slices /\ left \in Endpoints
  BY DEF PlaceInUnchanged, PlaceInNew, FillUpdated, Grouping, InRound, Structure, TypeOK
<1>2. CASE PlaceInUnchanged
  <2>1. PICK sl \in SlicesToFill(Size(left)) : work' = [work EXCEPT ![sl].endpoints = Join(@, left)]
    BY <1>2 DEF PlaceInUnchanged
  <2>2. sl \in unchanged /\ MaxEndpoints - (Size(left) + Size(work[sl].endpoints)) >= 0
    BY <2>1 DEF SlicesToFill
  <2>3. work[sl].endpoints \in Endpoints
    BY <1>1, <2>2, InGroup
  <2>4. Size(left) \in Nat /\ Size(work[sl].endpoints) \in Nat
    BY <1>1, <2>3, EndpointsFacts
  <2>5. left = Only(left, DOMAIN left)
    BY <1>1, EndpointsFacts DEF Only
  <2>6. Size(Only(left, DOMAIN left)) + Size(work[sl].endpoints) <= MaxEndpoints
    BY <2>2, <2>4, <2>5, ReconcilerAssumption
  <2>7. work' = [work EXCEPT ![sl].endpoints = Join(@, Only(left, DOMAIN left))]
    BY <2>1, <2>5
  <2>8. \A other \in SliceName : Fits(work'[other])
    BY <1>1, <2>2, <2>6, <2>7, FitsWithMore
  <2>. QED  BY <1>1, <1>2, <2>8 DEF Fitting, PlaceInUnchanged, plan
<1>3. CASE PlaceInNew
  <2>1. PICK S \in Fillings(NoEndpoints) :
          toCreate' = Append(toCreate, NewEndpointSlice(PortsOf(left), Only(left, S)))
    BY <1>3 DEF PlaceInNew
  <2>2. Size(Only(left, S)) <= MaxEndpoints
    <3>1. Size(Only(left, S)) + 0 <= MaxEndpoints /\ Size(Only(left, S)) \in Nat
      BY <1>1, <2>1, FillingFacts, NoEndpointsFacts, PartSize
    <3>. QED  BY <3>1, ReconcilerAssumption
  <2>3. Fits(NewEndpointSlice(PortsOf(left), Only(left, S)))
    BY <2>2 DEF Fits, NewEndpointSlice
  <2>. DEFINE new == NewEndpointSlice(PortsOf(left), Only(left, S))
  <2>4. toCreate \in Seq(EndpointSlice) /\ work' = work
    BY <1>3 DEF Structure, TypeOK, PlaceInNew
  <2>. HIDE DEF new
  <2>5. /\ Len(toCreate) \in Nat /\ Len(toCreate') = Len(toCreate) + 1
        /\ \A i \in 1..Len(toCreate) : toCreate'[i] = toCreate[i]
        /\ toCreate'[Len(toCreate) + 1] = new
    BY <2>1, <2>4 DEF new
  <2>6. \A i \in 1..Len(toCreate') : Fits(toCreate'[i])
    BY <2>3, <2>5 DEF Fitting, new
  <2>. QED  BY <1>1, <2>4, <2>6 DEF Fitting
<1>4. CASE \E sl \in SliceName : FillUpdated(sl)
  <2>1. PICK sl \in SliceName : FillUpdated(sl)
    BY <1>4
  <2>2. PICK S \in Fillings(work[sl].endpoints) :
           work' = [work EXCEPT ![sl].endpoints = Join(@, Only(left, S))]
    BY <2>1 DEF FillUpdated
  <2>3. sl \in updated
    BY <2>1 DEF FillUpdated, Structure, TypeOK
  <2>4. work[sl].endpoints \in Endpoints
    BY <1>1, <2>3, InGroup
  <2>5. S \in SUBSET DOMAIN left /\ Size(Only(left, S)) + Size(work[sl].endpoints) <= MaxEndpoints
    BY <1>1, <2>2, <2>4, FillingFacts
  <2>6. \A other \in SliceName : Fits(work'[other])
    BY <1>1, <2>2, <2>3, <2>5, FitsWithMore
  <2>. QED  BY <1>1, <2>1, <2>6 DEF Fitting, FillUpdated, plan
<1>. QED  BY <1>2, <1>3, <1>4

LEMMA AssembleFits ==
    ASSUME Structure, Fitting, Assemble
    PROVE  Fitting'
<1>1. \A i \in 1..Len(Creates) : Fits(Creates[i])
  <2>1. Fits(Placeholder)
    BY PlaceholderFacts, NoEndpointsFacts, ReconcilerAssumption DEF Fits
  <2>2. CASE Empty
    <3>1. Creates = <<Placeholder>>
      BY <2>2 DEF Creates
    <3>2. Len(Creates) = 1 /\ Creates[1] = Placeholder
      BY <3>1
    <3>. QED  BY <2>1, <3>2
  <2>3. CASE ~Empty
    BY <2>3 DEF Creates, Fitting
  <2>. QED  BY <2>2, <2>3
<1>2. PICK R \in SUBSET (Dels \cap Owned) : \E f \in [R -> (Fresh + 1)..Len(Creates)] :
             /\ \A sl \in R : f[sl] \in 1..Len(Creates)
             /\ work' = [sl \in SliceName |-> IF sl \in R THEN Creates[f[sl]] ELSE work[sl]]
  BY AssembleStep DEF Structure
<1>3. \A sl \in SliceName : Fits(work'[sl])
  BY <1>1, <1>2 DEF Fitting
<1>4. toCreate' = IF deleting THEN << >> ELSE SubSeq(Creates, 1, Fresh)
  BY DEF Assemble, Dels, Empty, Creates, Reused, Fresh
<1>5. \A i \in 1..Len(toCreate') : Fits(toCreate'[i])
  <2>1. CASE deleting
    BY <1>4, <2>1
  <2>2. CASE ~deleting
    <3>1. /\ Fresh \in Nat /\ Len(Creates) \in Nat /\ Fresh <= Len(Creates)
          /\ toCreate' = SubSeq(Creates, 1, Fresh)
          /\ Len(toCreate') = Fresh
          /\ \A i \in 1..Fresh : toCreate'[i] = Creates[i]
      BY <1>4, <2>2, AssembleSizes DEF Structure
    <3>2. \A i \in 1..Fresh : i \in 1..Len(Creates)
      BY <3>1
    <3>. QED  BY <1>1, <3>1, <3>2
  <2>. QED  BY <2>1, <2>2, <1>4 DEF Structure, TypeOK
<1>. QED  BY <1>3, <1>5 DEF Fitting, Assemble

LEMMA CallFits ==
    ASSUME Structure, Fitting,
           CreateSlice \/ \E sl \in SliceName : UpdateSlice(sl) \/ DeleteSlice(sl)
    PROVE  Fitting'
<1>1. slices \in [SliceName -> EndpointSlice \cup {NoSlice}] /\ toCreate \in Seq(EndpointSlice)
  BY DEF Structure, TypeOK
<1>2. CASE CreateSlice
  <2>1. PICK sl \in SliceName : slices' = [slices EXCEPT ![sl] = Head(toCreate)]
    BY <1>2 DEF CreateSlice
  <2>2. toCreate # << >> /\ toCreate' = Tail(toCreate) /\ work' = work
    BY <1>2 DEF CreateSlice, packing
  <2>3. /\ Head(toCreate) = toCreate[1] /\ Len(toCreate) \in Nat /\ 1 <= Len(toCreate)
        /\ Len(toCreate') = Len(toCreate) - 1
        /\ \A i \in 1..Len(toCreate') : toCreate'[i] = toCreate[i + 1]
    BY <1>1, <2>2, HeadTailProperties, EmptySeq, LenProperties
  <2>4. Fits(Head(toCreate)) /\ \A i \in 1..Len(toCreate') : Fits(toCreate'[i])
    BY <2>3 DEF Fitting
  <2>. QED  BY <1>1, <2>1, <2>2, <2>4 DEF Fitting
<1>3. CASE \E sl \in SliceName : UpdateSlice(sl) \/ DeleteSlice(sl)
  <2>1. PICK sl \in SliceName : slices' = [slices EXCEPT ![sl] = work[sl]]
                                \/ slices' = [slices EXCEPT ![sl] = NoSlice]
    BY <1>3 DEF UpdateSlice, DeleteSlice
  <2>2. work' = work /\ toCreate' = toCreate
    BY <1>3 DEF UpdateSlice, DeleteSlice, packing
  <2>. QED  BY <1>1, <2>1, <2>2 DEF Fitting, Fits
<1>. QED  BY <1>2, <1>3

LEMMA MishapFits ==
    ASSUME Structure, Fitting,
           ServiceRelabelled \/ ServiceRecreated \/ \E sl \in SliceName : SliceLost(sl)
    PROVE  Fitting'
<1>1. work' = slices' /\ toCreate' = toCreate
  BY DEF ServiceRelabelled, ServiceRecreated, SliceLost, plan
<1>2. \A sl \in SliceName :
         \/ slices'[sl] = NoSlice
         \/ slices[sl] # NoSlice /\ slices'[sl].endpoints = slices[sl].endpoints
  <2>1. \A sl \in SliceName : slices[sl] # NoSlice =>
           /\ [slices[sl] EXCEPT !.current = FALSE].endpoints = slices[sl].endpoints
           /\ [slices[sl] EXCEPT !.owned = FALSE].endpoints = slices[sl].endpoints
    BY DEF Structure, TypeOK, EndpointSlice
  <2>2. CASE ServiceRelabelled
    BY <2>1, <2>2 DEF ServiceRelabelled
  <2>3. CASE ServiceRecreated
    BY <2>1, <2>3 DEF ServiceRecreated
  <2>4. CASE \E sl \in SliceName : SliceLost(sl)
    BY <2>4 DEF SliceLost, Structure, TypeOK
  <2>. QED  BY <2>2, <2>3, <2>4
<1>. QED  BY <1>1, <1>2 DEF Fitting, Fits

LEMMA FittingStep == Structure /\ Fitting /\ [Next]_vars => Fitting'
<1>. SUFFICES ASSUME Structure, Fitting, [Next]_vars PROVE Fitting'
  OBVIOUS
<1>. USE DEF Next
<1>1. CASE ServiceRelabelled \/ ServiceRecreated \/ \E sl \in SliceName : SliceLost(sl)
  BY <1>1, MishapFits
<1>2. CASE Start \/ StartNodeMissing
  BY <1>2 DEF Start, StartNodeMissing, packing, plan, Fitting
<1>3. CASE \E pm \in PortMap : StartGroup(pm)
  BY <1>3 DEF StartGroup, plan, Fitting
<1>4. CASE \E sl \in SliceName : ScanSlice(sl)
  BY <1>4, ScanSliceFits
<1>5. CASE ScanDone \/ FillDone
  BY <1>5 DEF ScanDone, FillDone, packing, plan, Fitting
<1>6. CASE PlaceInUnchanged \/ PlaceInNew \/ \E sl \in SliceName : FillUpdated(sl)
  BY <1>6, FillingFits
<1>7. CASE GroupDone
  BY <1>7 DEF GroupDone, Fitting
<1>8. CASE Assemble
  BY <1>8, AssembleFits
<1>9. CASE CreateSlice \/ \E sl \in SliceName : UpdateSlice(sl) \/ DeleteSlice(sl)
  BY <1>9, CallFits
<1>10. CASE CallFails \/ FinalizeDone
  <2>1. slices' = slices /\ work' = slices /\ toCreate' = << >>
    BY <1>10 DEF CallFails, FinalizeDone, plan
  <2>. QED  BY <2>1 DEF Fitting
<1>11. CASE UNCHANGED vars
  BY <1>11 DEF vars, packing, plan, Fitting
<1>. QED  BY <1>1, <1>2, <1>3, <1>4, <1>5, <1>6, <1>7, <1>8, <1>9, <1>10, <1>11

\* maxEndpointsPerSlice bounds every slice, whatever way its endpoints got
\* there: kept, filled up with, packed into an unchanged slice or created
\* (reconcileByPortMapping in reconciler.go).
THEOREM CapacityHolds == Spec => []Capacity
<1>1. Init => Fitting
  BY DEF Init, Fitting, Fits
<1>2. Structure /\ Fitting => Capacity
  BY DEF Fitting, Fits, Capacity, Names
<1>3. Spec => [](Structure /\ Fitting)
  BY <1>1, InitStructure, StructureStep, FittingStep, PTL DEF Spec
<1>. QED  BY <1>2, <1>3, PTL
-----------------------------------------------------------------------------
\* What the round is to bring about, said of any slices: Z are the slices that
\* stay, w what each of them will be, c the slices to create, l the addresses
\* that have no slice yet.
Addresses(slice) == DOMAIN slice.endpoints

Wanted(P) == {a \in Address : P[a] # NoPod /\ P[a].addressed}

WantedOf(P, ports) == {a \in Wanted(P) : P[a].ports \in ports}

\* A slice of the service that says of its endpoints what the pods say.
Right(slice, P) ==
    /\ slice.owned /\ slice.current
    /\ \E a \in Address : P[a] # NoPod /\ P[a].ports = slice.ports
    /\ \A a \in Addresses(slice) :
          a \in Wanted(P) /\ P[a].ports = slice.ports /\ slice.endpoints[a] = P[a].condition

\* No address is in two places.
Apart(Z, w, c, l) ==
    /\ \A sl \in Z, other \in Z : \A a \in Addresses(w[sl]) :
          a \in Addresses(w[other]) => sl = other
    /\ \A i \in 1..Len(c), j \in 1..Len(c) : \A a \in Addresses(c[i]) :
          a \in Addresses(c[j]) => i = j
    /\ \A sl \in Z, i \in 1..Len(c) : \A a \in Addresses(w[sl]) : a \notin Addresses(c[i])
    /\ \A sl \in Z : \A a \in Addresses(w[sl]) : a \notin l
    /\ \A i \in 1..Len(c) : \A a \in Addresses(c[i]) : a \notin l

\* Every address of W is in some place.
Covered(W, Z, w, c, l) ==
    \A a \in W : \/ a \in l
                 \/ \E sl \in Z : a \in Addresses(w[sl])
                 \/ \E i \in 1..Len(c) : a \in Addresses(c[i])

\* A slice that stays takes addresses over from those without a slice.
LEMMA IntoSlice ==
    ASSUME NEW W, NEW Z, NEW w, NEW c, NEW l,
           Apart(Z, w, c, l), Covered(W, Z, w, c, l),
           NEW sl, NEW S \in SUBSET l, NEW w2,
           \A other \in Z : other # sl => w2[other] = w[other],
           IF sl \in Z THEN Addresses(w2[sl]) = Addresses(w[sl]) \cup S
                       ELSE Addresses(w2[sl]) = S
    PROVE  /\ Apart(Z \cup {sl}, w2, c, l \ S)
           /\ Covered(W, Z \cup {sl}, w2, c, l \ S)
<1>1. Covered(W, Z \cup {sl}, w2, c, l \ S)
  <2>1. SUFFICES ASSUME NEW a \in W
                 PROVE  \/ a \in l \ S
                        \/ \E other \in Z \cup {sl} : a \in Addresses(w2[other])
                        \/ \E i \in 1..Len(c) : a \in Addresses(c[i])
    BY DEF Covered
  <2>2. CASE a \in l
    BY <2>2
  <2>3. CASE \E other \in Z : a \in Addresses(w[other])
    BY <2>3
  <2>4. CASE \E i \in 1..Len(c) : a \in Addresses(c[i])
    BY <2>4
  <2>. QED  BY <2>2, <2>3, <2>4 DEF Covered
<1>2. \A other \in Z \cup {sl} : \A a \in Addresses(w2[other]) :
         \/ other \in Z /\ a \in Addresses(w[other])
         \/ other = sl /\ a \in S
  OBVIOUS
<1>3. \A one \in Z \cup {sl}, other \in Z \cup {sl} : \A a \in Addresses(w2[one]) :
         a \in Addresses(w2[other]) => one = other
  BY <1>2 DEF Apart
<1>4. /\ \A other \in Z \cup {sl}, i \in 1..Len(c) : \A a \in Addresses(w2[other]) :
            a \notin Addresses(c[i])
      /\ \A other \in Z \cup {sl} : \A a \in Addresses(w2[other]) : a \notin l \ S
      /\ \A i \in 1..Len(c) : \A a \in Addresses(c[i]) : a \notin l \ S
  BY <1>2 DEF Apart
<1>5. Apart(Z \cup {sl}, w2, c, l \ S)
  BY <1>3, <1>4 DEF Apart
<1>. QED  BY <1>1, <1>5

\* A new slice takes addresses over from those without a slice.
LEMMA IntoNew ==
    ASSUME NEW W, NEW Z, NEW w, NEW c, NEW l, Len(c) \in Nat,
           Apart(Z, w, c, l), Covered(W, Z, w, c, l),
           NEW S \in SUBSET l, NEW c2,
           Len(c2) = Len(c) + 1, \A i \in 1..Len(c) : c2[i] = c[i],
           Addresses(c2[Len(c) + 1]) = S
    PROVE  Apart(Z, w, c2, l \ S) /\ Covered(W, Z, w, c2, l \ S)
<1>. DEFINE n == Len(c) + 1
<1>1. 1..Len(c2) = 1..Len(c) \cup {n} /\ n \notin 1..Len(c)
  OBVIOUS
<1>2. \A i \in 1..Len(c2) : \A a \in Addresses(c2[i]) :
         \/ i \in 1..Len(c) /\ a \in Addresses(c[i])
         \/ i = n /\ a \in S
  BY <1>1
<1>3. Addresses(c2[n]) = S /\ n \in 1..Len(c2) /\ 1..Len(c) \subseteq 1..Len(c2)
  BY <1>1
<1>. HIDE DEF n
<1>4. Covered(W, Z, w, c2, l \ S)
  <2>1. SUFFICES ASSUME NEW a \in W
                 PROVE  \/ a \in l \ S
                        \/ \E sl \in Z : a \in Addresses(w[sl])
                        \/ \E i \in 1..Len(c2) : a \in Addresses(c2[i])
    BY DEF Covered
  <2>2. CASE a \in l
    BY <1>3, <2>2
  <2>3. CASE \E i \in 1..Len(c) : a \in Addresses(c[i])
    BY <1>3, <2>3
  <2>. QED  BY <2>2, <2>3 DEF Covered
<1>5. \A i \in 1..Len(c2), j \in 1..Len(c2) : \A a \in Addresses(c2[i]) :
         a \in Addresses(c2[j]) => i = j
  BY <1>2 DEF Apart
<1>6. /\ \A sl \in Z, i \in 1..Len(c2) : \A a \in Addresses(w[sl]) : a \notin Addresses(c2[i])
      /\ \A sl \in Z : \A a \in Addresses(w[sl]) : a \notin l \ S
      /\ \A i \in 1..Len(c2) : \A a \in Addresses(c2[i]) : a \notin l \ S
  BY <1>2 DEF Apart
<1>. QED  BY <1>4, <1>5, <1>6 DEF Apart

\* Nothing that matters has changed.
LEMMA SameResult ==
    ASSUME NEW Z, NEW w, NEW w2, \A sl \in Z : w2[sl] = w[sl]
    PROVE  /\ \A c, l : Apart(Z, w, c, l) => Apart(Z, w2, c, l)
           /\ \A W, c, l : Covered(W, Z, w, c, l) => Covered(W, Z, w2, c, l)
<1>1. \A c, l : Apart(Z, w, c, l) => Apart(Z, w2, c, l)
  <2>. TAKE c, l
  <2>. HAVE Apart(Z, w, c, l)
  <2>1. /\ \A sl \in Z, other \in Z : \A a \in Addresses(w2[sl]) :
              a \in Addresses(w2[other]) => sl = other
        /\ \A sl \in Z, i \in 1..Len(c) : \A a \in Addresses(w2[sl]) : a \notin Addresses(c[i])
        /\ \A sl \in Z : \A a \in Addresses(w2[sl]) : a \notin l
    BY DEF Apart
  <2>. QED  BY <2>1 DEF Apart
<1>2. \A W, c, l : Covered(W, Z, w, c, l) => Covered(W, Z, w2, c, l)
  BY DEF Covered
<1>. QED  BY <1>1, <1>2

\* Some of the creates take over slices, one each; the others are created.
LEMMA TakeOver ==
    ASSUME NEW W, NEW Z, NEW w, NEW c, Len(c) \in Nat,
           NEW n \in Nat, n <= Len(c),
           NEW R, NEW f \in [R -> (n + 1)..Len(c)], R \cap Z = {},
           \A sl \in R, other \in R : f[sl] = f[other] => sl = other,
           \A i \in (n + 1)..Len(c) : \E sl \in R : f[sl] = i,
           NEW w2, \A sl \in Z : w2[sl] = w[sl], \A sl \in R : w2[sl] = c[f[sl]],
           NEW c2, Len(c2) = n, \A i \in 1..n : c2[i] = c[i],
           Apart(Z, w, c, {}), Covered(W, Z, w, c, {})
    PROVE  Apart(Z \cup R, w2, c2, {}) /\ Covered(W, Z \cup R, w2, c2, {})
<1>. DEFINE More == (n + 1)..Len(c)
<1>1. 1..Len(c) = 1..n \cup More /\ 1..n \cap More = {} /\ 1..Len(c2) = 1..n
  OBVIOUS
<1>2. \A sl \in R : f[sl] \in More
  OBVIOUS
<1>3. \A i \in More : \E sl \in R : f[sl] = i
  OBVIOUS
<1>. HIDE DEF More
<1>4. \A sl \in Z \cup R : \A a \in Addresses(w2[sl]) :
         \/ sl \in Z /\ a \in Addresses(w[sl])
         \/ sl \in R /\ a \in Addresses(c[f[sl]])
  OBVIOUS
<1>5. \A i \in 1..Len(c2) : \A a \in Addresses(c2[i]) :
         i \in 1..Len(c) /\ i \notin More /\ a \in Addresses(c[i])
  BY <1>1
<1>6. Covered(W, Z \cup R, w2, c2, {})
  <2>1. SUFFICES ASSUME NEW a \in W
                 PROVE  \/ \E sl \in Z \cup R : a \in Addresses(w2[sl])
                        \/ \E i \in 1..Len(c2) : a \in Addresses(c2[i])
    BY DEF Covered
  <2>2. CASE \E sl \in Z : a \in Addresses(w[sl])
    BY <2>2
  <2>3. CASE \E i \in 1..Len(c) : a \in Addresses(c[i])
    <3>1. PICK i \in 1..Len(c) : a \in Addresses(c[i])
      BY <2>3
    <3>2. CASE i \in 1..n
      BY <1>1, <3>1, <3>2
    <3>3. CASE i \in More
      BY <1>3, <3>1, <3>3
    <3>. QED  BY <1>1, <3>2, <3>3
  <2>. QED  BY <2>2, <2>3 DEF Covered
<1>7. \A sl \in Z \cup R, other \in Z \cup R : \A a \in Addresses(w2[sl]) :
         a \in Addresses(w2[other]) => sl = other
  <2>1. SUFFICES ASSUME NEW sl \in Z \cup R, NEW other \in Z \cup R,
                        NEW a \in Addresses(w2[sl]), a \in Addresses(w2[other])
                 PROVE  sl = other
    OBVIOUS
  <2>2. CASE sl \in R /\ other \in R
    <3>1. /\ f[sl] \in 1..Len(c) /\ f[other] \in 1..Len(c)
          /\ a \in Addresses(c[f[sl]]) /\ a \in Addresses(c[f[other]])
      BY <1>1, <1>2, <2>1, <2>2
    <3>2. f[sl] = f[other]
      BY <3>1 DEF Apart
    <3>. QED  BY <2>2, <3>2
  <2>3. CASE sl \in Z /\ other \in Z
    BY <1>4, <2>1, <2>3 DEF Apart
  <2>4. CASE (sl \in Z /\ other \in R) \/ (sl \in R /\ other \in Z)
    BY <1>1, <1>2, <1>4, <2>1, <2>4 DEF Apart
  <2>. QED  BY <2>2, <2>3, <2>4
<1>8. \A i \in 1..Len(c2), j \in 1..Len(c2) : \A a \in Addresses(c2[i]) :
         a \in Addresses(c2[j]) => i = j
  BY <1>5 DEF Apart
<1>9. \A sl \in Z \cup R, i \in 1..Len(c2) : \A a \in Addresses(w2[sl]) : a \notin Addresses(c2[i])
  <2>1. SUFFICES ASSUME NEW sl \in Z \cup R, NEW i \in 1..Len(c2), NEW a \in Addresses(w2[sl]),
                        a \in Addresses(c2[i])
                 PROVE  FALSE
    OBVIOUS
  <2>2. i \in 1..Len(c) /\ i \notin More /\ a \in Addresses(c[i])
    BY <1>5, <2>1
  <2>3. CASE sl \in Z /\ a \in Addresses(w[sl])
    BY <2>2, <2>3 DEF Apart
  <2>4. CASE sl \in R /\ a \in Addresses(c[f[sl]])
    <3>1. f[sl] \in 1..Len(c) /\ f[sl] \in More
      BY <1>1, <1>2, <2>4
    <3>2. f[sl] = i
      BY <2>2, <2>4, <3>1 DEF Apart
    <3>. QED  BY <2>2, <3>1, <3>2
  <2>. QED  BY <1>4, <2>1, <2>3, <2>4
<1>. QED  BY <1>6, <1>7, <1>8, <1>9 DEF Apart

\* The first of the slices to create is created.
LEMMA TakeHead ==
    ASSUME NEW W, NEW Z, NEW w, NEW c, Len(c) \in Nat, Len(c) > 0,
           NEW sl, sl \notin Z,
           NEW w2, \A other \in Z : w2[other] = w[other], w2[sl] = c[1],
           NEW c2, Len(c2) = Len(c) - 1, \A i \in 1..Len(c2) : c2[i] = c[i + 1],
           Apart(Z, w, c, {}), Covered(W, Z, w, c, {})
    PROVE  Apart(Z \cup {sl}, w2, c2, {}) /\ Covered(W, Z \cup {sl}, w2, c2, {})
<1>1. \A other \in Z \cup {sl} : \A a \in Addresses(w2[other]) :
         \/ other \in Z /\ a \in Addresses(w[other])
         \/ other = sl /\ a \in Addresses(c[1])
  OBVIOUS
<1>2. \A i \in 1..Len(c2) : i + 1 \in 1..Len(c) /\ i + 1 # 1 /\ c2[i] = c[i + 1]
  OBVIOUS
<1>3. 1 \in 1..Len(c)
  OBVIOUS
<1>4. Covered(W, Z \cup {sl}, w2, c2, {})
  <2>1. SUFFICES ASSUME NEW a \in W
                 PROVE  \/ \E other \in Z \cup {sl} : a \in Addresses(w2[other])
                        \/ \E i \in 1..Len(c2) : a \in Addresses(c2[i])
    BY DEF Covered
  <2>2. CASE \E other \in Z : a \in Addresses(w[other])
    BY <2>2
  <2>3. CASE \E i \in 1..Len(c) : a \in Addresses(c[i])
    <3>1. PICK i \in 1..Len(c) : a \in Addresses(c[i])
      BY <2>3
    <3>2. CASE i = 1
      BY <3>1, <3>2
    <3>3. CASE i # 1
      <4>1. i - 1 \in 1..Len(c2) /\ c2[i - 1] = c[i]
        BY <3>3
      <4>. QED  BY <3>1, <4>1
    <3>. QED  BY <3>2, <3>3
  <2>. QED  BY <2>2, <2>3 DEF Covered
<1>5. \A one \in Z \cup {sl}, other \in Z \cup {sl} : \A a \in Addresses(w2[one]) :
         a \in Addresses(w2[other]) => one = other
  BY <1>1, <1>3 DEF Apart
<1>6. \A i \in 1..Len(c2), j \in 1..Len(c2) : \A a \in Addresses(c2[i]) :
         a \in Addresses(c2[j]) => i = j
  <2>1. SUFFICES ASSUME NEW i \in 1..Len(c2), NEW j \in 1..Len(c2),
                        NEW a \in Addresses(c2[i]), a \in Addresses(c2[j])
                 PROVE  i = j
    OBVIOUS
  <2>2. i + 1 = j + 1
    BY <1>2, <2>1 DEF Apart
  <2>. QED  BY <2>2
<1>7. \A other \in Z \cup {sl}, i \in 1..Len(c2) : \A a \in Addresses(w2[other]) :
         a \notin Addresses(c2[i])
  BY <1>1, <1>2, <1>3 DEF Apart
<1>. QED  BY <1>4, <1>5, <1>6, <1>7 DEF Apart
-----------------------------------------------------------------------------
\* The slices that stay, as far as the round has got: owned ones of the port
\* maps taken on, scanned, and not to be deleted.
Settled == {sl \in Owned : slices[sl].ports \in Taken /\ sl \notin toDelete /\ sl \notin toScan}

\* The plan so far: slices that stay and slices to create say what the pods
\* say, each endpoint of the port maps taken on is in one of them or left over.
Laid ==
    InRound =>
      /\ \A sl \in SliceName : sl \notin updated \cup toUpdate => work[sl] = slices[sl]
      /\ \A sl \in Settled : Right(work[sl], pods) /\ work[sl].ports = slices[sl].ports
      /\ \A i \in 1..Len(toCreate) : Right(toCreate[i], pods) /\ toCreate[i].ports \in Taken
      /\ Apart(Settled, work, toCreate, DOMAIN left)
      /\ Covered(WantedOf(pods, Taken), Settled, work, toCreate, DOMAIN left)

\* What the slices are to be when all calls have succeeded.
Final == [sl \in SliceName |-> IF sl \in toUpdate THEN work[sl] ELSE slices[sl]]

Staying == Names \ toDelete

\* A service with endpoints has only slices of its port maps, one without may
\* have the placeholder alone.
Complete(Z, w, c, P) ==
    \/ /\ \A sl \in Z : Right(w[sl], P)
       /\ \A i \in 1..Len(c) : Right(c[i], P)
       /\ Z # {} \/ Len(c) > 0
    \/ /\ Wanted(P) = {}
       /\ \/ Z = {} /\ Len(c) = 1 /\ c[1] = Placeholder
          \/ Len(c) = 0 /\ \E sl : Z = {sl} /\ w[sl] = Placeholder

\* The same of the plan that finalize carries out.
Planned ==
    phase = "finalize" /\ ~deleting =>
      /\ Complete(Staying, Final, toCreate, pods)
      /\ Apart(Staying, Final, toCreate, {})
      /\ Covered(Wanted(pods), Staying, Final, toCreate, {})

\* The endpoints the pods of one port map want, and what is wanted of them.
LEMMA WantedFacts ==
    ASSUME pods \in Pods
    PROVE  /\ \A pm : DOMAIN Desired(pm) = {a \in Wanted(pods) : pods[a].ports = pm}
           /\ \A a \in Wanted(pods) : a \in Address /\ pods[a].ports \in DesiredPorts
           /\ \A pm : DOMAIN Desired(pm) # {} => pm \in DesiredPorts
<1>1. \A pm : DOMAIN Desired(pm) = {a \in Wanted(pods) : pods[a].ports = pm}
  BY DesiredFacts DEF Wanted
<1>2. \A a \in Wanted(pods) : a \in Address /\ pods[a].ports \in DesiredPorts
  BY DEF Wanted, DesiredPorts
<1>. QED  BY <1>1, <1>2

\* A slice of a group is right if its endpoints are.
LEMMA RightOfGroup ==
    ASSUME pods \in Pods, NEW pm \in DesiredPorts, NEW slice,
           slice.owned, slice.current, slice.ports = pm,
           \A a \in Addresses(slice) : a \in DOMAIN Desired(pm) /\ slice.endpoints[a] = pods[a].condition
    PROVE  Right(slice, pods)
<1>1. \E a \in Address : pods[a] # NoPod /\ pods[a].ports = slice.ports
  BY DEF DesiredPorts
<1>. QED  BY <1>1, WantedFacts DEF Right

\* A round starts with nothing settled.
LEMMA StartLaid == Structure /\ Start => Laid'
<1>. SUFFICES ASSUME Structure, Start PROVE Laid'
  OBVIOUS
<1>1. /\ AtRest /\ todo' = DesiredPorts' /\ toCreate' = << >>
      /\ UNCHANGED <<slices, left, work, updated>> /\ toUpdate' = {}
  BY DEF Start
<1>2. work' = slices' /\ left' = NoEndpoints
  BY <1>1 DEF Structure, Cleared, AtRest, Grouping
<1>3. Taken' = {}
  BY <1>1 DEF Taken
<1>4. Settled' = {} /\ WantedOf(pods', {}) = {} /\ Len(toCreate') = 0
  BY <1>1, <1>3 DEF Settled, WantedOf
<1>5. Apart(Settled', work', toCreate', DOMAIN left')
  BY <1>4 DEF Apart
<1>6. Covered(WantedOf(pods', Taken'), Settled', work', toCreate', DOMAIN left')
  BY <1>3, <1>4 DEF Covered
<1>. QED  BY <1>2, <1>3, <1>4, <1>5, <1>6 DEF Laid

\* A group taken on leaves its endpoints over.
LEMMA StartGroupLaid ==
    ASSUME Structure, Laid, NEW pm \in PortMap, StartGroup(pm)
    PROVE  Laid'
<1>1. /\ phase = "groups" /\ pm \in todo /\ phase' = "scan" /\ todo' = todo \ {pm}
      /\ left' = Desired(pm) /\ toScan' = {sl \in Owned : slices[sl].ports = pm}
      /\ UNCHANGED <<slices, pods, work, updated>> /\ toUpdate' = toUpdate
      /\ toCreate' = toCreate /\ toDelete' = toDelete
  BY DEF StartGroup, plan
<1>2. Names' = Names /\ Owned' = Owned /\ DesiredPorts' = DesiredPorts
  BY <1>1, SameView
<1>3. /\ InRound /\ toScan = {} /\ left = NoEndpoints /\ DOMAIN left = {}
      /\ pm \in DesiredPorts /\ pm \notin Taken /\ Taken' = Taken \cup {pm}
  BY <1>1, <1>2, NoEndpointsFacts DEF Structure, Cleared, Grouping, Placed, InRound, Taken
<1>4. Settled' = Settled
  BY <1>1, <1>2, <1>3 DEF Settled
<1>5. pods \in Pods /\ DOMAIN Desired(pm) = {a \in Wanted(pods) : pods[a].ports = pm}
  BY WantedFacts DEF Structure, TypeOK
<1>6. Apart(Settled, work, toCreate, DOMAIN Desired(pm))
  <2>1. \A sl \in Settled : \A a \in Addresses(work[sl]) : a \notin DOMAIN Desired(pm)
    BY <1>3, <1>5 DEF Laid, Right, Settled
  <2>2. \A i \in 1..Len(toCreate) : \A a \in Addresses(toCreate[i]) : a \notin DOMAIN Desired(pm)
    BY <1>3, <1>5 DEF Laid, Right
  <2>. QED  BY <1>3, <2>1, <2>2 DEF Laid, Apart
<1>7. Covered(WantedOf(pods, Taken \cup {pm}), Settled, work, toCreate, DOMAIN Desired(pm))
  <2>1. SUFFICES ASSUME NEW a \in WantedOf(pods, Taken \cup {pm}), a \notin DOMAIN Desired(pm)
                 PROVE  \/ \E sl \in Settled : a \in Addresses(work[sl])
                        \/ \E i \in 1..Len(toCreate) : a \in Addresses(toCreate[i])
    BY DEF Covered
  <2>2. a \in WantedOf(pods, Taken)
    BY <1>5, <2>1 DEF WantedOf
  <2>. QED  BY <1>3, <2>2 DEF Laid, Covered
<1>. QED  BY <1>1, <1>3, <1>4, <1>6, <1>7 DEF Laid

\* Step 1 settles a slice or gives it up.
LEMMA ScanSliceLaid ==
    ASSUME Structure, Laid, NEW sl \in SliceName, ScanSlice(sl)
    PROVE  Laid'
<1>. DEFINE old  == slices[sl].endpoints
            S    == DOMAIN old \cap DOMAIN left
            kept == Only(left, S)
<1>1. /\ phase = "scan" /\ sl \in toScan /\ toScan' = toScan \ {sl}
      /\ left' = Only(left, DOMAIN left \ DOMAIN kept)
      /\ UNCHANGED <<slices, pods, phase, todo, toCreate, toUpdate>>
  BY DEF ScanSlice
<1>2. InRound /\ Grouping
  BY <1>1 DEF InRound, Grouping
<1>3. Names' = Names /\ Owned' = Owned /\ DesiredPorts' = DesiredPorts /\ Taken' = Taken
  BY <1>1, SameView DEF Taken
<1>4. /\ sl \in Owned /\ left \in Endpoints /\ pods \in Pods /\ slices[sl] \in EndpointSlice
      /\ sl \notin toDelete /\ sl \notin toUpdate /\ sl \notin updated /\ sl \notin Settled
      /\ slices[sl].ports \in Taken /\ slices[sl].owned
  BY <1>1, <1>2, InGroup DEF Structure, Placed, Settled, Owned
<1>5. /\ DOMAIN kept = S /\ (\A a \in S : kept[a] = left[a]) /\ kept \in Endpoints
      /\ DOMAIN left' = DOMAIN left \ S
  <2>1. S \in SUBSET DOMAIN left
    OBVIOUS
  <2>. HIDE DEF S
  <2>2. DOMAIN kept = S /\ (\A a \in S : kept[a] = left[a]) /\ kept \in Endpoints
    BY <1>4, <2>1, OnlyFacts
  <2>3. left' = Only(left, DOMAIN left \ S)
    BY <1>1, <2>2
  <2>4. DOMAIN left' = DOMAIN left \ S
    BY <1>4, <2>3, OnlyFacts
  <2>. QED  BY <2>2, <2>4
<1>6. work[sl] = slices[sl] /\ work \in [SliceName -> EndpointSlice \cup {NoSlice}]
  BY <1>2, <1>4 DEF Laid, Structure, TypeOK
<1>7. PICK pm \in Taken :
        /\ \A other \in toScan \cup updated \cup unchanged : slices[other].ports = pm
        /\ \A a \in DOMAIN left : a \in DOMAIN Desired(pm) /\ left[a] = pods[a].condition
  BY <1>2 DEF Structure, Group
<1>8. InRound'
  BY <1>1 DEF InRound
<1>. HIDE DEF kept
<1>9. CASE /\ kept = NoEndpoints /\ toDelete' = toDelete \cup {sl}
           /\ UNCHANGED <<work, updated>>
  <2>1. S = {}
    BY <1>5, <1>9, NoEndpointsFacts
  <2>2. Settled' = Settled
    BY <1>1, <1>3, <1>4, <1>9 DEF Settled
  <2>. QED  BY <1>1, <1>2, <1>3, <1>5, <1>9, <2>1, <2>2 DEF Laid
<1>10. CASE /\ toDelete' = toDelete
            /\ \/ /\ work' = [work EXCEPT ![sl].endpoints = kept, ![sl].current = TRUE]
                  /\ updated' = updated \cup {sl}
               \/ /\ work' = [work EXCEPT ![sl].current = TRUE] /\ kept = old
                  /\ updated' = updated \cup {sl}
               \/ work' = work /\ updated' = updated /\ kept = old /\ slices[sl].current
  <2>1. /\ work'[sl].owned /\ work'[sl].current /\ work'[sl].ports = pm
        /\ work'[sl].endpoints = kept
        /\ \A other \in SliceName : other # sl => work'[other] = work[other]
    <3>1. slices[sl].ports = pm
      BY <1>1, <1>7
    <3>2. CASE work' = [work EXCEPT ![sl].endpoints = kept, ![sl].current = TRUE]
      <4>1. work'[sl] = [work[sl] EXCEPT !.endpoints = kept, !.current = TRUE]
        BY <1>6, <3>2
      <4>. QED  BY <1>4, <1>6, <3>1, <3>2, <4>1 DEF EndpointSlice
    <3>3. CASE work' = [work EXCEPT ![sl].current = TRUE] /\ kept = old
      <4>1. work'[sl] = [work[sl] EXCEPT !.current = TRUE]
        BY <1>6, <3>3
      <4>. QED  BY <1>4, <1>6, <3>1, <3>3, <4>1 DEF EndpointSlice
    <3>4. CASE work' = work /\ kept = old /\ slices[sl].current
      BY <1>4, <1>6, <3>1, <3>4
    <3>. QED  BY <1>10, <3>2, <3>3, <3>4
  <2>2. Right(work'[sl], pods)
    BY <1>4, <1>5, <1>7, <2>1, RightOfGroup DEF Addresses, Taken
  <2>3. Settled' = Settled \cup {sl}
    BY <1>1, <1>3, <1>4, <1>10 DEF Settled
  <2>4. \A other \in SliceName : other \notin updated' \cup toUpdate' => work'[other] = slices'[other]
    BY <1>1, <1>2, <1>6, <1>10, <2>1 DEF Laid
  <2>5. /\ Apart(Settled \cup {sl}, work', toCreate, DOMAIN left \ S)
        /\ Covered(WantedOf(pods, Taken), Settled \cup {sl}, work', toCreate, DOMAIN left \ S)
    <3>1. \A other \in Settled : other # sl => work'[other] = work[other]
      BY <2>1 DEF Settled, Owned, Names
    <3>2. Addresses(work'[sl]) = S
      BY <1>5, <2>1 DEF Addresses
    <3>. QED  BY <1>2, <1>4, <3>1, <3>2, IntoSlice DEF Laid
  <2>6. \A other \in Settled' :
           Right(work'[other], pods') /\ work'[other].ports = slices'[other].ports
    BY <1>1, <1>2, <1>7, <2>1, <2>2, <2>3 DEF Laid, Settled, Owned, Names
  <2>. QED  BY <1>1, <1>2, <1>3, <1>5, <2>3, <2>4, <2>5, <2>6 DEF Laid
<1>11. kept = Only(left, DOMAIN old \cap DOMAIN left)
  BY DEF kept
<1>. HIDE DEF old, S
<1>12. \/ /\ kept # old /\ kept = NoEndpoints
         /\ toDelete' = toDelete \cup {sl} /\ UNCHANGED <<work, updated, unchanged>>
      \/ /\ work' = [work EXCEPT ![sl].endpoints = kept, ![sl].current = TRUE]
         /\ updated' = updated \cup {sl} /\ UNCHANGED <<toDelete, unchanged>>
      \/ /\ kept = old /\ work' = [work EXCEPT ![sl].current = TRUE]
         /\ updated' = updated \cup {sl} /\ UNCHANGED <<toDelete, unchanged>>
      \/ /\ kept = old /\ slices[sl].current /\ UNCHANGED <<work, updated, toDelete>>
  BY <1>11 DEF ScanSlice, LabelsChanged, old
<1>. QED  BY <1>9, <1>10, <1>12

\* A slice of the group takes some of what is left.
LEMMA AddLaid ==
    ASSUME Structure, Laid, Grouping, phase # "scan", NEW sl \in updated \cup unchanged,
           NEW S \in SUBSET DOMAIN left,
           work' = [work EXCEPT ![sl].endpoints = Join(@, Only(left, S))],
           DOMAIN left' = DOMAIN left \ S, updated' = updated \cup {sl},
           UNCHANGED <<slices, pods, phase, todo, toScan, toCreate, toUpdate, toDelete>>
    PROVE  Laid'
<1>1. InRound /\ InRound' /\ toScan = {}
  BY DEF Grouping, InRound, Structure, Cleared
<1>2. Names' = Names /\ Owned' = Owned /\ DesiredPorts' = DesiredPorts /\ Taken' = Taken
  BY SameView DEF Taken
<1>3. sl \in Settled /\ Settled' = Settled /\ sl \in SliceName
  BY <1>1, <1>2, InGroup DEF Settled, Structure, Placed
<1>4. PICK pm \in Taken :
        /\ \A other \in toScan \cup updated \cup unchanged : slices[other].ports = pm
        /\ \A a \in DOMAIN left : a \in DOMAIN Desired(pm) /\ left[a] = pods[a].condition
  BY DEF Structure, Group
<1>5. /\ work[sl] \in EndpointSlice /\ work[sl].endpoints \in Endpoints /\ left \in Endpoints
      /\ pods \in Pods
  BY <1>1, <1>3, InGroup DEF Settled
<1>6. /\ work'[sl] = [work[sl] EXCEPT !.endpoints = Join(work[sl].endpoints, Only(left, S))]
      /\ \A other \in SliceName : other # sl => work'[other] = work[other]
  BY AddTo
<1>7. /\ Only(left, S) \in Endpoints /\ DOMAIN Only(left, S) = S
      /\ \A a \in S : Only(left, S)[a] = left[a]
  BY <1>5, OnlyFacts
<1>. DEFINE joined == Join(work[sl].endpoints, Only(left, S))
<1>8. /\ DOMAIN joined = DOMAIN work[sl].endpoints \cup S
      /\ \A a \in DOMAIN joined :
            joined[a] = IF a \in DOMAIN work[sl].endpoints THEN work[sl].endpoints[a] ELSE left[a]
  <2>. DEFINE placed == work[sl].endpoints
              added  == Only(left, S)
  <2>1. placed \in Endpoints /\ added \in Endpoints
    BY <1>5, <1>7
  <2>2. DOMAIN added = S /\ \A a \in S : added[a] = left[a]
    BY <1>7
  <2>. HIDE DEF placed, added
  <2>3. /\ DOMAIN Join(placed, added) = DOMAIN placed \cup DOMAIN added
        /\ \A a \in DOMAIN Join(placed, added) :
              Join(placed, added)[a] = IF a \in DOMAIN placed THEN placed[a] ELSE added[a]
    BY <2>1, JoinFacts
  <2>4. /\ DOMAIN Join(placed, added) = DOMAIN placed \cup S
        /\ \A a \in DOMAIN Join(placed, added) :
              Join(placed, added)[a] = IF a \in DOMAIN placed THEN placed[a] ELSE left[a]
    BY <2>2, <2>3
  <2>. QED  BY <2>4 DEF placed, added
<1>9. /\ work'[sl].endpoints = joined /\ work'[sl].ports = work[sl].ports
      /\ work'[sl].owned = work[sl].owned /\ work'[sl].current = work[sl].current
  BY <1>5, <1>6 DEF EndpointSlice
<1>. HIDE DEF joined
<1>10. Right(work[sl], pods) /\ work[sl].ports = pm /\ slices[sl].ports = pm
  BY <1>1, <1>3, <1>4 DEF Laid
<1>11. Right(work'[sl], pods)
  <2>1. \A a \in DOMAIN joined : a \in Wanted(pods) /\ pods[a].ports = pm
                                 /\ joined[a] = pods[a].condition
    <3>1. \A a \in S : a \in Wanted(pods) /\ pods[a].ports = pm /\ left[a] = pods[a].condition
      BY <1>4, <1>5, WantedFacts
    <3>2. \A a \in DOMAIN work[sl].endpoints :
             a \in Wanted(pods) /\ pods[a].ports = pm /\ work[sl].endpoints[a] = pods[a].condition
      BY <1>10 DEF Right, Addresses
    <3>. QED  BY <1>8, <3>1, <3>2
  <2>. QED  BY <1>9, <1>10, <2>1 DEF Right, Addresses
<1>12. \A other \in SliceName : other \notin updated' \cup toUpdate' => work'[other] = slices'[other]
  BY <1>1, <1>6 DEF Laid
<1>13. \A other \in Settled : Right(work'[other], pods) /\ work'[other].ports = slices[other].ports
  BY <1>1, <1>6, <1>9, <1>10, <1>11 DEF Laid, Settled, Owned, Names
<1>14. /\ Apart(Settled, work', toCreate, DOMAIN left \ S)
       /\ Covered(WantedOf(pods, Taken), Settled, work', toCreate, DOMAIN left \ S)
  <2>1. \A other \in Settled : other # sl => work'[other] = work[other]
    BY <1>6 DEF Settled, Owned, Names
  <2>2. Addresses(work'[sl]) = Addresses(work[sl]) \cup S
    BY <1>8, <1>9 DEF Addresses
  <2>3. Settled \cup {sl} = Settled
    BY <1>3
  <2>4. /\ Apart(Settled, work, toCreate, DOMAIN left)
        /\ Covered(WantedOf(pods, Taken), Settled, work, toCreate, DOMAIN left)
    BY <1>1 DEF Laid
  <2>5. /\ Apart(Settled \cup {sl}, work', toCreate, DOMAIN left \ S)
        /\ Covered(WantedOf(pods, Taken), Settled \cup {sl}, work', toCreate, DOMAIN left \ S)
    BY <1>3, <2>1, <2>2, <2>4, IntoSlice
  <2>. QED  BY <2>3, <2>5
<1>. QED  BY <1>1, <1>2, <1>3, <1>12, <1>13, <1>14 DEF Laid

LEMMA FillUpdatedLaid ==
    ASSUME Structure, Laid, NEW sl \in SliceName, FillUpdated(sl)
    PROVE  Laid'
<1>1. /\ phase = "fill" /\ sl \in unfilled
      /\ UNCHANGED <<slices, pods, phase, todo, toScan, updated, toCreate, toUpdate, toDelete>>
  BY DEF FillUpdated, plan
<1>2. PICK S \in Fillings(work[sl].endpoints) :
         /\ work' = [work EXCEPT ![sl].endpoints = Join(@, Only(left, S))]
         /\ left' = Only(left, DOMAIN left \ S)
  BY DEF FillUpdated
<1>3. Grouping /\ sl \in updated /\ S \in SUBSET DOMAIN left /\ updated \cup {sl} = updated
  BY <1>1, <1>2 DEF Grouping, Structure, TypeOK, Fillings
<1>4. DOMAIN left' = DOMAIN left \ S
  BY <1>2, OnlyFacts DEF Structure, TypeOK
<1>. QED  BY <1>1, <1>2, <1>3, <1>4, AddLaid

LEMMA PlaceInUnchangedLaid == Structure /\ Laid /\ PlaceInUnchanged => Laid'
<1>. SUFFICES ASSUME Structure, Laid, PlaceInUnchanged PROVE Laid'
  OBVIOUS
<1>1. /\ phase = "place" /\ left' = NoEndpoints
      /\ UNCHANGED <<slices, pods, phase, todo, toScan, toCreate, toUpdate, toDelete>>
  BY DEF PlaceInUnchanged, plan
<1>2. PICK sl \in unchanged :
         work' = [work EXCEPT ![sl].endpoints = Join(@, left)] /\ updated' = updated \cup {sl}
  BY DEF PlaceInUnchanged, SlicesToFill
<1>3. Grouping /\ left = Only(left, DOMAIN left)
  BY <1>1, EndpointsFacts DEF Grouping, Structure, TypeOK, Only
<1>4. work' = [work EXCEPT ![sl].endpoints = Join(@, Only(left, DOMAIN left))]
  BY <1>2, <1>3
<1>5. DOMAIN left' = DOMAIN left \ DOMAIN left
  BY <1>1, NoEndpointsFacts
<1>. QED  BY <1>1, <1>2, <1>3, <1>4, <1>5, AddLaid

LEMMA PlaceInNewLaid == Structure /\ Laid /\ PlaceInNew => Laid'
<1>. SUFFICES ASSUME Structure, Laid, PlaceInNew PROVE Laid'
  OBVIOUS
<1>1. /\ phase = "place" /\ left # NoEndpoints
      /\ UNCHANGED <<slices, pods, phase, todo, toScan, work, updated, toUpdate, toDelete>>
  BY DEF PlaceInNew
<1>2. PICK S \in Fillings(NoEndpoints) :
         /\ toCreate' = Append(toCreate, NewEndpointSlice(PortsOf(left), Only(left, S)))
         /\ left' = Only(left, DOMAIN left \ S)
  BY DEF PlaceInNew
<1>3. /\ Grouping /\ InRound /\ InRound' /\ S \in SUBSET DOMAIN left /\ left \in Endpoints
      /\ pods \in Pods /\ toCreate \in Seq(EndpointSlice)
  BY <1>1, <1>2 DEF Grouping, InRound, Structure, TypeOK, Fillings
<1>4. PICK pm \in Taken : \A a \in DOMAIN left : a \in DOMAIN Desired(pm) /\ left[a] = pods[a].condition
  BY <1>3 DEF Structure, Group
<1>5. PortsOf(left) = pm
  BY <1>1, <1>3, <1>4, PortsOfLeft
<1>. DEFINE new == NewEndpointSlice(pm, Only(left, S))
<1>6. /\ DOMAIN Only(left, S) = S /\ (\A a \in S : Only(left, S)[a] = left[a])
      /\ DOMAIN left' = DOMAIN left \ S
  BY <1>2, <1>3, OnlyFacts
<1>7. /\ new.owned /\ new.current /\ new.ports = pm /\ Addresses(new) = S
      /\ new.endpoints = Only(left, S)
  BY <1>6 DEF NewEndpointSlice, Addresses
<1>. HIDE DEF new
<1>8. Right(new, pods)
  BY <1>3, <1>4, <1>6, <1>7, RightOfGroup DEF Taken
<1>9. /\ Len(toCreate) \in Nat /\ Len(toCreate') = Len(toCreate) + 1
      /\ \A i \in 1..Len(toCreate) : toCreate'[i] = toCreate[i]
      /\ toCreate'[Len(toCreate) + 1] = new
  BY <1>2, <1>3, <1>5 DEF new
<1>10. Names' = Names /\ Owned' = Owned /\ DesiredPorts' = DesiredPorts /\ Taken' = Taken
  BY <1>1, SameView DEF Taken
<1>11. Settled' = Settled
  BY <1>1, <1>10 DEF Settled
<1>12. \A i \in 1..Len(toCreate') : Right(toCreate'[i], pods') /\ toCreate'[i].ports \in Taken'
  BY <1>1, <1>3, <1>7, <1>8, <1>9, <1>10 DEF Laid
<1>13. /\ Apart(Settled, work, toCreate', DOMAIN left \ S)
       /\ Covered(WantedOf(pods, Taken), Settled, work, toCreate', DOMAIN left \ S)
  BY <1>3, <1>7, <1>9, IntoNew DEF Laid
<1>. QED  BY <1>1, <1>3, <1>6, <1>10, <1>11, <1>12, <1>13 DEF Laid

\* The end of a step of reconcileByPortMapping, and of all of it.
LEMMA PhaseLaid ==
    ASSUME Structure, Laid, ScanDone \/ FillDone \/ GroupDone
    PROVE  Laid'
<1>1. /\ InRound /\ InRound'
      /\ UNCHANGED <<slices, pods, todo, left, toScan, work, toCreate, toDelete>>
      /\ updated' \cup toUpdate' = updated \cup toUpdate
  BY DEF ScanDone, FillDone, GroupDone, packing, plan, InRound
<1>2. Names' = Names /\ Owned' = Owned /\ DesiredPorts' = DesiredPorts /\ Taken' = Taken
  BY <1>1, SameView DEF Taken
<1>3. Settled' = Settled
  BY <1>1, <1>2 DEF Settled
<1>. QED  BY <1>1, <1>2, <1>3 DEF Laid
-----------------------------------------------------------------------------
\* Every create after the first Fresh ones finds a slice to take over.
LEMMA EachTakesOver ==
    ASSUME TypeOK, NEW R, NEW f \in [R -> (Fresh + 1)..Len(Creates)],
           Cardinality(R) = Reused, \A sl, other \in R : f[sl] = f[other] => sl = other
    PROVE  \A i \in (Fresh + 1)..Len(Creates) : \E sl \in R : f[sl] = i
<1>. DEFINE From == (Fresh + 1)..Len(Creates)
<1>1. Fresh \in Nat /\ Len(Creates) \in Nat /\ Reused \in Nat /\ Fresh = Len(Creates) - Reused
  BY AssembleSizes DEF Fresh
<1>2. IsFiniteSet(From) /\ Cardinality(From) = Reused
  <2>1. Fresh + 1 \in Int /\ Len(Creates) \in Int
    BY <1>1
  <2>2. /\ IsFiniteSet(From)
        /\ Cardinality(From) = IF Fresh + 1 > Len(Creates) THEN 0 ELSE Len(Creates) - (Fresh + 1) + 1
    BY <2>1, FS_Interval
  <2>. HIDE DEF From
  <2>. QED  BY <1>1, <2>2
<1>3. f \in Injection(R, From)
  <2>1. \A sl, other \in R : f[sl] = f[other] => sl = other
    OBVIOUS
  <2>. HIDE DEF From
  <2>2. f \in [R -> From]
    BY DEF From
  <2>. QED  BY <2>1, <2>2 DEF Injection, IsInjective
<1>. HIDE DEF From
<1>4. f \in Surjection(R, From)
  BY <1>2, <1>3, FS_Injection
<1>5. \A i \in From : \E sl \in R : f[sl] = i
  BY <1>4 DEF Surjection
<1>. QED  BY <1>5 DEF From

\* When the groups are done, what is settled is what is not to be deleted.
LEMMA GroupsDone ==
    ASSUME Structure, Laid, phase = "groups", todo = {}
    PROVE  /\ Settled = Names \ Dels /\ Settled \subseteq Owned
           /\ \A sl \in Settled : work[sl] = IF sl \in toUpdate THEN work[sl] ELSE slices[sl]
           /\ \A sl \in Settled : Right(work[sl], pods)
           /\ \A i \in 1..Len(toCreate) : Right(toCreate[i], pods)
           /\ Apart(Settled, work, toCreate, {})
           /\ Covered(Wanted(pods), Settled, work, toCreate, {})
           /\ toUpdate \cap Dels = {}
<1>1. /\ InRound /\ toScan = {} /\ DOMAIN left = {} /\ updated = {} /\ Taken = DesiredPorts
      /\ pods \in Pods
  BY NoEndpointsFacts DEF InRound, Structure, Cleared, Grouping, Taken, TypeOK
<1>2. /\ Names \ Owned \subseteq toDelete /\ Owned \subseteq Names /\ toDelete \subseteq Names
      /\ toUpdate \subseteq Owned /\ toUpdate \cap toDelete = {}
      /\ \A sl \in toUpdate : slices[sl].ports \in DesiredPorts
  BY <1>1 DEF Structure, Placed, Owned
<1>3. Settled = Names \ Dels /\ Settled \subseteq Owned
  BY <1>1, <1>2 DEF Settled, Dels, Obsolete
<1>4. toUpdate \cap Dels = {}
  BY <1>2 DEF Dels, Obsolete
<1>5. WantedOf(pods, Taken) = Wanted(pods)
  BY <1>1, WantedFacts DEF WantedOf
<1>6. \A sl \in Settled : work[sl] = IF sl \in toUpdate THEN work[sl] ELSE slices[sl]
  BY <1>1 DEF Laid, Settled, Owned, Names
<1>. QED  BY <1>1, <1>3, <1>4, <1>5, <1>6 DEF Laid

\* Without slices and creates there is no endpoint, and the placeholder is made.
LEMMA NothingLeft ==
    ASSUME Structure, Laid, phase = "groups", todo = {}, Empty
    PROVE  /\ Settled = {} /\ Wanted(pods) = {} /\ Len(Creates) = 1 /\ Creates[1] = Placeholder
           /\ Apart(Settled, work, Creates, {}) /\ Covered(Wanted(pods), Settled, work, Creates, {})
<1>1. Dels = Names
  <2>1. Dels \subseteq Names /\ IsFiniteSet(Names) /\ Cardinality(Dels) = Cardinality(Names)
    BY AssembleSizes DEF Structure, Empty
  <2>. QED  BY <2>1, FS_Subset
<1>2. Settled = {}
  BY <1>1, GroupsDone
<1>3. Creates = <<Placeholder>> /\ Len(toCreate) = 0
  BY DEF Empty, Creates
<1>4. Len(Creates) = 1 /\ Creates[1] = Placeholder
  BY <1>3
<1>5. Covered(Wanted(pods), Settled, work, toCreate, {})
  BY GroupsDone
<1>6. Wanted(pods) = {}
  BY <1>2, <1>3, <1>5 DEF Covered
<1>7. Addresses(Placeholder) = {}
  BY PlaceholderFacts, NoEndpointsFacts DEF Addresses
<1>8. Apart(Settled, work, Creates, {})
  BY <1>2, <1>4, <1>7 DEF Apart
<1>9. Covered(Wanted(pods), Settled, work, Creates, {})
  BY <1>6 DEF Covered
<1>. QED  BY <1>2, <1>4, <1>6, <1>8, <1>9

\* The plan that the round hands to finalize.
LEMMA AssemblePlanned ==
    ASSUME Structure, Laid, Assemble
    PROVE  /\ Complete(Staying', Final', SubSeq(Creates, 1, Fresh), pods)
           /\ Apart(Staying', Final', SubSeq(Creates, 1, Fresh), {})
           /\ Covered(Wanted(pods), Staying', Final', SubSeq(Creates, 1, Fresh), {})
           /\ UNCHANGED pods
           /\ toCreate' = IF deleting THEN << >> ELSE SubSeq(Creates, 1, Fresh)
<1>. DEFINE created == SubSeq(Creates, 1, Fresh)
<1>1. /\ phase = "groups" /\ todo = {} /\ UNCHANGED <<slices, pods, deleting>>
      /\ toCreate' = IF deleting THEN << >> ELSE created
  BY DEF Assemble, Dels, Empty, Creates, Reused, Fresh
<1>2. PICK R \in SUBSET (Dels \cap Owned) : \E f \in [R -> (Fresh + 1)..Len(Creates)] :
             /\ Cardinality(R) = Reused
             /\ \A sl, other \in R : f[sl] = f[other] => sl = other
             /\ \A sl \in R : f[sl] \in 1..Len(Creates)
             /\ work' = [sl \in SliceName |-> IF sl \in R THEN Creates[f[sl]] ELSE work[sl]]
             /\ toUpdate' = toUpdate \cup R
             /\ toDelete' = Dels \ R
  BY AssembleStep DEF Structure
<1>3. PICK f \in [R -> (Fresh + 1)..Len(Creates)] :
             /\ Cardinality(R) = Reused
             /\ \A sl, other \in R : f[sl] = f[other] => sl = other
             /\ \A sl \in R : f[sl] \in 1..Len(Creates)
             /\ work' = [sl \in SliceName |-> IF sl \in R THEN Creates[f[sl]] ELSE work[sl]]
             /\ toUpdate' = toUpdate \cup R
             /\ toDelete' = Dels \ R
  BY <1>2
<1>4. /\ Len(Creates) \in Nat /\ Fresh \in Nat /\ Reused \in Nat /\ Fresh <= Len(Creates)
      /\ Fresh = Len(Creates) - Reused
      /\ Len(created) = Fresh /\ \A i \in 1..Fresh : created[i] = Creates[i]
      /\ Dels \subseteq Names /\ IsFiniteSet(Names) /\ IsFiniteSet(R)
  <2>1. /\ Len(Creates) \in Nat /\ Fresh \in Nat /\ Reused \in Nat /\ Fresh <= Len(Creates)
        /\ Len(created) = Fresh /\ \A i \in 1..Fresh : created[i] = Creates[i]
        /\ Dels \subseteq Names /\ IsFiniteSet(Names)
    BY AssembleSizes DEF Structure
  <2>2. IsFiniteSet(R)
    BY <2>1, FS_Subset DEF Owned
  <2>. QED  BY <2>1, <2>2 DEF Fresh
<1>. HIDE DEF created
<1>5. /\ Settled = Names \ Dels /\ Settled \subseteq SliceName /\ R \subseteq SliceName
      /\ R \cap Settled = {} /\ toUpdate \cap Dels = {}
  BY <1>1, GroupsDone DEF Owned, Names
<1>6. Staying' = Settled \cup R
  <2>1. Names' = Names
    BY <1>1, SameView
  <2>. QED  BY <1>3, <1>4, <1>5, <2>1 DEF Staying
<1>7. \A sl \in Settled : Final'[sl] = work[sl]
  <2>1. \A sl \in Settled : work[sl] = IF sl \in toUpdate THEN work[sl] ELSE slices[sl]
    BY <1>1, GroupsDone
  <2>2. \A sl \in SliceName : Final'[sl] = IF sl \in toUpdate' THEN work'[sl] ELSE slices'[sl]
    BY DEF Final
  <2>. QED  BY <1>1, <1>3, <1>5, <2>1, <2>2
<1>8. \A sl \in R : Final'[sl] = Creates[f[sl]]
  BY <1>3, <1>5 DEF Final
<1>9. Apart(Settled, work, Creates, {}) /\ Covered(Wanted(pods), Settled, work, Creates, {})
  <2>1. CASE Empty
    BY <1>1, <2>1, NothingLeft
  <2>2. CASE ~Empty
    BY <1>1, <2>2, GroupsDone DEF Creates
  <2>. QED  BY <2>1, <2>2
<1>10. \A i \in (Fresh + 1)..Len(Creates) : \E sl \in R : f[sl] = i
  BY <1>3, EachTakesOver DEF Structure
<1>11. /\ Apart(Settled \cup R, Final', created, {})
       /\ Covered(Wanted(pods), Settled \cup R, Final', created, {})
  <2>. DEFINE c == Creates  n == Fresh  Z == Settled  w == work  c2 == created  w2 == Final'
              W == Wanted(pods)
  <2>1. /\ Len(c) \in Nat /\ n \in Nat /\ n <= Len(c) /\ f \in [R -> (n + 1)..Len(c)]
        /\ Len(c2) = n /\ \A i \in 1..n : c2[i] = c[i]
    BY <1>3, <1>4
  <2>2. /\ R \cap Z = {} /\ \A sl \in R, other \in R : f[sl] = f[other] => sl = other
        /\ \A i \in (n + 1)..Len(c) : \E sl \in R : f[sl] = i
    BY <1>3, <1>5, <1>10
  <2>3. (\A sl \in Z : w2[sl] = w[sl]) /\ \A sl \in R : w2[sl] = c[f[sl]]
    BY <1>7, <1>8
  <2>4. Apart(Z, w, c, {}) /\ Covered(W, Z, w, c, {})
    BY <1>9
  <2>. HIDE DEF c, n, Z, w, c2, w2, W
  <2>5. Apart(Z \cup R, w2, c2, {}) /\ Covered(W, Z \cup R, w2, c2, {})
    BY <2>1, <2>2, <2>3, <2>4, TakeOver
  <2>. QED  BY <2>5 DEF Z, c2, w2, W
<1>12. Complete(Settled \cup R, Final', created, pods)
  <2>1. CASE Empty
    <3>1. Settled = {} /\ Wanted(pods) = {} /\ Len(Creates) = 1 /\ Creates[1] = Placeholder
      BY <1>1, <2>1, NothingLeft
    <3>2. CASE Reused = 0
      <4>1. R = {} /\ Len(created) = 1 /\ created[1] = Placeholder
        BY <1>3, <1>4, <3>1, <3>2, FS_EmptySet
      <4>. QED  BY <3>1, <4>1 DEF Complete
    <3>3. CASE Reused # 0
      <4>1. Reused = 1 /\ Len(created) = 0
        BY <1>4, <3>1, <3>3
      <4>2. PICK sl : R = {sl}
        BY <1>3, <1>4, <4>1, FS_Singleton
      <4>3. Final'[sl] = Placeholder
        <5>1. f[sl] = 1
          BY <1>3, <1>4, <3>1, <4>1, <4>2
        <5>. QED  BY <1>8, <3>1, <4>2, <5>1
      <4>. QED  BY <3>1, <4>1, <4>2, <4>3 DEF Complete
    <3>. QED  BY <3>2, <3>3
  <2>2. CASE ~Empty
    <3>1. Creates = toCreate
      BY <2>2 DEF Creates
    <3>2. /\ \A sl \in Settled : Right(work[sl], pods)
          /\ \A i \in 1..Len(Creates) : Right(Creates[i], pods)
      BY <1>1, <3>1, GroupsDone
    <3>3. \A sl \in Settled \cup R : Right(Final'[sl], pods)
      BY <1>3, <1>7, <1>8, <3>2
    <3>4. \A i \in 1..Len(created) : Right(created[i], pods)
      BY <1>4, <3>2
    <3>5. Settled \cup R # {} \/ Len(created) > 0
      <4>1. CASE Len(Creates) = 0
        <5>1. toCreate = << >>
          BY <3>1, <4>1, EmptySeq DEF Structure, TypeOK
        <5>2. Dels # Names
          BY <2>2, <5>1 DEF Empty
        <5>. QED  BY <1>4, <1>5, <5>2
      <4>2. CASE Len(Creates) # 0 /\ Reused # 0
        <5>1. R # {}
          BY <1>3, <4>2, FS_EmptySet
        <5>. QED  BY <5>1
      <4>3. CASE Len(Creates) # 0 /\ Reused = 0
        BY <1>4, <4>3
      <4>. QED  BY <4>1, <4>2, <4>3
    <3>. QED  BY <3>3, <3>4, <3>5 DEF Complete
  <2>. QED  BY <2>1, <2>2
<1>. QED  BY <1>1, <1>6, <1>11, <1>12 DEF created

\* A slice is created: it is then what it was to be.
LEMMA CreateFinal ==
    ASSUME Structure, CreateSlice
    PROVE  \E sl : /\ Staying' = Staying \cup {sl} /\ sl \notin Staying
                   /\ \A other \in Staying : Final'[other] = Final[other]
                   /\ Final'[sl] = toCreate[1]
                   /\ Len(toCreate) > 0 /\ Len(toCreate') = Len(toCreate) - 1
                   /\ \A i \in 1..Len(toCreate') : toCreate'[i] = toCreate[i + 1]
<1>1. /\ toCreate # << >> /\ toCreate' = Tail(toCreate)
      /\ UNCHANGED <<work, toUpdate, toDelete>>
  BY DEF CreateSlice, packing
<1>2. PICK sl \in SliceName \ Names : slices' = [slices EXCEPT ![sl] = Head(toCreate)]
  BY DEF CreateSlice
<1>3. /\ toCreate \in Seq(EndpointSlice) /\ slices \in [SliceName -> EndpointSlice \cup {NoSlice}]
      /\ toUpdate \subseteq Names /\ toDelete \subseteq Names
  BY DEF Structure, TypeOK
<1>4. /\ Head(toCreate) = toCreate[1] /\ Len(toCreate) \in Nat /\ Len(toCreate) > 0
      /\ Len(toCreate') = Len(toCreate) - 1
      /\ \A i \in 1..Len(toCreate') : toCreate'[i] = toCreate[i + 1]
      /\ Head(toCreate) \in EndpointSlice
  <2>1. Len(toCreate) \in Nat /\ Len(toCreate) > 0
    BY <1>1, <1>3, EmptySeq, LenProperties
  <2>2. /\ Head(toCreate) = toCreate[1] /\ Head(toCreate) \in EndpointSlice
        /\ Len(Tail(toCreate)) = Len(toCreate) - 1
        /\ \A i \in 1..Len(Tail(toCreate)) : Tail(toCreate)[i] = toCreate[i + 1]
    BY <1>1, <1>3, HeadTailProperties
  <2>. QED  BY <1>1, <2>1, <2>2
<1>5. Names' = Names \cup {sl}
  BY <1>2, <1>3, <1>4, AbsentAssumption DEF Names
<1>6. Staying' = Staying \cup {sl} /\ sl \notin Staying /\ Staying \subseteq SliceName
  BY <1>1, <1>2, <1>3, <1>5 DEF Staying, Names
<1>7. /\ \A other \in SliceName : Final'[other] = IF other \in toUpdate' THEN work'[other] ELSE slices'[other]
      /\ \A other \in SliceName : Final[other] = IF other \in toUpdate THEN work[other] ELSE slices[other]
  BY DEF Final
<1>8. (\A other \in Staying : Final'[other] = Final[other]) /\ Final'[sl] = toCreate[1]
  <2>1. \A other \in SliceName : other # sl => slices'[other] = slices[other]
    BY <1>2, <1>3
  <2>2. slices'[sl] = toCreate[1] /\ sl \notin toUpdate'
    BY <1>1, <1>2, <1>3, <1>4
  <2>. QED  BY <1>1, <1>2, <1>6, <1>7, <2>1, <2>2
<1>. QED  BY <1>4, <1>6, <1>8

\* What the slices are to be in the end is not changed by bringing it about.
LEMMA WriteFinal ==
    ASSUME Structure, NEW sl \in SliceName, UpdateSlice(sl) \/ DeleteSlice(sl)
    PROVE  Staying' = Staying /\ \A other \in Staying : Final'[other] = Final[other]
<1>1. phase = "finalize" /\ work' = work /\ slices \in [SliceName -> EndpointSlice \cup {NoSlice}]
  BY DEF UpdateSlice, DeleteSlice, packing, Structure, TypeOK
<1>2. /\ \A other \in SliceName : Final'[other] = IF other \in toUpdate' THEN work'[other] ELSE slices'[other]
      /\ \A other \in SliceName : Final[other] = IF other \in toUpdate THEN work[other] ELSE slices[other]
      /\ Staying \subseteq SliceName
  BY DEF Final, Staying, Names
<1>3. CASE UpdateSlice(sl)
  <2>1. /\ sl \in toUpdate /\ toUpdate' = toUpdate \ {sl} /\ toDelete' = toDelete
        /\ slices' = [slices EXCEPT ![sl] = work[sl]]
        /\ work[sl] # NoSlice /\ sl \in Names
    BY <1>1, <1>3 DEF UpdateSlice, Structure, Writing, TypeOK
  <2>2. Names' = Names
    BY <1>1, <2>1 DEF Names
  <2>. QED  BY <1>1, <1>2, <2>1, <2>2 DEF Staying
<1>4. CASE DeleteSlice(sl)
  <2>1. /\ sl \in toDelete /\ toDelete' = toDelete \ {sl} /\ toUpdate' = toUpdate
        /\ slices' = [slices EXCEPT ![sl] = NoSlice]
    BY <1>4 DEF DeleteSlice
  <2>2. Names' = Names \ {sl}
    BY <1>1, <2>1 DEF Names
  <2>3. Staying' = Staying /\ sl \notin Staying
    BY <2>1, <2>2 DEF Staying
  <2>. QED  BY <1>1, <1>2, <2>1, <2>3
<1>. QED  BY <1>3, <1>4

\* A slice is created.
LEMMA CreatePlanned == Structure /\ Planned /\ CreateSlice => Planned'
<1>. SUFFICES ASSUME Structure, Planned, CreateSlice PROVE Planned'
  OBVIOUS
<1>1. phase = "finalize" /\ UNCHANGED <<pods, deleting, phase>> /\ Len(toCreate) \in Nat
  BY AssembleSizes DEF CreateSlice, packing
<1>. SUFFICES ASSUME ~deleting
              PROVE  /\ Complete(Staying', Final', toCreate', pods)
                     /\ Apart(Staying', Final', toCreate', {})
                     /\ Covered(Wanted(pods), Staying', Final', toCreate', {})
  BY <1>1 DEF Planned
<1>2. PICK sl : /\ Staying' = Staying \cup {sl} /\ sl \notin Staying
                /\ \A other \in Staying : Final'[other] = Final[other]
                /\ Final'[sl] = toCreate[1]
                /\ Len(toCreate) > 0 /\ Len(toCreate') = Len(toCreate) - 1
                /\ \A i \in 1..Len(toCreate') : toCreate'[i] = toCreate[i + 1]
  BY CreateFinal
<1>3. /\ Complete(Staying, Final, toCreate, pods) /\ Apart(Staying, Final, toCreate, {})
      /\ Covered(Wanted(pods), Staying, Final, toCreate, {})
  BY <1>1 DEF Planned
<1>4. /\ Apart(Staying \cup {sl}, Final', toCreate', {})
       /\ Covered(Wanted(pods), Staying \cup {sl}, Final', toCreate', {})
  <2>. DEFINE c == toCreate  Z == Staying  w == Final  c2 == toCreate'  w2 == Final'
              W == Wanted(pods)
  <2>1. /\ Len(c) \in Nat /\ Len(c) > 0 /\ sl \notin Z
        /\ (\A other \in Z : w2[other] = w[other]) /\ w2[sl] = c[1]
        /\ Len(c2) = Len(c) - 1 /\ \A i \in 1..Len(c2) : c2[i] = c[i + 1]
        /\ Apart(Z, w, c, {}) /\ Covered(W, Z, w, c, {})
    BY <1>1, <1>2, <1>3
  <2>. HIDE DEF c, Z, w, c2, w2, W
  <2>2. Apart(Z \cup {sl}, w2, c2, {}) /\ Covered(W, Z \cup {sl}, w2, c2, {})
    BY <2>1, TakeHead
  <2>. QED  BY <2>2 DEF Z, c2, w2, W
<1>5. Complete(Staying \cup {sl}, Final', toCreate', pods)
  <2>1. CASE /\ \A other \in Staying : Right(Final[other], pods)
             /\ \A i \in 1..Len(toCreate) : Right(toCreate[i], pods)
    <3>1. \A i \in 1..Len(toCreate') : i + 1 \in 1..Len(toCreate)
      BY <1>1, <1>2
    <3>2. 1 \in 1..Len(toCreate)
      BY <1>1, <1>2
    <3>3. /\ \A other \in Staying \cup {sl} : Right(Final'[other], pods)
          /\ \A i \in 1..Len(toCreate') : Right(toCreate'[i], pods)
      BY <1>1, <1>2, <2>1, <3>1, <3>2
    <3>. QED  BY <3>3 DEF Complete
  <2>2. CASE Wanted(pods) = {} /\ Staying = {} /\ Len(toCreate) = 1 /\ toCreate[1] = Placeholder
    BY <1>1, <1>2, <2>2 DEF Complete
  <2>. QED  BY <1>1, <1>2, <1>3, <2>1, <2>2 DEF Complete
<1>. QED  BY <1>2, <1>4, <1>5

\* A slice is written, or one that is not to stay is deleted.
LEMMA WritePlanned ==
    ASSUME Structure, Planned, NEW sl \in SliceName, UpdateSlice(sl) \/ DeleteSlice(sl)
    PROVE  Planned'
<1>1. phase = "finalize" /\ UNCHANGED <<pods, deleting, phase, toCreate>>
  BY DEF UpdateSlice, DeleteSlice, packing
<1>2. Staying' = Staying /\ \A other \in Staying : Final'[other] = Final[other]
  BY WriteFinal
<1>3. SUFFICES ASSUME ~deleting
               PROVE  /\ Complete(Staying, Final', toCreate, pods)
                      /\ Apart(Staying, Final', toCreate, {})
                      /\ Covered(Wanted(pods), Staying, Final', toCreate, {})
  BY <1>1, <1>2 DEF Planned
<1>4. /\ Complete(Staying, Final, toCreate, pods) /\ Apart(Staying, Final, toCreate, {})
      /\ Covered(Wanted(pods), Staying, Final, toCreate, {})
  BY <1>1, <1>3 DEF Planned
<1>5. /\ Apart(Staying, Final', toCreate, {})
      /\ Covered(Wanted(pods), Staying, Final', toCreate, {})
  BY <1>2, <1>4, SameResult
<1>6. Complete(Staying, Final', toCreate, pods)
  BY <1>2, <1>4 DEF Complete
<1>. QED  BY <1>5, <1>6

\* When the plan has been carried out, the slices are up to date.
LEMMA DoneUpToDate ==
    ASSUME Structure, Planned, phase = "finalize", ~deleting,
           toCreate = << >>, toUpdate = {}, toDelete = {}
    PROVE  UpToDate
<1>1. /\ pods \in Pods /\ IsFiniteSet(Names) /\ Names \subseteq SliceName /\ Len(toCreate) = 0
  BY AssembleSizes DEF Structure, TypeOK, Names
<1>2. Staying = Names /\ \A sl \in Names : Final[sl] = slices[sl]
  BY <1>1 DEF Staying, Final
<1>3. /\ Complete(Names, Final, toCreate, pods) /\ Apart(Names, Final, toCreate, {})
      /\ Covered(Wanted(pods), Names, Final, toCreate, {})
  BY <1>2 DEF Planned
<1>4. /\ \A pm : DOMAIN Desired(pm) = {a \in Wanted(pods) : pods[a].ports = pm}
      /\ \A pm : (\E a \in Address : pods[a] # NoPod /\ pods[a].ports = pm) => pm \in DesiredPorts
  BY <1>1, WantedFacts DEF DesiredPorts
<1>5. \/ Names # {} /\ \A sl \in Names : Right(slices[sl], pods)
      \/ Wanted(pods) = {} /\ \E sl : Names = {sl} /\ slices[sl] = Placeholder
  BY <1>1, <1>2, <1>3 DEF Complete
<1>6. Names # {}
  BY <1>5
<1>7. ASSUME NEW sl \in Names
      PROVE  /\ slices[sl].owned /\ slices[sl].current
             /\ \/ slices[sl].ports \in DesiredPorts
                \/ Names = {sl} /\ slices[sl] = Placeholder
             /\ \A a \in DOMAIN slices[sl].endpoints :
                   /\ a \in DOMAIN Desired(slices[sl].ports)
                   /\ slices[sl].endpoints[a] = pods[a].condition
  <2>1. CASE Right(slices[sl], pods)
    BY <1>4, <2>1 DEF Right, Addresses
  <2>2. CASE Names = {sl} /\ slices[sl] = Placeholder
    BY <2>2, PlaceholderFacts, NoEndpointsFacts
  <2>. QED  BY <1>5, <1>7, <2>1, <2>2
<1>8. ASSUME NEW a \in Address, pods[a] # NoPod, pods[a].addressed
      PROVE  Cardinality({sl \in Names : a \in DOMAIN slices[sl].endpoints}) = 1
  <2>1. a \in Wanted(pods)
    BY <1>8 DEF Wanted
  <2>2. PICK sl \in Names : a \in Addresses(slices[sl])
    BY <1>1, <1>2, <1>3, <2>1 DEF Covered
  <2>3. \A other \in Names : a \in Addresses(slices[other]) => other = sl
    BY <1>2, <1>3, <2>2 DEF Apart
  <2>4. {other \in Names : a \in DOMAIN slices[other].endpoints} = {sl}
    BY <2>2, <2>3 DEF Addresses
  <2>. QED  BY <2>4, FS_Singleton
<1>. QED  BY <1>6, <1>7, <1>8 DEF UpToDate

Agreeing == Structure /\ Laid /\ Planned /\ Exact

LEMMA InitAgreeing == Init => Agreeing
<1>1. Init => Laid /\ Planned /\ Exact
  BY DEF Init, Laid, Planned, Exact, InRound
<1>. QED  BY <1>1, InitStructure DEF Agreeing

LEMMA AgreeingStep == Agreeing /\ [Next]_vars => Agreeing'
<1>. SUFFICES ASSUME Agreeing, [Next]_vars PROVE Laid' /\ Planned' /\ Exact'
  BY StructureStep DEF Agreeing
<1>. USE DEF Agreeing, Next
<1>1. CASE \/ ServiceRelabelled \/ ServiceRecreated \/ (\E sl \in SliceName : SliceLost(sl))
           \/ StartNodeMissing \/ CallFails
  <2>1. phase' = "idle"
    BY <1>1 DEF ServiceRelabelled, ServiceRecreated, SliceLost, Mishap, StartNodeMissing, CallFails
  <2>. QED  BY <2>1 DEF Laid, Planned, Exact, InRound
<1>2. CASE Start
  <2>1. phase' = "groups"
    BY <1>2 DEF Start
  <2>. QED  BY <1>2, <2>1, StartLaid DEF Planned, Exact
<1>3. CASE \/ (\E pm \in PortMap : StartGroup(pm)) \/ (\E sl \in SliceName : ScanSlice(sl))
           \/ ScanDone \/ (\E sl \in SliceName : FillUpdated(sl)) \/ FillDone
           \/ PlaceInUnchanged \/ PlaceInNew \/ GroupDone
  <2>1. phase' \in {"groups", "scan", "fill", "place"}
    BY <1>3 DEF StartGroup, ScanSlice, ScanDone, FillUpdated, FillDone, PlaceInUnchanged,
                PlaceInNew, GroupDone
  <2>2. Laid'
    BY <1>3, StartGroupLaid, ScanSliceLaid, PhaseLaid, FillUpdatedLaid, PlaceInUnchangedLaid,
       PlaceInNewLaid
  <2>. QED  BY <2>1, <2>2 DEF Planned, Exact
<1>4. CASE Assemble
  <2>1. phase' = "finalize" /\ deleting' = deleting
    BY <1>4 DEF Assemble
  <2>2. Planned'
    BY <1>4, <2>1, AssemblePlanned DEF Planned
  <2>. QED  BY <2>1, <2>2 DEF Laid, Exact, InRound
<1>5. CASE CreateSlice \/ (\E sl \in SliceName : UpdateSlice(sl) \/ DeleteSlice(sl))
  <2>1. phase' = "finalize"
    BY <1>5 DEF CreateSlice, UpdateSlice, DeleteSlice
  <2>2. Planned'
    BY <1>5, CreatePlanned, WritePlanned
  <2>. QED  BY <2>1, <2>2 DEF Laid, Exact, InRound
<1>6. CASE FinalizeDone
  <2>1. /\ phase = "finalize" /\ toCreate = << >> /\ toUpdate = {} /\ toDelete = {}
        /\ phase' = "synced" /\ UNCHANGED <<slices, pods, deleting>>
    BY <1>6 DEF FinalizeDone
  <2>2. ~deleting => UpToDate
    BY <2>1, DoneUpToDate
  <2>3. UpToDate' = UpToDate
    BY <2>1, SameView DEF UpToDate
  <2>. QED  BY <2>1, <2>2, <2>3 DEF Laid, Planned, Exact, InRound
<1>7. CASE UNCHANGED vars
  <2>1. UNCHANGED <<slices, pods, deleting, phase, todo, left, toScan, work, updated, toCreate,
                    toUpdate, toDelete>>
    BY <1>7 DEF vars, packing, plan
  <2>2. /\ Names' = Names /\ Owned' = Owned /\ DesiredPorts' = DesiredPorts
        /\ \A pm : Desired(pm)' = Desired(pm)
    BY <2>1, SameView
  <2>3. Taken' = Taken /\ Settled' = Settled /\ Staying' = Staying /\ Final' = Final
        /\ InRound' = InRound
    BY <2>1, <2>2 DEF Taken, Settled, Staying, Final, InRound
  <2>4. UpToDate' = UpToDate
    BY <2>1, <2>2 DEF UpToDate
  <2>. QED  BY <2>1, <2>3, <2>4 DEF Laid, Planned, Exact
<1>. QED  BY <1>1, <1>2, <1>3, <1>4, <1>5, <1>6, <1>7

\* A round that ends without an error leaves the slices up to date, whatever
\* earlier rounds left half done: every endpoint a pod gives is in exactly one
\* slice, in its present condition, and no slice holds another
\* (reconcileByAddressType and finalize in reconciler.go).
THEOREM RoundsAreExact == Spec => []Exact
<1>1. Spec => []Agreeing
  BY InitAgreeing, AgreeingStep, PTL DEF Spec
<1>2. Agreeing => Exact
  BY DEF Agreeing
<1>. QED  BY <1>1, <1>2, PTL
-----------------------------------------------------------------------------
\* A slice publishes an address for the port map its pod has.
Holds(slice, a, P) == a \in Addresses(slice) /\ slice.ports = P[a].ports

\* An address that a settled slice publishes and goes on publishing.
Safe(a) == \E sl \in Settled : Holds(slices[sl], a, pods) /\ a \in Addresses(work[sl])

\* A wanted address that a scanned slice publishes is safe, one that a slice to
\* be scanned publishes is safe or may yet stay there.
Keeping ==
    InRound =>
      /\ \A a \in WantedOf(pods, Taken) :
            (\E sl \in Owned \ toScan : Holds(slices[sl], a, pods)) => Safe(a)
      /\ \A a \in WantedOf(pods, Taken) :
            (\E sl \in toScan : Holds(slices[sl], a, pods)) => a \in DOMAIN left \/ Safe(a)

\* While calls are made: a wanted address that a slice of the service publishes
\* is in one that stays and publishes it in the end, too.
Kept ==
    phase = "finalize" =>
      /\ toUpdate \subseteq Owned
      /\ \A a \in Wanted(pods) :
            (\E sl \in Owned : Holds(slices[sl], a, pods)) =>
               \E sl \in Staying : Holds(slices[sl], a, pods) /\ Holds(Final[sl], a, pods)

LEMMA StartKeeping == Structure /\ Start => Keeping'
<1>. SUFFICES ASSUME Structure, Start PROVE Keeping'
  OBVIOUS
<1>1. todo' = DesiredPorts'
  BY DEF Start
<1>. QED  BY <1>1 DEF Keeping, WantedOf, Taken

LEMMA StartGroupKeeping ==
    ASSUME Structure, Keeping, NEW pm \in PortMap, StartGroup(pm)
    PROVE  Keeping'
<1>1. /\ phase = "groups" /\ pm \in todo /\ phase' = "scan" /\ todo' = todo \ {pm}
      /\ left' = Desired(pm) /\ toScan' = {sl \in Owned : slices[sl].ports = pm}
      /\ UNCHANGED <<slices, pods, work>> /\ toDelete' = toDelete
  BY DEF StartGroup, plan
<1>2. Names' = Names /\ Owned' = Owned /\ DesiredPorts' = DesiredPorts
  BY <1>1, SameView
<1>3. InRound /\ toScan = {} /\ pm \in DesiredPorts /\ pm \notin Taken /\ Taken' = Taken \cup {pm}
  BY <1>1, <1>2 DEF Structure, Cleared, Placed, InRound, Taken
<1>4. Settled' = Settled
  BY <1>1, <1>2, <1>3 DEF Settled
<1>5. \A a : Safe(a) => Safe(a)'
  BY <1>1, <1>4 DEF Safe
<1>6. DOMAIN Desired(pm) = {a \in Wanted(pods) : pods[a].ports = pm}
  BY WantedFacts DEF Structure, TypeOK
<1>7. \A a \in WantedOf(pods, Taken \cup {pm}) :
         (\E sl \in Owned \ toScan' : Holds(slices[sl], a, pods)) => Safe(a)
  BY <1>1, <1>3 DEF Keeping, Holds, WantedOf
<1>8. \A a \in WantedOf(pods, Taken \cup {pm}) :
         (\E sl \in toScan' : Holds(slices[sl], a, pods)) => a \in DOMAIN left'
  BY <1>1, <1>6 DEF Holds, WantedOf
<1>. QED  BY <1>1, <1>2, <1>3, <1>5, <1>7, <1>8 DEF Keeping

LEMMA ScanSliceKeeping ==
    ASSUME Structure, Laid, Keeping, NEW sl \in SliceName, ScanSlice(sl)
    PROVE  Keeping'
<1>. DEFINE old  == slices[sl].endpoints
            S    == DOMAIN old \cap DOMAIN left
            kept == Only(left, S)
<1>1. /\ phase = "scan" /\ sl \in toScan /\ toScan' = toScan \ {sl}
      /\ left' = Only(left, DOMAIN left \ DOMAIN kept)
      /\ UNCHANGED <<slices, pods, phase, todo, toUpdate>>
  BY DEF ScanSlice
<1>2. InRound /\ Names' = Names /\ Owned' = Owned /\ DesiredPorts' = DesiredPorts /\ Taken' = Taken
  BY <1>1, SameView DEF Taken, InRound
<1>3. /\ sl \in Owned /\ left \in Endpoints /\ slices[sl].ports \in Taken
      /\ sl \notin toDelete /\ sl \notin toUpdate /\ sl \notin updated /\ sl \notin Settled
      /\ work[sl] = slices[sl] /\ work[sl] \in EndpointSlice
      /\ work \in [SliceName -> EndpointSlice \cup {NoSlice}]
  BY <1>1, <1>2, InGroup DEF Structure, Placed, Settled, Laid, TypeOK
<1>4. DOMAIN kept = S /\ DOMAIN left' = DOMAIN left \ S
  <2>1. S \in SUBSET DOMAIN left
    OBVIOUS
  <2>. HIDE DEF S
  <2>2. DOMAIN kept = S
    BY <1>3, <2>1, OnlyFacts
  <2>3. left' = Only(left, DOMAIN left \ S)
    BY <1>1, <2>2
  <2>4. DOMAIN left' = DOMAIN left \ S
    BY <1>3, <2>3, OnlyFacts
  <2>. QED  BY <2>2, <2>4
<1>5. kept = Only(left, DOMAIN old \cap DOMAIN left)
  OBVIOUS
<1>. HIDE DEF kept
<1>6. \/ /\ kept = NoEndpoints /\ toDelete' = toDelete \cup {sl} /\ work' = work
      \/ /\ kept # NoEndpoints /\ toDelete' = toDelete
         /\ work' = [work EXCEPT ![sl].endpoints = kept, ![sl].current = TRUE]
      \/ kept = old /\ toDelete' = toDelete /\ work' = [work EXCEPT ![sl].current = TRUE]
      \/ kept = old /\ toDelete' = toDelete /\ work' = work
  BY <1>5 DEF ScanSlice
<1>7. /\ Settled \subseteq Settled'
      /\ \A other \in Settled : work'[other] = work[other]
      /\ S # {} => sl \in Settled' /\ Addresses(work'[sl]) = S
  <2>1. CASE kept = NoEndpoints /\ toDelete' = toDelete \cup {sl} /\ work' = work
    BY <1>1, <1>2, <1>3, <1>4, <2>1, NoEndpointsFacts DEF Settled
  <2>2. CASE toDelete' = toDelete /\ work' = [work EXCEPT ![sl].endpoints = kept, ![sl].current = TRUE]
    <3>1. work'[sl] = [work[sl] EXCEPT !.endpoints = kept, !.current = TRUE]
      BY <1>3, <2>2
    <3>2. work'[sl].endpoints = kept
      BY <1>3, <3>1 DEF EndpointSlice
    <3>3. \A other \in SliceName : other # sl => work'[other] = work[other]
      BY <1>3, <2>2
    <3>. QED  BY <1>1, <1>2, <1>3, <1>4, <2>2, <3>2, <3>3 DEF Settled, Addresses, Owned, Names
  <2>3. CASE kept = old /\ toDelete' = toDelete /\ work' = [work EXCEPT ![sl].current = TRUE]
    <3>1. work'[sl] = [work[sl] EXCEPT !.current = TRUE]
      BY <1>3, <2>3
    <3>2. work'[sl].endpoints = kept
      BY <1>3, <2>3, <3>1 DEF EndpointSlice
    <3>3. \A other \in SliceName : other # sl => work'[other] = work[other]
      BY <1>3, <2>3
    <3>. QED  BY <1>1, <1>2, <1>3, <1>4, <2>3, <3>2, <3>3 DEF Settled, Addresses, Owned, Names
  <2>4. CASE kept = old /\ toDelete' = toDelete /\ work' = work
    BY <1>1, <1>2, <1>3, <1>4, <2>4 DEF Settled, Addresses
  <2>. QED  BY <1>6, <2>1, <2>2, <2>3, <2>4
<1>8. \A a : Safe(a) => Safe(a)'
  BY <1>1, <1>7 DEF Safe
<1>9. \A a \in S : Holds(slices[sl], a, pods) => Safe(a)'
  BY <1>1, <1>7 DEF Safe
<1>10. \A a \in WantedOf(pods, Taken) : Holds(slices[sl], a, pods) => Safe(a)'
  BY <1>1, <1>2, <1>8, <1>9 DEF Keeping, Holds, Addresses
<1>11. \A a \in WantedOf(pods, Taken) :
         (\E other \in Owned \ toScan' : Holds(slices[other], a, pods)) => Safe(a)'
  BY <1>1, <1>2, <1>8, <1>10 DEF Keeping
<1>12. \A a \in WantedOf(pods, Taken) :
         (\E other \in toScan' : Holds(slices[other], a, pods)) => a \in DOMAIN left' \/ Safe(a)'
  <2>1. SUFFICES ASSUME NEW a \in WantedOf(pods, Taken),
                        \E other \in toScan' : Holds(slices[other], a, pods),
                        a \notin DOMAIN left'
                 PROVE  Safe(a)'
    OBVIOUS
  <2>2. a \in DOMAIN left \/ Safe(a)
    BY <1>1, <1>2, <2>1 DEF Keeping
  <2>3. CASE a \in S
    <3>1. slices[sl].ports = pods[a].ports
      BY <1>1, <1>2, <2>1 DEF Structure, Group, Grouping, Holds
    <3>. QED  BY <1>9, <2>3, <3>1 DEF Holds, Addresses
  <2>. QED  BY <1>4, <1>8, <2>1, <2>2, <2>3
<1>. QED  BY <1>1, <1>2, <1>11, <1>12 DEF Keeping

\* The rest of the round takes nothing out of a slice.
LEMMA RestKeeping ==
    ASSUME Structure, Keeping,
           \/ ScanDone \/ FillDone \/ GroupDone \/ PlaceInUnchanged \/ PlaceInNew
           \/ \E sl \in SliceName : FillUpdated(sl)
    PROVE  Keeping'
<1>1. /\ InRound /\ toScan = {} /\ toScan' = {}
      /\ UNCHANGED <<slices, pods, todo, toDelete>>
  BY DEF ScanDone, FillDone, GroupDone, PlaceInUnchanged, PlaceInNew, FillUpdated, packing, plan,
         InRound, Structure, Cleared
<1>2. Names' = Names /\ Owned' = Owned /\ DesiredPorts' = DesiredPorts /\ Taken' = Taken
  BY <1>1, SameView DEF Taken
<1>3. Settled' = Settled
  BY <1>1, <1>2 DEF Settled
<1>4. \A sl \in SliceName : Addresses(work[sl]) \subseteq Addresses(work'[sl])
  <2>1. CASE work' = work
    BY <2>1
  <2>2. ASSUME Grouping, NEW sl \in updated \cup unchanged, NEW S \in SUBSET DOMAIN left,
               work' = [work EXCEPT ![sl].endpoints = Join(@, Only(left, S))]
        PROVE  \A other \in SliceName : Addresses(work[other]) \subseteq Addresses(work'[other])
    <3>1. /\ sl \in SliceName /\ work[sl].endpoints \in Endpoints /\ left \in Endpoints
          /\ work[sl] \in EndpointSlice
      BY <1>1, <2>2, InGroup
    <3>2. /\ work'[sl] = [work[sl] EXCEPT !.endpoints = Join(work[sl].endpoints, Only(left, S))]
          /\ \A other \in SliceName : other # sl => work'[other] = work[other]
      BY <2>2, AddTo
    <3>3. work'[sl].endpoints = Join(work[sl].endpoints, Only(left, S))
      BY <3>1, <3>2 DEF EndpointSlice
    <3>4. DOMAIN work[sl].endpoints \subseteq DOMAIN Join(work[sl].endpoints, Only(left, S))
      <4>1. Only(left, S) \in Endpoints
        BY <3>1, <2>2, OnlyFacts
      <4>. DEFINE placed == work[sl].endpoints
                  added  == Only(left, S)
      <4>2. placed \in Endpoints /\ added \in Endpoints
        BY <3>1, <4>1
      <4>. HIDE DEF placed, added
      <4>3. DOMAIN placed \subseteq DOMAIN Join(placed, added)
        BY <4>2, JoinFacts
      <4>. QED  BY <4>3 DEF placed, added
    <3>. QED  BY <3>2, <3>3, <3>4 DEF Addresses
  <2>3. CASE PlaceInUnchanged
    <3>1. PICK sl \in unchanged : work' = [work EXCEPT ![sl].endpoints = Join(@, left)]
      BY <2>3 DEF PlaceInUnchanged, SlicesToFill
    <3>2. Grouping /\ left = Only(left, DOMAIN left)
      BY <2>3, EndpointsFacts DEF PlaceInUnchanged, Grouping, Structure, TypeOK, Only
    <3>3. work' = [work EXCEPT ![sl].endpoints = Join(@, Only(left, DOMAIN left))]
      BY <3>1, <3>2
    <3>. QED  BY <2>2, <3>2, <3>3
  <2>4. CASE \E sl \in SliceName : FillUpdated(sl)
    <3>1. PICK sl \in SliceName : FillUpdated(sl)
      BY <2>4
    <3>2. PICK S \in Fillings(work[sl].endpoints) :
             work' = [work EXCEPT ![sl].endpoints = Join(@, Only(left, S))]
      BY <3>1 DEF FillUpdated
    <3>3. Grouping /\ sl \in updated /\ S \in SUBSET DOMAIN left
      BY <3>1, <3>2 DEF FillUpdated, Grouping, Structure, TypeOK, Fillings
    <3>. QED  BY <2>2, <3>2, <3>3
  <2>. QED  BY <2>1, <2>3, <2>4 DEF ScanDone, FillDone, GroupDone, PlaceInNew, packing
<1>5. \A a : Safe(a) => Safe(a)'
  <2>1. Settled \subseteq SliceName
    BY DEF Settled, Owned, Names
  <2>. QED  BY <1>1, <1>3, <1>4, <2>1 DEF Safe
<1>. QED  BY <1>1, <1>2, <1>5 DEF Keeping

\* At the end of the round, what is settled stays as it is to be.
LEMMA AssembleKept == Structure /\ Laid /\ Keeping /\ Assemble => Kept'
<1>. SUFFICES ASSUME Structure, Laid, Keeping, Assemble PROVE Kept'
  OBVIOUS
<1>1. phase = "groups" /\ todo = {} /\ UNCHANGED <<slices, pods, todo, toScan>> /\ phase' = "finalize"
  BY DEF Assemble
<1>2. PICK R \in SUBSET (Dels \cap Owned) : \E f \in [R -> (Fresh + 1)..Len(Creates)] :
             /\ work' = [sl \in SliceName |-> IF sl \in R THEN Creates[f[sl]] ELSE work[sl]]
             /\ toUpdate' = toUpdate \cup R
             /\ toDelete' = Dels \ R
  BY AssembleStep DEF Structure
<1>3. /\ InRound /\ toScan = {} /\ pods \in Pods /\ toUpdate \subseteq Owned
      /\ Names' = Names /\ Owned' = Owned /\ Taken = DesiredPorts
  BY <1>1, SameView DEF InRound, Structure, Cleared, Placed, TypeOK, Taken
<1>4. /\ Settled = Names \ Dels /\ Settled \subseteq SliceName
      /\ \A sl \in Settled : work[sl] = IF sl \in toUpdate THEN work[sl] ELSE slices[sl]
      /\ \A sl \in Settled : work[sl].ports = slices[sl].ports
  BY <1>1, <1>3, GroupsDone DEF Laid, Settled, Owned, Names
<1>5. Settled \subseteq Staying'
  BY <1>2, <1>3, <1>4 DEF Staying
<1>6. \A sl \in Settled : Final'[sl] = work[sl]
  <2>1. \A sl \in SliceName : Final'[sl] = IF sl \in toUpdate' THEN work'[sl] ELSE slices'[sl]
    BY DEF Final
  <2>2. \A sl \in Settled : sl \notin R /\ work'[sl] = work[sl]
    BY <1>2, <1>4
  <2>. QED  BY <1>1, <1>2, <1>4, <2>1, <2>2
<1>7. ASSUME NEW a \in Wanted(pods), \E sl \in Owned : Holds(slices[sl], a, pods)
      PROVE  \E sl \in Staying' : Holds(slices[sl], a, pods) /\ Holds(Final'[sl], a, pods)
  <2>1. a \in WantedOf(pods, Taken)
    BY <1>3, <1>7, WantedFacts DEF WantedOf
  <2>2. Safe(a)
    BY <1>3, <1>7, <2>1 DEF Keeping
  <2>3. PICK sl \in Settled : Holds(slices[sl], a, pods) /\ a \in Addresses(work[sl])
    BY <2>2 DEF Safe
  <2>4. Holds(Final'[sl], a, pods)
    BY <1>4, <1>6, <2>3 DEF Holds
  <2>. QED  BY <1>5, <2>3, <2>4
<1>8. toUpdate' \subseteq Owned'
  BY <1>2, <1>3
<1>. QED  BY <1>1, <1>3, <1>7, <1>8 DEF Kept

LEMMA CreateKept == Structure /\ Kept /\ CreateSlice => Kept'
<1>. SUFFICES ASSUME Structure, Kept, CreateSlice PROVE Kept'
  OBVIOUS
<1>1. /\ phase = "finalize" /\ UNCHANGED <<pods, phase, work, toUpdate, toDelete>>
      /\ slices \in [SliceName -> EndpointSlice \cup {NoSlice}]
      /\ toUpdate \subseteq Names /\ toDelete \subseteq Names /\ toUpdate \subseteq Owned
  BY DEF CreateSlice, packing, Structure, TypeOK, Kept
<1>2. PICK sl \in SliceName \ Names : slices' = [slices EXCEPT ![sl] = Head(toCreate)]
  BY DEF CreateSlice
<1>3. \A other \in SliceName : other # sl => slices'[other] = slices[other]
  BY <1>1, <1>2
<1>4. /\ Owned \subseteq Owned' /\ Owned' \subseteq Owned \cup {sl} /\ Staying \subseteq Staying'
      /\ sl \notin Owned /\ sl \notin Staying /\ Owned' \subseteq Names' /\ Staying \subseteq SliceName
      /\ sl \notin toUpdate' /\ sl \notin toDelete'
  BY <1>1, <1>2, <1>3 DEF Owned, Staying, Names
<1>5. /\ \A other \in SliceName : Final'[other] = IF other \in toUpdate' THEN work'[other] ELSE slices'[other]
      /\ \A other \in SliceName : Final[other] = IF other \in toUpdate THEN work[other] ELSE slices[other]
  BY DEF Final
<1>6. ASSUME NEW a \in Wanted(pods), \E other \in Owned' : Holds(slices'[other], a, pods)
      PROVE  \E other \in Staying' : Holds(slices'[other], a, pods) /\ Holds(Final'[other], a, pods)
  <2>1. PICK other \in Owned' : Holds(slices'[other], a, pods)
    BY <1>6
  <2>2. CASE other = sl
    <3>1. sl \in Staying' /\ Final'[sl] = slices'[sl]
      BY <1>2, <1>4, <1>5, <2>1, <2>2 DEF Staying
    <3>. QED  BY <2>1, <2>2, <3>1
  <2>3. CASE other \in Owned
    <3>1. Holds(slices[other], a, pods)
      BY <1>3, <1>4, <2>1, <2>3 DEF Owned, Names
    <3>2. PICK z \in Staying : Holds(slices[z], a, pods) /\ Holds(Final[z], a, pods)
      BY <1>1, <2>3, <3>1 DEF Kept
    <3>3. slices'[z] = slices[z] /\ Final'[z] = Final[z] /\ z \in Staying'
      BY <1>1, <1>3, <1>4, <1>5
    <3>. QED  BY <3>2, <3>3
  <2>. QED  BY <1>4, <2>2, <2>3
<1>. QED  BY <1>1, <1>4, <1>6 DEF Kept

LEMMA WriteKept ==
    ASSUME Structure, Kept, NEW sl \in SliceName, UpdateSlice(sl) \/ DeleteSlice(sl)
    PROVE  Kept'
<1>1. /\ phase = "finalize" /\ UNCHANGED <<pods, phase, work>>
      /\ slices \in [SliceName -> EndpointSlice \cup {NoSlice}]
      /\ toUpdate \subseteq Owned /\ toUpdate \cap toDelete = {}
  BY DEF UpdateSlice, DeleteSlice, packing, Structure, TypeOK, Kept
<1>2. /\ \A other \in SliceName : Final'[other] = IF other \in toUpdate' THEN work'[other] ELSE slices'[other]
      /\ \A other \in SliceName : Final[other] = IF other \in toUpdate THEN work[other] ELSE slices[other]
      /\ Staying \subseteq SliceName /\ Owned \subseteq SliceName
  BY DEF Final, Staying, Names, Owned
<1>3. CASE UpdateSlice(sl)
  <2>1. /\ sl \in toUpdate /\ toUpdate' = toUpdate \ {sl} /\ toDelete' = toDelete
        /\ slices' = [slices EXCEPT ![sl] = work[sl]]
        /\ work[sl] # NoSlice /\ sl \in Names
    BY <1>1, <1>3 DEF UpdateSlice, Structure, Writing, Owned
  <2>2. /\ Names' = Names /\ Staying' = Staying /\ sl \in Staying
        /\ \A other \in SliceName : other # sl => slices'[other] = slices[other]
        /\ slices'[sl] = work[sl]
    BY <1>1, <2>1 DEF Names, Staying
  <2>3. \A other \in Staying : Final'[other] = Final[other]
    BY <1>1, <1>2, <2>1, <2>2
  <2>4. Final[sl] = slices'[sl]
    BY <1>2, <2>1, <2>2
  <2>5. ASSUME NEW a \in Wanted(pods), \E other \in Owned' : Holds(slices'[other], a, pods)
        PROVE  \E other \in Staying' : Holds(slices'[other], a, pods) /\ Holds(Final'[other], a, pods)
    <3>1. PICK other \in Owned' : Holds(slices'[other], a, pods)
      BY <2>5
    <3>2. CASE other = sl
      BY <2>2, <2>3, <2>4, <3>1, <3>2
    <3>3. CASE other # sl
      <4>1. other \in Owned /\ Holds(slices[other], a, pods)
        BY <2>2, <3>1, <3>3 DEF Owned, Names
      <4>2. PICK z \in Staying : Holds(slices[z], a, pods) /\ Holds(Final[z], a, pods)
        BY <1>1, <4>1 DEF Kept
      <4>3. Holds(slices'[z], a, pods)
        BY <1>2, <2>2, <2>4, <4>2
      <4>. QED  BY <2>2, <2>3, <4>2, <4>3
    <3>. QED  BY <3>2, <3>3
  <2>6. toUpdate' \subseteq Owned'
    BY <1>1, <2>1, <2>2 DEF Owned, Names
  <2>. QED  BY <1>1, <2>5, <2>6 DEF Kept
<1>4. CASE DeleteSlice(sl)
  <2>1. /\ sl \in toDelete /\ toDelete' = toDelete \ {sl} /\ toUpdate = {} /\ toUpdate' = {}
        /\ slices' = [slices EXCEPT ![sl] = NoSlice]
    BY <1>4 DEF DeleteSlice
  <2>2. /\ Names' = Names \ {sl} /\ Staying' = Staying /\ sl \notin Staying
        /\ \A other \in SliceName : other # sl => slices'[other] = slices[other]
    BY <1>1, <2>1 DEF Names, Staying
  <2>3. \A other \in Staying : Final'[other] = Final[other] /\ slices'[other] = slices[other]
    BY <1>2, <2>1, <2>2
  <2>4. \A other \in Owned' : other \in Owned /\ slices'[other] = slices[other]
    BY <2>2 DEF Owned, Names
  <2>5. ASSUME NEW a \in Wanted(pods), \E other \in Owned' : Holds(slices'[other], a, pods)
        PROVE  \E other \in Staying' : Holds(slices'[other], a, pods) /\ Holds(Final'[other], a, pods)
    <3>1. PICK z \in Staying : Holds(slices[z], a, pods) /\ Holds(Final[z], a, pods)
      BY <1>1, <2>4, <2>5 DEF Kept
    <3>. QED  BY <2>2, <2>3, <3>1
  <2>. QED  BY <1>1, <2>1, <2>5 DEF Kept
<1>. QED  BY <1>3, <1>4

\* In these terms, what NeverLost says of one step.
LEMMA PublishedFacts ==
    ASSUME pods \in Pods, NEW a \in Address, NEW pm, a \in DOMAIN Desired(pm)
    PROVE  /\ a \in Wanted(pods) /\ pods[a].ports = pm
           /\ Published(a, pm) <=> \E sl \in Names : Holds(slices[sl], a, pods)
BY WantedFacts DEF Published, Holds, Addresses

Untaken ==
    \A a \in Address, pm \in PortMap :
       phase = "finalize" /\ ~deleting /\ a \in DOMAIN Desired(pm) /\ Published(a, pm)
       => Published(a, pm)'

LEMMA UntakenStep ==
    ASSUME Agreeing, Kept, Next
    PROVE  Untaken
<1>. SUFFICES ASSUME NEW a \in Address, NEW pm \in PortMap, phase = "finalize", ~deleting,
                     a \in DOMAIN Desired(pm), Published(a, pm)
              PROVE  Published(a, pm)'
  BY DEF Untaken
<1>1. /\ pods \in Pods /\ slices \in [SliceName -> EndpointSlice \cup {NoSlice}]
      /\ toUpdate \cap toDelete = {} /\ toUpdate \subseteq Owned
  BY DEF Agreeing, Structure, TypeOK, Kept
<1>2. /\ a \in Wanted(pods) /\ pods[a].ports = pm
      /\ \E sl \in Names : Holds(slices[sl], a, pods)
  BY <1>1, PublishedFacts
<1>3. PICK old \in Names : Holds(slices[old], a, pods)
  BY <1>2
<1>4. SUFFICES \E sl \in Names' : slices'[sl].ports = pm /\ a \in Addresses(slices'[sl])
  BY DEF Published, Addresses
<1>5. CASE CreateSlice
  <2>1. PICK sl \in SliceName \ Names : slices' = [slices EXCEPT ![sl] = Head(toCreate)]
    BY <1>5 DEF CreateSlice
  <2>2. old \in Names' /\ slices'[old] = slices[old]
    BY <1>1, <1>3, <2>1 DEF Names
  <2>. QED  BY <1>2, <1>3, <2>2 DEF Holds
<1>6. CASE \E sl \in SliceName : UpdateSlice(sl)
  <2>1. PICK sl \in SliceName : UpdateSlice(sl)
    BY <1>6
  <2>2. /\ sl \in toUpdate /\ slices' = [slices EXCEPT ![sl] = work[sl]]
        /\ work[sl] # NoSlice /\ sl \in Owned
    BY <1>1, <2>1 DEF UpdateSlice, Agreeing, Structure, Writing
  <2>3. /\ Names' = Names /\ slices'[sl] = work[sl]
        /\ \A other \in SliceName : other # sl => slices'[other] = slices[other]
    BY <1>1, <2>2 DEF Names, Owned
  <2>4. CASE old # sl
    BY <1>2, <1>3, <2>3, <2>4 DEF Holds, Names
  <2>5. CASE old = sl
    <3>1. PICK z \in Staying : Holds(slices[z], a, pods) /\ Holds(Final[z], a, pods)
      BY <1>2, <1>3, <2>2, <2>5 DEF Kept
    <3>2. z \in Names /\ z \in SliceName /\ (z = sl => Final[z] = work[sl])
      BY <2>2 DEF Staying, Names, Final
    <3>. QED  BY <1>2, <2>3, <3>1, <3>2 DEF Holds
  <2>. QED  BY <2>4, <2>5
<1>7. CASE \E sl \in SliceName : DeleteSlice(sl)
  <2>1. PICK sl \in SliceName : DeleteSlice(sl)
    BY <1>7
  <2>2. /\ toCreate = << >> /\ toUpdate = {} /\ sl \in toDelete
        /\ slices' = [slices EXCEPT ![sl] = NoSlice]
    BY <2>1 DEF DeleteSlice
  <2>3. /\ Complete(Staying, Final, toCreate, pods)
        /\ Covered(Wanted(pods), Staying, Final, toCreate, {})
    BY DEF Agreeing, Planned
  <2>4. Len(toCreate) = 0 /\ \A z \in Staying : Right(Final[z], pods)
    BY <1>2, <2>2, <2>3 DEF Complete
  <2>5. PICK z \in Staying : a \in Addresses(Final[z])
    BY <1>2, <2>3, <2>4 DEF Covered
  <2>6. Final[z].ports = pm
    BY <1>2, <2>4, <2>5 DEF Right
  <2>7. Final[z] = slices[z] /\ z \in Names' /\ slices'[z] = slices[z]
    BY <1>1, <2>2, <2>5 DEF Staying, Names, Final
  <2>. QED  BY <2>5, <2>6, <2>7
<1>8. CASE CallFails \/ FinalizeDone
  <2>1. Names' = Names /\ slices' = slices
    BY <1>8 DEF CallFails, FinalizeDone, Names
  <2>. QED  BY <1>2, <1>3, <2>1 DEF Holds
<1>9. CreateSlice \/ (\E sl \in SliceName : UpdateSlice(sl) \/ DeleteSlice(sl))
      \/ CallFails \/ FinalizeDone
  BY DEF Next, ServiceRelabelled, ServiceRecreated, SliceLost, Mishap, AtRest, Start,
         StartNodeMissing, StartGroup, ScanSlice, ScanDone, FillUpdated, FillDone,
         PlaceInUnchanged, PlaceInNew, GroupDone, Assemble
<1>. QED  BY <1>5, <1>6, <1>7, <1>8, <1>9

LEMMA KeepingStep ==
    ASSUME Agreeing, Keeping, Kept, [Next]_vars
    PROVE  Keeping' /\ Kept'
<1>. USE DEF Agreeing, Next
<1>1. CASE \/ ServiceRelabelled \/ ServiceRecreated \/ (\E sl \in SliceName : SliceLost(sl))
           \/ StartNodeMissing \/ CallFails \/ FinalizeDone
  <2>1. phase' \in {"idle", "synced"}
    BY <1>1 DEF ServiceRelabelled, ServiceRecreated, SliceLost, Mishap, StartNodeMissing, CallFails,
                FinalizeDone
  <2>. QED  BY <2>1 DEF Keeping, Kept, InRound
<1>2. CASE Start
  BY <1>2, StartKeeping DEF Start, Kept
<1>3. CASE \/ (\E pm \in PortMap : StartGroup(pm)) \/ (\E sl \in SliceName : ScanSlice(sl))
           \/ ScanDone \/ (\E sl \in SliceName : FillUpdated(sl)) \/ FillDone
           \/ PlaceInUnchanged \/ PlaceInNew \/ GroupDone
  <2>1. phase' \in {"groups", "scan", "fill", "place"}
    BY <1>3 DEF StartGroup, ScanSlice, ScanDone, FillUpdated, FillDone, PlaceInUnchanged,
                PlaceInNew, GroupDone
  <2>2. Keeping'
    BY <1>3, StartGroupKeeping, ScanSliceKeeping, RestKeeping
  <2>. QED  BY <2>1, <2>2 DEF Kept
<1>4. CASE Assemble
  BY <1>4, AssembleKept DEF Assemble, Keeping, InRound
<1>5. CASE CreateSlice \/ (\E sl \in SliceName : UpdateSlice(sl) \/ DeleteSlice(sl))
  <2>1. phase' = "finalize"
    BY <1>5 DEF CreateSlice, UpdateSlice, DeleteSlice
  <2>2. Kept'
    BY <1>5, CreateKept, WriteKept
  <2>. QED  BY <2>1, <2>2 DEF Keeping, InRound
<1>6. CASE UNCHANGED vars
  <2>1. UNCHANGED <<slices, pods, phase, todo, left, toScan, work, toUpdate, toDelete>>
    BY <1>6 DEF vars, packing, plan
  <2>2. Names' = Names /\ Owned' = Owned /\ DesiredPorts' = DesiredPorts
    BY <2>1, SameView
  <2>3. /\ Taken' = Taken /\ Settled' = Settled /\ Staying' = Staying /\ Final' = Final
        /\ InRound' = InRound
    BY <2>1, <2>2 DEF Taken, Settled, Staying, Final, InRound
  <2>4. \A a : Safe(a)' <=> Safe(a)
    BY <2>1, <2>3 DEF Safe
  <2>. QED  BY <2>1, <2>2, <2>3, <2>4 DEF Keeping, Kept
<1>. QED  BY <1>1, <1>2, <1>3, <1>4, <1>5, <1>6

\* A round never takes an endpoint that stays wanted away, not even for the
\* time between two of its calls (creates, then updates, then deletes in
\* finalize; a created slice takes over a slice that no endpoint stays in).
THEOREM EndpointsStay == Spec => NeverLost
<1>1. Init => Keeping /\ Kept
  BY DEF Init, Keeping, Kept, InRound
<1>2. Agreeing /\ Keeping /\ Kept /\ [Next]_vars => (Keeping /\ Kept)'
  BY KeepingStep
<1>3. Agreeing /\ Kept /\ [Next]_vars => [Untaken]_vars
  BY UntakenStep
<1>4. Spec => [][Untaken]_vars
  BY <1>1, <1>2, <1>3, InitAgreeing, AgreeingStep, PTL DEF Spec
<1>. QED  BY <1>4 DEF NeverLost, Untaken
-----------------------------------------------------------------------------
\* Something a call of finalize would have to do for a slice of the service.
Wrong(sl) == ~Right(slices[sl], pods)

Changed(sl) == Wrong(sl) \/ Addresses(work[sl]) # Addresses(slices[sl])

Useless(sl) == Wrong(sl) \/ Addresses(slices[sl]) # {}

\* While the plan is made nothing is put on it without need: a slice to delete
\* is wrong or loses endpoints, a slice to update is wrong or gets others, a
\* slice to create has endpoints.
Worthwhile ==
    InRound =>
      /\ \A sl \in toDelete : Useless(sl)
      /\ \A sl \in updated \cup toUpdate : Changed(sl)
      /\ \A i \in 1..Len(toCreate) : Addresses(toCreate[i]) # {}

\* The same of the calls still to be made, for a service with endpoints; and, as
\* Planned leaves it out, that no endpoint is to be in two slices of a service
\* pending deletion.
Pending ==
    phase = "finalize" =>
      /\ Wanted(pods) # {} =>
           /\ \A sl \in toDelete : Useless(sl)
           /\ \A sl \in toUpdate : Changed(sl)
           /\ \A i \in 1..Len(toCreate) : Addresses(toCreate[i]) # {}
      /\ deleting =>
           /\ toCreate = << >> /\ Apart(Staying, Final, << >>, {})
           /\ \A sl \in Staying : \A a \in Addresses(Final[sl]) : a \in Wanted(pods)

\* What is planned has only endpoints that are wanted.
LEMMA CompleteFacts ==
    ASSUME NEW Z, NEW w, NEW c, NEW P, Complete(Z, w, c, P)
    PROVE  /\ \A sl \in Z : \A a \in Addresses(w[sl]) : a \in Wanted(P)
           /\ \A i \in 1..Len(c) : \A a \in Addresses(c[i]) : a \in Wanted(P)
<1>1. Addresses(Placeholder) = {}
  BY PlaceholderFacts, NoEndpointsFacts DEF Addresses
<1>2. CASE (\A sl \in Z : Right(w[sl], P)) /\ \A i \in 1..Len(c) : Right(c[i], P)
  BY <1>2 DEF Right
<1>3. CASE Z = {} /\ Len(c) = 1 /\ c[1] = Placeholder
  BY <1>1, <1>3
<1>4. CASE Len(c) = 0 /\ \E sl : Z = {sl} /\ w[sl] = Placeholder
  BY <1>1, <1>4
<1>. QED  BY <1>2, <1>3, <1>4 DEF Complete

\* An endpoint that is left over, or in a slice to create, is in no slice of the
\* service that is right.
LEMMA LeftIsNew ==
    ASSUME Structure, Laid, Keeping, InRound, toScan = {},
           NEW sl \in Owned, ~Wrong(sl), NEW a \in Addresses(slices[sl]),
           slices[sl].ports \in Taken
    PROVE  /\ a \notin DOMAIN left
           /\ \A i \in 1..Len(toCreate) : a \notin Addresses(toCreate[i])
<1>1. a \in WantedOf(pods, Taken) /\ Holds(slices[sl], a, pods)
  BY DEF Wrong, Right, WantedOf, Holds
<1>2. PICK z \in Settled : a \in Addresses(work[z])
  BY <1>1 DEF Keeping, Safe
<1>3. Apart(Settled, work, toCreate, DOMAIN left)
  BY DEF Laid
<1>. QED  BY <1>2, <1>3 DEF Apart

\* A slice lost to another owner, or of ports nobody wants, is wrong.
LEMMA ObsoleteIsWrong ==
    ASSUME NEW sl \in Names, sl \notin Owned \/ slices[sl].ports \notin DesiredPorts
    PROVE  Wrong(sl)
BY DEF Wrong, Right, Owned, DesiredPorts

LEMMA StartWorthwhile == Structure /\ Start => Worthwhile'
<1>. SUFFICES ASSUME Structure, Start PROVE Worthwhile'
  OBVIOUS
<1>1. /\ AtRest /\ toDelete' = Names \ Owned /\ toUpdate' = {} /\ toCreate' = << >>
      /\ UNCHANGED <<slices, updated>>
  BY DEF Start
<1>2. updated = {} /\ Len(toCreate') = 0
  BY <1>1 DEF Structure, Cleared, AtRest, Grouping
<1>3. \A sl \in toDelete' : ~slices'[sl].owned
  BY <1>1 DEF Owned
<1>. QED  BY <1>1, <1>2, <1>3 DEF Worthwhile, Useless, Wrong, Right

LEMMA ScanSliceWorthwhile ==
    ASSUME Structure, Laid, Worthwhile, NEW sl \in SliceName, ScanSlice(sl)
    PROVE  Worthwhile'
<1>. DEFINE old  == slices[sl].endpoints
            S    == DOMAIN old \cap DOMAIN left
            kept == Only(left, S)
<1>1. /\ phase = "scan" /\ sl \in toScan
      /\ UNCHANGED <<slices, pods, phase, toCreate, toUpdate>>
  BY DEF ScanSlice
<1>2. InRound /\ Grouping
  BY <1>1 DEF InRound, Grouping
<1>3. /\ sl \in Owned /\ left \in Endpoints /\ old \in Endpoints
      /\ sl \notin toUpdate /\ sl \notin updated
      /\ work[sl] = slices[sl] /\ work[sl] \in EndpointSlice
      /\ work \in [SliceName -> EndpointSlice \cup {NoSlice}]
  BY <1>1, <1>2, InGroup DEF Structure, Placed, Laid, TypeOK
<1>4. PICK pm \in Taken :
        \A a \in DOMAIN left : a \in DOMAIN Desired(pm) /\ left[a] = pods[a].condition
  BY <1>2 DEF Structure, Group
<1>5. DOMAIN kept = S /\ (\A a \in S : kept[a] = left[a]) /\ kept \in Endpoints
  <2>1. S \in SUBSET DOMAIN left
    OBVIOUS
  <2>. HIDE DEF S
  <2>. QED  BY <1>3, <2>1, OnlyFacts
<1>6. kept = Only(left, DOMAIN old \cap DOMAIN left)
  OBVIOUS
<1>7. old = [a \in DOMAIN old |-> old[a]] /\ kept = [a \in DOMAIN kept |-> kept[a]]
  BY <1>3, <1>5, EndpointsFacts
<1>8. /\ toUpdate \subseteq SliceName /\ updated \subseteq SliceName
  BY DEF Structure, TypeOK, Names
<1>. HIDE DEF kept
<1>9. CASE /\ kept # old /\ kept = NoEndpoints /\ toDelete' = toDelete \cup {sl}
           /\ UNCHANGED <<work, updated>>
  <2>1. Useless(sl)'
    BY <1>1, <1>3, <1>9, EndpointsFacts DEF Useless, Addresses
  <2>. QED  BY <1>1, <1>2, <1>9, <2>1 DEF Worthwhile, Useless, Changed, Wrong
<1>10. CASE /\ kept # old /\ toDelete' = toDelete /\ updated' = updated \cup {sl}
            /\ work' = [work EXCEPT ![sl].endpoints = kept, ![sl].current = TRUE]
  <2>1. work'[sl] = [work[sl] EXCEPT !.endpoints = kept, !.current = TRUE]
    BY <1>3, <1>10
  <2>2. work'[sl].endpoints = kept
    BY <1>3, <2>1 DEF EndpointSlice
  <2>3. DOMAIN kept = DOMAIN old => Wrong(sl)
    <3>1. SUFFICES ASSUME DOMAIN kept = DOMAIN old, ~Wrong(sl) PROVE FALSE
      OBVIOUS
    <3>2. \A a \in DOMAIN old : kept[a] = old[a]
      BY <1>4, <1>5, <3>1 DEF Wrong, Right, Addresses
    <3>. QED  BY <1>7, <1>10, <3>1, <3>2
  <2>4. Changed(sl)'
    BY <1>1, <2>2, <2>3 DEF Changed, Wrong, Addresses
  <2>5. \A other \in updated \cup toUpdate : work'[other] = work[other]
    BY <1>3, <1>8, <1>10
  <2>. QED  BY <1>1, <1>2, <1>10, <2>4, <2>5 DEF Worthwhile, Useless, Changed, Wrong
<1>11. CASE /\ ~slices[sl].current /\ toDelete' = toDelete /\ updated' = updated \cup {sl}
            /\ work' = [work EXCEPT ![sl].current = TRUE]
  <2>1. Changed(sl)'
    BY <1>1, <1>11 DEF Changed, Wrong, Right
  <2>2. \A other \in updated \cup toUpdate : work'[other] = work[other]
    BY <1>3, <1>8, <1>11
  <2>. QED  BY <1>1, <1>2, <1>11, <2>1, <2>2 DEF Worthwhile, Useless, Changed, Wrong
<1>12. CASE UNCHANGED <<work, updated, toDelete>>
  BY <1>1, <1>2, <1>12 DEF Worthwhile, Useless, Changed, Wrong
<1>13. \/ /\ kept # old /\ kept = NoEndpoints /\ toDelete' = toDelete \cup {sl}
          /\ UNCHANGED <<work, updated>>
       \/ /\ kept # old /\ toDelete' = toDelete /\ updated' = updated \cup {sl}
          /\ work' = [work EXCEPT ![sl].endpoints = kept, ![sl].current = TRUE]
       \/ /\ ~slices[sl].current /\ toDelete' = toDelete /\ updated' = updated \cup {sl}
          /\ work' = [work EXCEPT ![sl].current = TRUE]
       \/ UNCHANGED <<work, updated, toDelete>>
  <2>. HIDE DEF old
  <2>1. kept = Only(left, DOMAIN slices[sl].endpoints \cap DOMAIN left) /\ old = slices[sl].endpoints
    BY <1>6 DEF old
  <2>. QED  BY <2>1 DEF ScanSlice, LabelsChanged
<1>. QED  BY <1>9, <1>10, <1>11, <1>12, <1>13

\* A slice that takes an endpoint which was left over changes.
LEMMA AddWorthwhile ==
    ASSUME Structure, Laid, Keeping, Worthwhile, Grouping, phase # "scan",
           NEW sl \in updated \cup unchanged, NEW S \in SUBSET DOMAIN left,
           sl \in updated \/ S # {},
           work' = [work EXCEPT ![sl].endpoints = Join(@, Only(left, S))],
           updated' = updated \cup {sl},
           UNCHANGED <<slices, pods, phase, toCreate, toUpdate, toDelete>>
    PROVE  Worthwhile'
<1>1. InRound /\ toScan = {}
  BY DEF Grouping, InRound, Structure, Cleared
<1>2. /\ work'[sl] = [work[sl] EXCEPT !.endpoints = Join(work[sl].endpoints, Only(left, S))]
      /\ \A other \in SliceName : other # sl => work'[other] = work[other]
  BY AddTo
<1>3. /\ work[sl] \in EndpointSlice /\ work[sl].endpoints \in Endpoints /\ left \in Endpoints
      /\ sl \in Owned /\ slices[sl].ports \in Taken
      /\ updated \subseteq SliceName /\ toUpdate \subseteq SliceName
  BY <1>1, InGroup DEF Structure, Placed, TypeOK, Names
<1>4. work'[sl].endpoints = Join(work[sl].endpoints, Only(left, S))
  BY <1>2, <1>3 DEF EndpointSlice
<1>5. Addresses(work'[sl]) = Addresses(work[sl]) \cup S
  <2>. DEFINE placed == work[sl].endpoints
              added  == Only(left, S)
  <2>1. placed \in Endpoints /\ added \in Endpoints /\ DOMAIN added = S
    BY <1>3, OnlyFacts
  <2>. HIDE DEF placed, added
  <2>2. DOMAIN Join(placed, added) = DOMAIN placed \cup S
    BY <2>1, JoinFacts
  <2>. QED  BY <1>4, <2>2 DEF placed, added, Addresses
<1>6. Changed(sl)'
  <2>1. CASE S = {}
    BY <1>1, <1>5, <2>1 DEF Worthwhile, Changed, Wrong
  <2>2. CASE S # {} /\ ~Wrong(sl)
    <3>1. PICK a \in S : a \notin Addresses(slices[sl])
      BY <1>1, <1>3, <2>2, LeftIsNew
    <3>. QED  BY <1>5, <3>1 DEF Changed
  <2>. QED  BY <2>1, <2>2 DEF Changed, Wrong
<1>7. \A other \in updated \cup toUpdate : other # sl => work'[other] = work[other]
  BY <1>2, <1>3
<1>. QED  BY <1>1, <1>6, <1>7 DEF Worthwhile, Useless, Changed, Wrong

LEMMA PlacingWorthwhile ==
    ASSUME Structure, Laid, Keeping, Worthwhile,
           PlaceInUnchanged \/ PlaceInNew \/ \E sl \in SliceName : FillUpdated(sl)
    PROVE  Worthwhile'
<1>1. left \in Endpoints /\ toCreate \in Seq(EndpointSlice)
  BY DEF Structure, TypeOK
<1>2. CASE PlaceInUnchanged
  <2>1. /\ phase = "place" /\ left # NoEndpoints
        /\ UNCHANGED <<slices, pods, phase, toCreate, toUpdate, toDelete>>
    BY <1>2 DEF PlaceInUnchanged, plan
  <2>2. PICK sl \in unchanged :
           work' = [work EXCEPT ![sl].endpoints = Join(@, left)] /\ updated' = updated \cup {sl}
    BY <1>2 DEF PlaceInUnchanged, SlicesToFill
  <2>3. Grouping /\ left = Only(left, DOMAIN left) /\ DOMAIN left # {}
    BY <1>1, <2>1, EndpointsFacts DEF Grouping, Only
  <2>4. work' = [work EXCEPT ![sl].endpoints = Join(@, Only(left, DOMAIN left))]
    BY <2>2, <2>3
  <2>. QED  BY <2>1, <2>2, <2>3, <2>4, AddWorthwhile
<1>3. CASE PlaceInNew
  <2>1. /\ phase = "place" /\ left # NoEndpoints
        /\ UNCHANGED <<slices, pods, phase, work, updated, toUpdate, toDelete>>
    BY <1>3 DEF PlaceInNew
  <2>2. PICK S \in Fillings(NoEndpoints) :
           toCreate' = Append(toCreate, NewEndpointSlice(PortsOf(left), Only(left, S)))
    BY <1>3 DEF PlaceInNew
  <2>3. /\ S \in SUBSET DOMAIN left
        /\ Cardinality(S) = Lesser(Size(left), MaxEndpoints - Size(NoEndpoints))
    BY <2>2 DEF Fillings
  <2>4. S # {}
    <3>1. Size(left) \in Nat /\ Size(left) # 0
      BY <1>1, <2>1, EndpointsFacts, FS_EmptySet DEF Size
    <3>2. Cardinality(S) # 0
      BY <2>3, <3>1, NoEndpointsFacts, ReconcilerAssumption DEF Lesser
    <3>. QED  BY <3>2, FS_EmptySet
  <2>. DEFINE new == NewEndpointSlice(PortsOf(left), Only(left, S))
  <2>5. Addresses(new) = S
    BY <1>1, <2>3, OnlyFacts DEF NewEndpointSlice, Addresses
  <2>. HIDE DEF new
  <2>6. /\ Len(toCreate) \in Nat /\ Len(toCreate') = Len(toCreate) + 1
        /\ \A i \in 1..Len(toCreate) : toCreate'[i] = toCreate[i]
        /\ toCreate'[Len(toCreate) + 1] = new
    BY <1>1, <2>2 DEF new
  <2>7. InRound
    BY <2>1 DEF InRound
  <2>8. \A i \in 1..Len(toCreate') : Addresses(toCreate'[i]) # {}
    BY <2>4, <2>5, <2>6, <2>7 DEF Worthwhile
  <2>. QED  BY <2>1, <2>7, <2>8 DEF Worthwhile, Useless, Changed, Wrong
<1>4. CASE \E sl \in SliceName : FillUpdated(sl)
  <2>1. PICK sl \in SliceName : FillUpdated(sl)
    BY <1>4
  <2>2. /\ phase = "fill" /\ sl \in updated /\ updated \cup {sl} = updated
        /\ UNCHANGED <<slices, pods, phase, updated, toCreate, toUpdate, toDelete>>
    BY <2>1 DEF FillUpdated, plan, Structure, TypeOK
  <2>3. PICK S \in Fillings(work[sl].endpoints) :
           work' = [work EXCEPT ![sl].endpoints = Join(@, Only(left, S))]
    BY <2>1 DEF FillUpdated
  <2>4. Grouping /\ S \in SUBSET DOMAIN left
    BY <2>2, <2>3 DEF Grouping, Fillings
  <2>. QED  BY <2>2, <2>3, <2>4, AddWorthwhile
<1>. QED  BY <1>2, <1>3, <1>4

LEMMA MovingWorthwhile ==
    ASSUME Structure, Worthwhile,
           (\E pm \in PortMap : StartGroup(pm)) \/ ScanDone \/ FillDone \/ GroupDone
    PROVE  Worthwhile'
<1>1. /\ InRound /\ UNCHANGED <<slices, pods, work, toCreate, toDelete>>
      /\ updated' \cup toUpdate' = updated \cup toUpdate
  BY DEF StartGroup, ScanDone, FillDone, GroupDone, packing, plan, InRound
<1>. QED  BY <1>1 DEF Worthwhile, Useless, Changed, Wrong

\* The calls of the plan: a slice to create that takes an obsolete one over gives
\* it endpoints that it has not.
LEMMA AssemblePending ==
    ASSUME Structure, Laid, Keeping, Worthwhile, Assemble
    PROVE  Pending'
<1>1. /\ phase = "groups" /\ todo = {} /\ UNCHANGED <<slices, pods, deleting>>
      /\ toCreate' = IF deleting THEN << >> ELSE SubSeq(Creates, 1, Fresh)
  BY DEF Assemble, Dels, Empty, Creates, Reused, Fresh
<1>2. PICK R \in SUBSET (Dels \cap Owned) : \E f \in [R -> (Fresh + 1)..Len(Creates)] :
             /\ \A sl \in R : f[sl] \in 1..Len(Creates)
             /\ work' = [sl \in SliceName |-> IF sl \in R THEN Creates[f[sl]] ELSE work[sl]]
             /\ toUpdate' = toUpdate \cup R
             /\ toDelete' = Dels \ R
  BY AssembleStep DEF Structure
<1>3. PICK f \in [R -> (Fresh + 1)..Len(Creates)] :
             /\ \A sl \in R : f[sl] \in 1..Len(Creates)
             /\ work' = [sl \in SliceName |-> IF sl \in R THEN Creates[f[sl]] ELSE work[sl]]
             /\ toUpdate' = toUpdate \cup R
             /\ toDelete' = Dels \ R
  BY <1>2
<1>4. /\ InRound /\ toScan = {} /\ Taken = DesiredPorts
  BY <1>1 DEF InRound, Structure, Cleared, Taken
<1>5. /\ Complete(Staying', Final', SubSeq(Creates, 1, Fresh), pods)
      /\ Apart(Staying', Final', SubSeq(Creates, 1, Fresh), {})
  BY AssemblePlanned
<1>6. ASSUME deleting'
      PROVE  /\ toCreate' = << >> /\ Apart(Staying', Final', << >>, {})
             /\ \A sl \in Staying' : \A a \in Addresses(Final'[sl]) : a \in Wanted(pods')
  BY <1>1, <1>5, <1>6, CompleteFacts DEF Apart
<1>7. ASSUME Wanted(pods') # {}
      PROVE  /\ \A sl \in toDelete' : Useless(sl)'
             /\ \A sl \in toUpdate' : Changed(sl)'
             /\ \A i \in 1..Len(toCreate') : Addresses(toCreate'[i]) # {}
  <2>1. Creates = toCreate
    BY <1>1, <1>7, NothingLeft DEF Creates
  <2>2. \A i \in 1..Len(Creates) : Addresses(Creates[i]) # {}
    BY <1>4, <2>1 DEF Worthwhile
  <2>3. \A sl \in Dels : Useless(sl)
    BY <1>4, ObsoleteIsWrong DEF Worthwhile, Dels, Obsolete, Useless, Owned
  <2>4. \A sl \in R : Changed(sl)'
    <3>1. SUFFICES ASSUME NEW sl \in R, ~Wrong(sl)
                   PROVE  Addresses(work'[sl]) # Addresses(slices[sl])
      BY <1>1 DEF Changed, Wrong
    <3>2. sl \in Owned /\ slices[sl].ports \in Taken
      BY <1>4, <3>1, ObsoleteIsWrong DEF Owned
    <3>3. work'[sl] = toCreate[f[sl]] /\ f[sl] \in 1..Len(toCreate)
      BY <1>3, <2>1, <3>2 DEF Owned, Names
    <3>4. PICK a : a \in Addresses(toCreate[f[sl]])
      BY <2>1, <2>2, <3>3
    <3>5. a \notin Addresses(slices[sl])
      BY <1>4, <3>1, <3>2, <3>3, <3>4, LeftIsNew
    <3>. QED  BY <3>3, <3>4, <3>5
  <2>5. \A sl \in toUpdate : Changed(sl)'
    <3>1. \A sl \in toUpdate : sl \in SliceName /\ sl \notin R
      BY <1>1, GroupsDone DEF Structure, TypeOK, Names
    <3>2. \A sl \in toUpdate : work'[sl] = work[sl]
      BY <1>3, <3>1
    <3>. QED  BY <1>1, <1>4, <3>2 DEF Worthwhile, Changed, Wrong
  <2>6. \A i \in 1..Len(toCreate') : Addresses(toCreate'[i]) # {}
    <3>1. CASE deleting
      BY <1>1, <3>1
    <3>2. CASE ~deleting
      <4>1. /\ Fresh \in Nat /\ Len(Creates) \in Nat /\ Fresh <= Len(Creates)
            /\ toCreate' = SubSeq(Creates, 1, Fresh)
            /\ Len(toCreate') = Fresh
            /\ \A i \in 1..Fresh : toCreate'[i] = Creates[i]
        BY <1>1, <3>2, AssembleSizes DEF Structure
      <4>2. \A i \in 1..Fresh : i \in 1..Len(Creates)
        BY <4>1
      <4>. QED  BY <2>2, <4>1, <4>2
    <3>. QED  BY <1>1, <3>1, <3>2 DEF Structure, TypeOK
  <2>7. \A sl \in toDelete' : Useless(sl)'
    BY <1>1, <1>3, <2>3 DEF Useless, Wrong
  <2>. QED  BY <1>3, <2>4, <2>5, <2>6, <2>7
<1>. QED  BY <1>6, <1>7 DEF Pending

\* A call made is one less.
LEMMA CreatePending == Structure /\ Pending /\ CreateSlice => Pending'
<1>. SUFFICES ASSUME Structure, Pending, CreateSlice PROVE Pending'
  OBVIOUS
<1>1. /\ phase = "finalize" /\ toCreate # << >> /\ toCreate' = Tail(toCreate)
      /\ UNCHANGED <<pods, deleting, phase, work, toUpdate, toDelete>>
  BY DEF CreateSlice, packing
<1>2. ~deleting /\ ~deleting'
  BY <1>1 DEF Pending
<1>3. PICK sl \in SliceName \ Names : slices' = [slices EXCEPT ![sl] = Head(toCreate)]
  BY DEF CreateSlice
<1>4. \A other \in toUpdate \cup toDelete : slices'[other] = slices[other]
  BY <1>3 DEF Structure, TypeOK, Names
<1>5. \A i \in 1..Len(toCreate') : i + 1 \in 1..Len(toCreate) /\ toCreate'[i] = toCreate[i + 1]
  <2>1. toCreate \in Seq(EndpointSlice) /\ Len(toCreate) \in Nat /\ Len(toCreate) > 0
    BY <1>1, EmptySeq, LenProperties DEF Structure, TypeOK
  <2>2. /\ Len(Tail(toCreate)) = Len(toCreate) - 1
        /\ \A i \in 1..Len(Tail(toCreate)) : Tail(toCreate)[i] = toCreate[i + 1]
    BY <1>1, <2>1, HeadTailProperties
  <2>. QED  BY <1>1, <2>1, <2>2
<1>. QED  BY <1>1, <1>2, <1>4, <1>5 DEF Pending, Useless, Changed, Wrong

LEMMA WritePending ==
    ASSUME Structure, Pending, NEW sl \in SliceName, UpdateSlice(sl) \/ DeleteSlice(sl)
    PROVE  Pending'
<1>1. /\ phase = "finalize" /\ UNCHANGED <<pods, deleting, phase, work, toCreate>>
      /\ slices \in [SliceName -> EndpointSlice \cup {NoSlice}]
      /\ toUpdate \cap toDelete = {} /\ toUpdate \cup toDelete \subseteq SliceName
      /\ toUpdate' \subseteq toUpdate /\ toDelete' \subseteq toDelete
      /\ sl \notin toUpdate' \cup toDelete'
      /\ \A other \in SliceName : other # sl => slices'[other] = slices[other]
  BY DEF UpdateSlice, DeleteSlice, packing, Structure, TypeOK, Names
<1>2. \A other \in toUpdate' \cup toDelete' : slices'[other] = slices[other]
  BY <1>1
<1>3. Apart(Staying, Final, << >>, {}) => Apart(Staying', Final', << >>, {})
  BY WriteFinal, SameResult
<1>4. (\A z \in Staying : \A a \in Addresses(Final[z]) : a \in Wanted(pods))
      => \A z \in Staying' : \A a \in Addresses(Final'[z]) : a \in Wanted(pods)
  BY WriteFinal
<1>. QED  BY <1>1, <1>2, <1>3, <1>4 DEF Pending, Useless, Changed, Wrong

\* Slices that are up to date leave nothing to do.
LEMMA NothingToDo ==
    ASSUME Agreeing, Kept, Pending
    PROVE  Stable
<1>. SUFFICES ASSUME phase = "finalize", UpToDate, Wanted(pods) # {}
              PROVE  toCreate = << >> /\ toUpdate = {} /\ toDelete = {}
  BY DEF Stable, Wanted
<1>1. /\ pods \in Pods /\ IsFiniteSet(Names) /\ toUpdate \subseteq Names /\ toDelete \subseteq Names
      /\ toUpdate \cap toDelete = {} /\ toCreate \in Seq(EndpointSlice)
  BY AssembleSizes DEF Agreeing, Structure, TypeOK
<1>2. \A a \in Wanted(pods) : \E sl : {z \in Names : a \in Addresses(slices[z])} = {sl}
  <2>1. SUFFICES ASSUME NEW a \in Wanted(pods)
                 PROVE  \E sl : {z \in Names : a \in Addresses(slices[z])} = {sl}
    OBVIOUS
  <2>. DEFINE H == {z \in Names : a \in Addresses(slices[z])}
  <2>2. Cardinality(H) = 1
    BY DEF UpToDate, Wanted, Addresses
  <2>3. IsFiniteSet(H)
    BY <1>1, FS_Subset
  <2>. HIDE DEF H
  <2>4. \E sl : H = {sl}
    BY <2>2, <2>3, FS_Singleton
  <2>. QED  BY <2>4 DEF H
<1>3. \A sl \in Names : ~Wrong(sl)
  <2>1. SUFFICES ASSUME NEW sl \in Names PROVE Right(slices[sl], pods)
    BY DEF Wrong
  <2>2. slices[sl].ports \in DesiredPorts
    <3>1. ~(Names = {sl} /\ slices[sl] = Placeholder)
      <4>1. SUFFICES ASSUME Names = {sl}, slices[sl] = Placeholder PROVE FALSE
        OBVIOUS
      <4>2. PICK a \in Wanted(pods) : TRUE
        OBVIOUS
      <4>3. a \in Addresses(Placeholder)
        BY <1>2, <4>1, <4>2
      <4>. QED  BY <4>3, PlaceholderFacts, NoEndpointsFacts DEF Addresses
    <3>. QED  BY <3>1 DEF UpToDate
  <2>3. DOMAIN Desired(slices[sl].ports) = {a \in Wanted(pods) : pods[a].ports = slices[sl].ports}
    BY <1>1, WantedFacts
  <2>4. \E a \in Address : pods[a] # NoPod /\ pods[a].ports = slices[sl].ports
    BY <2>2 DEF DesiredPorts
  <2>. QED  BY <2>3, <2>4 DEF UpToDate, Right, Addresses
<1>4. \A sl \in Names : sl \in Owned /\ \A a \in Addresses(slices[sl]) :
         a \in Wanted(pods) /\ Holds(slices[sl], a, pods)
  BY <1>3 DEF Wrong, Right, Holds, Owned
\* An endpoint's only slice stays, and keeps it.
<1>5. \A sl \in Names : \A a \in Addresses(slices[sl]) : sl \in Staying /\ a \in Addresses(Final[sl])
  <2>1. SUFFICES ASSUME NEW sl \in Names, NEW a \in Addresses(slices[sl])
                 PROVE  sl \in Staying /\ a \in Addresses(Final[sl])
    OBVIOUS
  <2>2. PICK z \in Staying : Holds(slices[z], a, pods) /\ Holds(Final[z], a, pods)
    BY <1>4, <2>1 DEF Kept
  <2>3. z \in Names /\ a \in Addresses(slices[z]) /\ a \in Wanted(pods)
    BY <1>4, <2>1, <2>2 DEF Staying, Holds
  <2>4. z = sl
    BY <1>2, <2>1, <2>3
  <2>. QED  BY <2>2, <2>4 DEF Holds
<1>6. /\ Apart(Staying, Final, toCreate, {})
      /\ \A sl \in Staying : \A a \in Addresses(Final[sl]) : a \in Wanted(pods)
      /\ \A i \in 1..Len(toCreate) : \A a \in Addresses(toCreate[i]) : a \in Wanted(pods)
  <2>1. CASE deleting
    BY <2>1 DEF Pending
  <2>2. CASE ~deleting
    BY <2>2, CompleteFacts DEF Agreeing, Planned
  <2>. QED  BY <2>1, <2>2 DEF Agreeing, Structure, TypeOK
\* So what stays is to have the endpoints it has.
<1>7. \A a \in Wanted(pods) : \E sl \in Staying : a \in Addresses(slices[sl]) /\ a \in Addresses(Final[sl])
  BY <1>2, <1>5
<1>8. toDelete = {}
  BY <1>1, <1>3, <1>5 DEF Pending, Useless, Staying
<1>9. toUpdate = {}
  <2>1. SUFFICES ASSUME NEW sl \in toUpdate PROVE FALSE
    OBVIOUS
  <2>2. /\ sl \in Names /\ sl \in Staying /\ Final[sl] = work[sl]
        /\ Addresses(work[sl]) # Addresses(slices[sl])
    BY <1>1, <1>3, <2>1 DEF Pending, Changed, Staying, Final, Names
  <2>3. PICK a \in Addresses(work[sl]) : a \notin Addresses(slices[sl])
    BY <1>5, <2>2
  <2>4. PICK z \in Staying : a \in Addresses(slices[z]) /\ a \in Addresses(Final[z])
    BY <1>6, <1>7, <2>2, <2>3
  <2>5. z = sl
    BY <1>6, <2>2, <2>3, <2>4 DEF Apart
  <2>. QED  BY <2>3, <2>4, <2>5
<1>10. toCreate = << >>
  <2>1. SUFFICES ASSUME Len(toCreate) # 0 PROVE FALSE
    BY <1>1, EmptySeq
  <2>2. 1 \in 1..Len(toCreate)
    BY <1>1, <2>1, LenProperties
  <2>3. PICK a \in Addresses(toCreate[1]) : a \in Wanted(pods)
    BY <1>6, <2>2 DEF Pending
  <2>4. PICK z \in Staying : a \in Addresses(Final[z])
    BY <1>7, <2>3
  <2>. QED  BY <1>6, <2>2, <2>3, <2>4 DEF Apart
<1>. QED  BY <1>8, <1>9, <1>10

LEMMA WorthwhileStep ==
    ASSUME Agreeing, Keeping, Worthwhile, Pending, [Next]_vars
    PROVE  Worthwhile' /\ Pending'
<1>. USE DEF Agreeing, Next
<1>1. CASE \/ ServiceRelabelled \/ ServiceRecreated \/ (\E sl \in SliceName : SliceLost(sl))
           \/ StartNodeMissing \/ CallFails \/ FinalizeDone
  <2>1. phase' \in {"idle", "synced"}
    BY <1>1 DEF ServiceRelabelled, ServiceRecreated, SliceLost, Mishap, StartNodeMissing, CallFails,
                FinalizeDone
  <2>. QED  BY <2>1 DEF Worthwhile, Pending, InRound
<1>2. CASE Start
  BY <1>2, StartWorthwhile DEF Start, Pending
<1>3. CASE \/ (\E pm \in PortMap : StartGroup(pm)) \/ (\E sl \in SliceName : ScanSlice(sl))
           \/ ScanDone \/ (\E sl \in SliceName : FillUpdated(sl)) \/ FillDone
           \/ PlaceInUnchanged \/ PlaceInNew \/ GroupDone
  <2>1. phase' \in {"groups", "scan", "fill", "place"}
    BY <1>3 DEF StartGroup, ScanSlice, ScanDone, FillUpdated, FillDone, PlaceInUnchanged,
                PlaceInNew, GroupDone
  <2>2. Worthwhile'
    BY <1>3, ScanSliceWorthwhile, PlacingWorthwhile, MovingWorthwhile
  <2>. QED  BY <2>1, <2>2 DEF Pending
<1>4. CASE Assemble
  BY <1>4, AssemblePending DEF Assemble, Worthwhile, InRound
<1>5. CASE CreateSlice \/ (\E sl \in SliceName : UpdateSlice(sl) \/ DeleteSlice(sl))
  <2>1. phase' = "finalize"
    BY <1>5 DEF CreateSlice, UpdateSlice, DeleteSlice
  <2>2. Pending'
    BY <1>5, CreatePending, WritePending
  <2>. QED  BY <2>1, <2>2 DEF Worthwhile, InRound
<1>6. CASE UNCHANGED vars
  <2>1. UNCHANGED <<slices, pods, deleting, phase, work, updated, toCreate, toUpdate, toDelete>>
    BY <1>6 DEF vars, packing, plan
  <2>2. Names' = Names
    BY <2>1, SameView
  <2>3. Staying' = Staying /\ Final' = Final /\ InRound' = InRound
    BY <2>1, <2>2 DEF Staying, Final, InRound
  <2>. QED  BY <2>1, <2>3 DEF Worthwhile, Pending, Useless, Changed, Wrong
<1>. QED  BY <1>1, <1>2, <1>3, <1>4, <1>5, <1>6

\* Nothing is written when the slices of a service with endpoints are up to date,
\* or each resync would rewrite every slice (sliceNamesUnchanged in
\* reconcileByPortMapping, and finalize, in reconciler.go).
THEOREM NothingNeedless == Spec => []Stable
<1>1. Init => Keeping /\ Kept /\ Worthwhile /\ Pending
  BY DEF Init, Keeping, Kept, Worthwhile, Pending, InRound
<1>2. Agreeing /\ Keeping /\ Kept /\ [Next]_vars => (Keeping /\ Kept)'
  BY KeepingStep
<1>3. Agreeing /\ Keeping /\ Worthwhile /\ Pending /\ [Next]_vars => (Worthwhile /\ Pending)'
  BY WorthwhileStep
<1>4. Agreeing /\ Kept /\ Pending => Stable
  BY NothingToDo
<1>. QED  BY <1>1, <1>2, <1>3, <1>4, InitAgreeing, AgreeingStep, PTL DEF Spec
-----------------------------------------------------------------------------
\* How many slices there will be with a port list: Z and w as before, and those
\* to create.
OfPorts(Z, w, pm) == {sl \in Z : w[sl].ports = pm}

CreatesOf(c, pm) == {i \in 1..Len(c) : c[i].ports = pm}

Number(Z, w, c, pm) == Cardinality(OfPorts(Z, w, pm)) + Cardinality(CreatesOf(c, pm))

SameNumbers(Z2, w2, c2, Z, w, c) == \A pm : Number(Z2, w2, c2, pm) = Number(Z, w, c, pm)

\* What the entry of the metrics cache says of a port list.
Said(pm) == IF pm \in DOMAIN counts THEN counts[pm] ELSE [endpoints |-> 0, slices |-> 0]

\* The slices with a port list, and the endpoints in them.
Real(pm) == {sl \in Names : slices[sl].ports = pm}

RealEndpoints(pm) == UNION {DOMAIN slices[sl].endpoints : sl \in Real(pm)}

Told(pm) ==
    /\ Said(pm).slices = Cardinality(Real(pm))
    /\ Said(pm).endpoints = Cardinality(RealEndpoints(pm))

\* While calls are made the entry says what there will be when all have succeeded.
Tallied ==
    phase = "finalize" /\ ~deleting =>
      \A pm \in PortMap :
        /\ Said(pm).slices = Number(Staying, Final, toCreate, pm)
        /\ Said(pm).endpoints = Size(Desired(pm))

\* Sets with a one-to-one map between them have as many elements.
LEMMA OneToOne ==
    ASSUME NEW S, NEW T, IsFiniteSet(S), NEW f \in [S -> T],
           \A x, y \in S : f[x] = f[y] => x = y,
           \A t \in T : \E x \in S : f[x] = t
    PROVE  IsFiniteSet(T) /\ Cardinality(T) = Cardinality(S)
<1>1. f \in Bijection(S, T)
  BY DEF Bijection, Injection, IsInjective, Surjection
<1>. QED  BY <1>1, FS_Bijection DEF ExistsBijection

\* Elements of two sets that have nothing in common.
LEMMA Separate ==
    ASSUME NEW S, NEW T, IsFiniteSet(S), IsFiniteSet(T), S \cap T = {}
    PROVE  /\ IsFiniteSet(S \cup T)
           /\ Cardinality(S \cup T) = Cardinality(S) + Cardinality(T)
           /\ Cardinality(S) \in Nat /\ Cardinality(T) \in Nat
<1>1. Cardinality(S) \in Nat /\ Cardinality(T) \in Nat /\ Cardinality(S \cap T) = 0
  BY FS_CardinalityType, FS_EmptySet
<1>2. /\ IsFiniteSet(S \cup T)
      /\ Cardinality(S \cup T) = Cardinality(S) + Cardinality(T) - Cardinality(S \cap T)
  BY FS_Union
<1>. QED  BY <1>1, <1>2

LEMMA CreatesFacts ==
    ASSUME NEW c, Len(c) \in Nat, NEW pm
    PROVE  IsFiniteSet(CreatesOf(c, pm)) /\ Cardinality(CreatesOf(c, pm)) \in Nat
<1>1. IsFiniteSet(1..Len(c)) /\ CreatesOf(c, pm) \subseteq 1..Len(c)
  BY FS_Interval DEF CreatesOf
<1>. QED  BY <1>1, FS_Subset, FS_CardinalityType

\* Nothing that matters has changed.
LEMMA SameNumber ==
    ASSUME NEW Z, NEW w, NEW w2, \A sl \in Z : w2[sl] = w[sl], NEW c, NEW pm
    PROVE  Number(Z, w2, c, pm) = Number(Z, w, c, pm)
<1>1. OfPorts(Z, w2, pm) = OfPorts(Z, w, pm)
  BY DEF OfPorts
<1>. QED  BY <1>1 DEF Number

\* A slice to create that takes over another is one slice all the same.
LEMMA TakeOverNumber ==
    ASSUME NEW Z, IsFiniteSet(Z), NEW w, NEW c, Len(c) \in Nat,
           NEW n \in Nat, n <= Len(c),
           NEW R, IsFiniteSet(R), NEW f \in [R -> (n + 1)..Len(c)], R \cap Z = {},
           \A sl \in R, other \in R : f[sl] = f[other] => sl = other,
           \A i \in (n + 1)..Len(c) : \E sl \in R : f[sl] = i,
           NEW w2, \A sl \in Z : w2[sl] = w[sl], \A sl \in R : w2[sl] = c[f[sl]],
           NEW c2, Len(c2) = n, \A i \in 1..n : c2[i] = c[i]
    PROVE  SameNumbers(Z \cup R, w2, c2, Z, w, c)
<1>. SUFFICES ASSUME NEW pm PROVE Number(Z \cup R, w2, c2, pm) = Number(Z, w, c, pm)
  BY DEF SameNumbers
<1>. DEFINE More == {i \in (n + 1)..Len(c) : c[i].ports = pm}
            g    == [sl \in OfPorts(R, w2, pm) |-> f[sl]]
<1>1. IsFiniteSet(OfPorts(Z, w, pm)) /\ IsFiniteSet(OfPorts(R, w2, pm))
  BY FS_Subset DEF OfPorts
<1>2. IsFiniteSet(More) /\ Cardinality(More) = Cardinality(OfPorts(R, w2, pm))
  <2>1. g \in [OfPorts(R, w2, pm) -> More]
    BY DEF OfPorts
  <2>2. \A x, y \in OfPorts(R, w2, pm) : g[x] = g[y] => x = y
    BY DEF OfPorts
  <2>3. \A i \in More : \E x \in OfPorts(R, w2, pm) : g[x] = i
    <3>1. SUFFICES ASSUME NEW i \in More PROVE \E x \in OfPorts(R, w2, pm) : g[x] = i
      OBVIOUS
    <3>2. PICK x \in R : f[x] = i
      OBVIOUS
    <3>3. x \in OfPorts(R, w2, pm)
      BY <3>1, <3>2 DEF OfPorts
    <3>. QED  BY <3>2, <3>3
  <2>. HIDE DEF g, More
  <2>. QED  BY <1>1, <2>1, <2>2, <2>3, OneToOne
<1>3. CreatesOf(c, pm) = CreatesOf(c2, pm) \cup More /\ CreatesOf(c2, pm) \cap More = {}
  BY DEF CreatesOf
<1>4. /\ OfPorts(Z \cup R, w2, pm) = OfPorts(Z, w, pm) \cup OfPorts(R, w2, pm)
      /\ OfPorts(Z, w, pm) \cap OfPorts(R, w2, pm) = {}
  BY DEF OfPorts
<1>. HIDE DEF More
<1>5. Cardinality(CreatesOf(c, pm)) = Cardinality(CreatesOf(c2, pm)) + Cardinality(More)
      /\ Cardinality(CreatesOf(c2, pm)) \in Nat /\ Cardinality(More) \in Nat
  <2>. DEFINE Few == CreatesOf(c2, pm)
  <2>1. IsFiniteSet(Few) /\ IsFiniteSet(More) /\ Few \cap More = {}
    BY <1>2, <1>3, CreatesFacts
  <2>. HIDE DEF Few
  <2>2. /\ Cardinality(Few \cup More) = Cardinality(Few) + Cardinality(More)
        /\ Cardinality(Few) \in Nat /\ Cardinality(More) \in Nat
    BY <2>1, Separate
  <2>. QED  BY <1>3, <2>2 DEF Few
<1>6. Cardinality(OfPorts(Z \cup R, w2, pm))
        = Cardinality(OfPorts(Z, w, pm)) + Cardinality(OfPorts(R, w2, pm))
      /\ Cardinality(OfPorts(Z, w, pm)) \in Nat
  <2>. DEFINE Old == OfPorts(Z, w, pm)
              New == OfPorts(R, w2, pm)
  <2>1. IsFiniteSet(Old) /\ IsFiniteSet(New) /\ Old \cap New = {}
    BY <1>1, <1>4
  <2>. HIDE DEF Old, New
  <2>2. /\ Cardinality(Old \cup New) = Cardinality(Old) + Cardinality(New)
        /\ Cardinality(Old) \in Nat
    BY <2>1, Separate
  <2>. QED  BY <1>4, <2>2 DEF Old, New
<1>. QED  BY <1>2, <1>5, <1>6 DEF Number

\* So is the one that is created.
LEMMA TakeHeadNumber ==
    ASSUME NEW Z, IsFiniteSet(Z), NEW w, NEW c, Len(c) \in Nat, Len(c) > 0,
           NEW sl, sl \notin Z,
           NEW w2, \A other \in Z : w2[other] = w[other], w2[sl] = c[1],
           NEW c2, Len(c2) = Len(c) - 1, \A i \in 1..Len(c2) : c2[i] = c[i + 1]
    PROVE  SameNumbers(Z \cup {sl}, w2, c2, Z, w, c)
<1>. SUFFICES ASSUME NEW pm PROVE Number(Z \cup {sl}, w2, c2, pm) = Number(Z, w, c, pm)
  BY DEF SameNumbers
<1>. DEFINE Rest == {i \in 2..Len(c) : c[i].ports = pm}
            One  == {i \in {1} : c[i].ports = pm}
            Own  == {other \in {sl} : w2[other].ports = pm}
            g    == [i \in CreatesOf(c2, pm) |-> i + 1]
<1>1. IsFiniteSet(OfPorts(Z, w, pm)) /\ IsFiniteSet(CreatesOf(c2, pm))
  BY CreatesFacts, FS_Subset DEF OfPorts
<1>2. IsFiniteSet(Rest) /\ Cardinality(Rest) = Cardinality(CreatesOf(c2, pm))
  <2>1. g \in [CreatesOf(c2, pm) -> Rest]
    BY DEF CreatesOf
  <2>2. \A x, y \in CreatesOf(c2, pm) : g[x] = g[y] => x = y
    BY DEF CreatesOf
  <2>3. \A i \in Rest : \E x \in CreatesOf(c2, pm) : g[x] = i
    <3>1. SUFFICES ASSUME NEW i \in Rest PROVE \E x \in CreatesOf(c2, pm) : g[x] = i
      OBVIOUS
    <3>2. i - 1 \in CreatesOf(c2, pm) /\ (i - 1) + 1 = i
      BY <3>1 DEF CreatesOf
    <3>. QED  BY <3>2
  <2>. HIDE DEF g, Rest
  <2>. QED  BY <1>1, <2>1, <2>2, <2>3, OneToOne
<1>3. /\ IsFiniteSet(One) /\ IsFiniteSet(Own) /\ Cardinality(One) = Cardinality(Own)
  <2>1. CASE c[1].ports = pm
    <3>1. One = {1} /\ Own = {sl}
      BY <2>1
    <3>. HIDE DEF One, Own
    <3>. QED  BY <3>1, FS_Singleton
  <2>2. CASE c[1].ports # pm
    <3>1. One = {} /\ Own = {}
      BY <2>2
    <3>. HIDE DEF One, Own
    <3>. QED  BY <3>1, FS_EmptySet
  <2>. QED  BY <2>1, <2>2
<1>4. CreatesOf(c, pm) = One \cup Rest /\ One \cap Rest = {}
  <2>1. 1..Len(c) = {1} \cup 2..Len(c) /\ 1 \notin 2..Len(c)
    OBVIOUS
  <2>. QED  BY <2>1 DEF CreatesOf
<1>5. /\ OfPorts(Z \cup {sl}, w2, pm) = OfPorts(Z, w, pm) \cup Own
      /\ OfPorts(Z, w, pm) \cap Own = {}
  BY DEF OfPorts
<1>. HIDE DEF Rest, One, Own
<1>6. /\ Cardinality(CreatesOf(c, pm)) = Cardinality(One) + Cardinality(Rest)
      /\ Cardinality(One) \in Nat /\ Cardinality(Rest) \in Nat
  BY <1>2, <1>3, <1>4, Separate
<1>7. /\ Cardinality(OfPorts(Z \cup {sl}, w2, pm)) = Cardinality(OfPorts(Z, w, pm)) + Cardinality(Own)
      /\ Cardinality(OfPorts(Z, w, pm)) \in Nat
  BY <1>1, <1>3, <1>5, Separate
<1>. QED  BY <1>2, <1>3, <1>6, <1>7 DEF Number

\* Before anything takes over anything, the entry says what there will be.
LEMMA CountsAreRight ==
    ASSUME Structure, Laid, phase = "groups", todo = {}, counts' = Counts(Empty),
           NEW pm \in PortMap
    PROVE  /\ Said(pm)'.slices = Number(Settled, work, Creates, pm)
           /\ Said(pm)'.endpoints = Size(Desired(pm))
<1>1. InRound /\ toScan = {} /\ Taken = DesiredPorts /\ pods \in Pods
  BY DEF InRound, Structure, Cleared, Taken, TypeOK
<1>2. DOMAIN Desired(pm) = {a \in Wanted(pods) : pods[a].ports = pm}
  BY <1>1, WantedFacts
<1>3. Said(pm)' = IF pm \in DOMAIN Counts(Empty) THEN Counts(Empty)[pm]
                  ELSE [endpoints |-> 0, slices |-> 0]
  BY DEF Said
<1>4. CASE Empty
  <2>1. Settled = {} /\ Wanted(pods) = {} /\ Len(Creates) = 1 /\ Creates[1] = Placeholder
    BY <1>4, NothingLeft
  <2>2. Size(Desired(pm)) = 0
    BY <1>2, <2>1, FS_EmptySet DEF Size
  <2>3. OfPorts(Settled, work, pm) = {}
    BY <2>1 DEF OfPorts
  <2>4. CreatesOf(Creates, pm) = IF pm = EmptyPorts THEN {1} ELSE {}
    BY <2>1 DEF CreatesOf, Placeholder, NewEndpointSlice
  <2>5. Number(Settled, work, Creates, pm) = IF pm = EmptyPorts THEN 1 ELSE 0
    <3>1. Cardinality(OfPorts(Settled, work, pm)) = 0
      BY <2>3, FS_EmptySet
    <3>2. Cardinality(CreatesOf(Creates, pm)) = IF pm = EmptyPorts THEN 1 ELSE 0
      BY <2>4, FS_EmptySet, FS_Singleton
    <3>. QED  BY <3>1, <3>2 DEF Number
  <2>6. CASE pm = EmptyPorts
    <3>1. Said(pm)' = [endpoints |-> 0, slices |-> 1]
      BY <1>3, <1>4, <2>6 DEF Counts
    <3>. QED  BY <2>2, <2>5, <2>6, <3>1
  <2>7. CASE pm # EmptyPorts
    <3>1. \/ Said(pm)' = [endpoints |-> 0, slices |-> 0]
          \/ Said(pm)' = [endpoints |-> Size(Desired(pm)),
                slices |-> Cardinality({sl \in Owned \ toDelete : slices[sl].ports = pm})
                           + Cardinality({i \in DOMAIN toCreate : toCreate[i].ports = pm})]
             /\ pm \in DesiredPorts
      BY <1>3, <1>4, <2>7 DEF Counts
    <3>2. pm \in DesiredPorts => {sl \in Owned \ toDelete : slices[sl].ports = pm} = {}
      BY <1>1, <2>1 DEF Settled
    <3>3. {i \in DOMAIN toCreate : toCreate[i].ports = pm} = {}
      <4>1. DOMAIN toCreate = {}
        BY <1>4 DEF Empty
      <4>. QED  BY <4>1
    <3>4. Said(pm)' = [endpoints |-> 0, slices |-> 0]
      <4>1. Cardinality({}) + Cardinality({}) = 0
        BY FS_EmptySet
      <4>. QED  BY <2>2, <3>1, <3>2, <3>3, <4>1
    <3>. QED  BY <2>2, <2>5, <2>7, <3>4
  <2>. QED  BY <2>6, <2>7
<1>5. CASE ~Empty
  <2>1. Creates = toCreate /\ DOMAIN toCreate = 1..Len(toCreate)
    BY <1>5 DEF Creates, Structure, TypeOK
  <2>2. DOMAIN Counts(Empty) = DesiredPorts
    BY <1>5 DEF Counts
  <2>3. CASE pm \in DesiredPorts
    <3>1. Said(pm)' = [endpoints |-> Size(Desired(pm)),
                slices |-> Cardinality({sl \in Owned \ toDelete : slices[sl].ports = pm})
                           + Cardinality({i \in DOMAIN toCreate : toCreate[i].ports = pm})]
      BY <1>3, <1>5, <2>2, <2>3 DEF Counts
    <3>2. {sl \in Owned \ toDelete : slices[sl].ports = pm} = OfPorts(Settled, work, pm)
      BY <1>1, <2>3 DEF Laid, Settled, OfPorts
    <3>3. {i \in DOMAIN toCreate : toCreate[i].ports = pm} = CreatesOf(Creates, pm)
      BY <2>1 DEF CreatesOf
    <3>4. Said(pm)' = [endpoints |-> Size(Desired(pm)), slices |-> Number(Settled, work, Creates, pm)]
      BY <3>1, <3>2, <3>3 DEF Number
    <3>. QED  BY <3>4
  <2>4. CASE pm \notin DesiredPorts
    <3>1. Said(pm)' = [endpoints |-> 0, slices |-> 0]
      BY <1>3, <2>2, <2>4
    <3>2. OfPorts(Settled, work, pm) = {}
      BY <1>1, <2>4 DEF Laid, Settled, OfPorts
    <3>3. CreatesOf(Creates, pm) = {}
      BY <1>1, <2>1, <2>4 DEF Laid, CreatesOf
    <3>4. DOMAIN Desired(pm) = {}
      BY <1>1, <2>4, WantedFacts
    <3>5. Cardinality({}) = 0
      BY FS_EmptySet
    <3>6. Number(Settled, work, Creates, pm) = 0 /\ Size(Desired(pm)) = 0
      BY <3>2, <3>3, <3>4, <3>5 DEF Number, Size
    <3>. QED  BY <3>1, <3>6
  <2>. QED  BY <2>3, <2>4
<1>. QED  BY <1>4, <1>5

LEMMA AssembleTallied == Structure /\ Laid /\ Assemble => Tallied'
<1>. SUFFICES ASSUME Structure, Laid, Assemble, ~deleting', NEW pm \in PortMap
              PROVE  /\ Said(pm)'.slices = Number(Staying', Final', toCreate', pm)
                     /\ Said(pm)'.endpoints = Size(Desired(pm)')
  BY DEF Tallied
<1>1. /\ phase = "groups" /\ todo = {} /\ UNCHANGED <<slices, pods, deleting>>
      /\ counts' = Counts(Empty) /\ toCreate' = SubSeq(Creates, 1, Fresh)
  BY DEF Assemble, Dels, Empty, Creates, Reused, Fresh
<1>2. PICK R \in SUBSET (Dels \cap Owned) : \E f \in [R -> (Fresh + 1)..Len(Creates)] :
             /\ Cardinality(R) = Reused
             /\ \A sl, other \in R : f[sl] = f[other] => sl = other
             /\ work' = [sl \in SliceName |-> IF sl \in R THEN Creates[f[sl]] ELSE work[sl]]
             /\ toUpdate' = toUpdate \cup R
             /\ toDelete' = Dels \ R
  BY AssembleStep DEF Structure
<1>3. PICK f \in [R -> (Fresh + 1)..Len(Creates)] :
             /\ Cardinality(R) = Reused
             /\ \A sl, other \in R : f[sl] = f[other] => sl = other
             /\ work' = [sl \in SliceName |-> IF sl \in R THEN Creates[f[sl]] ELSE work[sl]]
             /\ toUpdate' = toUpdate \cup R
             /\ toDelete' = Dels \ R
  BY <1>2
<1>4. /\ Len(Creates) \in Nat /\ Fresh \in Nat /\ Fresh <= Len(Creates)
      /\ Len(toCreate') = Fresh /\ \A i \in 1..Fresh : toCreate'[i] = Creates[i]
      /\ Dels \subseteq Names /\ IsFiniteSet(Names)
  BY <1>1, AssembleSizes DEF Structure
<1>5. /\ Settled = Names \ Dels /\ R \cap Settled = {} /\ toUpdate \cap Dels = {}
      /\ IsFiniteSet(R) /\ IsFiniteSet(Settled) /\ R \subseteq Names
  <2>1. Settled = Names \ Dels /\ toUpdate \cap Dels = {} /\ R \subseteq Names /\ R \subseteq Dels
    BY <1>1, GroupsDone DEF Owned
  <2>. QED  BY <1>4, <2>1, FS_Subset
<1>6. Names' = Names /\ Desired(pm)' = Desired(pm)
  BY <1>1, SameView
<1>7. Staying' = Settled \cup R
  BY <1>3, <1>4, <1>5, <1>6 DEF Staying
<1>8. /\ \A sl \in Settled : Final'[sl] = work[sl]
      /\ \A sl \in R : Final'[sl] = Creates[f[sl]]
  <2>1. \A sl \in Settled : work[sl] = IF sl \in toUpdate THEN work[sl] ELSE slices[sl]
    BY <1>1, GroupsDone
  <2>2. \A sl \in SliceName : Final'[sl] = IF sl \in toUpdate' THEN work'[sl] ELSE slices'[sl]
    BY DEF Final
  <2>3. Settled \subseteq SliceName /\ R \subseteq SliceName
    BY <1>5 DEF Names
  <2>. QED  BY <1>1, <1>3, <1>5, <2>1, <2>2, <2>3
<1>9. \A i \in (Fresh + 1)..Len(Creates) : \E sl \in R : f[sl] = i
  BY <1>3, EachTakesOver DEF Structure
<1>10. Number(Settled \cup R, Final', toCreate', pm) = Number(Settled, work, Creates, pm)
  <2>. DEFINE c == Creates  n == Fresh  Z == Settled  w == work  c2 == toCreate'  w2 == Final'
  <2>1. /\ IsFiniteSet(Z) /\ IsFiniteSet(R) /\ Len(c) \in Nat /\ n \in Nat /\ n <= Len(c)
        /\ f \in [R -> (n + 1)..Len(c)]
        /\ Len(c2) = n /\ \A i \in 1..n : c2[i] = c[i]
    BY <1>3, <1>4, <1>5
  <2>2. /\ R \cap Z = {} /\ \A sl \in R, other \in R : f[sl] = f[other] => sl = other
        /\ \A i \in (n + 1)..Len(c) : \E sl \in R : f[sl] = i
        /\ (\A sl \in Z : w2[sl] = w[sl]) /\ \A sl \in R : w2[sl] = c[f[sl]]
    BY <1>3, <1>5, <1>8, <1>9
  <2>. HIDE DEF c, n, Z, w, c2, w2
  <2>3. SameNumbers(Z \cup R, w2, c2, Z, w, c)
    BY <2>1, <2>2, TakeOverNumber
  <2>. QED  BY <2>3 DEF c, Z, w, c2, w2, SameNumbers
<1>11. /\ Said(pm)'.slices = Number(Settled, work, Creates, pm)
       /\ Said(pm)'.endpoints = Size(Desired(pm))
  BY <1>1, CountsAreRight
<1>. QED  BY <1>6, <1>7, <1>10, <1>11

LEMMA CreateTallied == Structure /\ Tallied /\ CreateSlice => Tallied'
<1>. SUFFICES ASSUME Structure, Tallied, CreateSlice, ~deleting', NEW pm \in PortMap
              PROVE  /\ Said(pm)'.slices = Number(Staying', Final', toCreate', pm)
                     /\ Said(pm)'.endpoints = Size(Desired(pm)')
  BY DEF Tallied
<1>1. /\ phase = "finalize" /\ ~deleting /\ Said(pm)' = Said(pm) /\ Desired(pm)' = Desired(pm)
      /\ toCreate \in Seq(EndpointSlice) /\ Len(toCreate) \in Nat
  BY LenProperties DEF CreateSlice, notes, Said, Desired, Structure, TypeOK
<1>2. PICK sl : /\ Staying' = Staying \cup {sl} /\ sl \notin Staying
                /\ \A other \in Staying : Final'[other] = Final[other]
                /\ Final'[sl] = toCreate[1]
                /\ Len(toCreate) > 0 /\ Len(toCreate') = Len(toCreate) - 1
                /\ \A i \in 1..Len(toCreate') : toCreate'[i] = toCreate[i + 1]
  BY CreateFinal
<1>3. IsFiniteSet(Staying)
  BY AssembleSizes, FS_Subset DEF Structure, Staying
<1>4. Number(Staying \cup {sl}, Final', toCreate', pm) = Number(Staying, Final, toCreate, pm)
  <2>. DEFINE c == toCreate  Z == Staying  w == Final  c2 == toCreate'  w2 == Final'
  <2>1. /\ IsFiniteSet(Z) /\ Len(c) \in Nat /\ Len(c) > 0 /\ sl \notin Z
        /\ (\A other \in Z : w2[other] = w[other]) /\ w2[sl] = c[1]
        /\ Len(c2) = Len(c) - 1 /\ \A i \in 1..Len(c2) : c2[i] = c[i + 1]
    BY <1>1, <1>2, <1>3
  <2>. HIDE DEF c, Z, w, c2, w2
  <2>2. SameNumbers(Z \cup {sl}, w2, c2, Z, w, c)
    BY <2>1, TakeHeadNumber
  <2>. QED  BY <2>2 DEF c, Z, w, c2, w2, SameNumbers
<1>. QED  BY <1>1, <1>2, <1>4 DEF Tallied

LEMMA WriteTallied ==
    ASSUME Structure, Tallied, NEW sl \in SliceName, UpdateSlice(sl) \/ DeleteSlice(sl)
    PROVE  Tallied'
<1>. SUFFICES ASSUME ~deleting', NEW pm \in PortMap
              PROVE  /\ Said(pm)'.slices = Number(Staying', Final', toCreate', pm)
                     /\ Said(pm)'.endpoints = Size(Desired(pm)')
  BY DEF Tallied
<1>1. /\ phase = "finalize" /\ ~deleting /\ Said(pm)' = Said(pm) /\ Desired(pm)' = Desired(pm)
      /\ toCreate' = toCreate
  BY DEF UpdateSlice, DeleteSlice, notes, Said, Desired
<1>2. Number(Staying, Final', toCreate, pm) = Number(Staying, Final, toCreate, pm)
  BY WriteFinal, SameNumber
<1>. QED  BY <1>1, <1>2, WriteFinal DEF Tallied

\* When the plan has been carried out, the entry says what there is.
LEMMA DoneTallied ==
    ASSUME Structure, Planned, Tallied, phase = "finalize", ~deleting,
           toCreate = << >>, toUpdate = {}, toDelete = {}, NEW pm \in PortMap
    PROVE  Told(pm)
<1>1. /\ pods \in Pods /\ IsFiniteSet(Names) /\ Len(toCreate) = 0
      /\ Staying = Names /\ \A sl \in Names : Final[sl] = slices[sl]
  BY AssembleSizes DEF Structure, TypeOK, Staying, Final, Names
<1>2. OfPorts(Staying, Final, pm) = Real(pm)
  BY <1>1 DEF OfPorts, Real
<1>3. Said(pm).slices = Cardinality(Real(pm))
  <2>1. CreatesOf(toCreate, pm) = {}
    BY <1>1 DEF CreatesOf
  <2>2. Cardinality(Real(pm)) \in Nat /\ Cardinality({}) = 0
    BY <1>1, FS_Subset, FS_CardinalityType, FS_EmptySet DEF Real
  <2>3. Said(pm).slices = Cardinality(OfPorts(Staying, Final, pm)) + Cardinality(CreatesOf(toCreate, pm))
    BY DEF Tallied, Number
  <2>. QED  BY <1>2, <2>1, <2>2, <2>3
<1>4. DOMAIN Desired(pm) = RealEndpoints(pm)
  <2>1. /\ DOMAIN Desired(pm) = {a \in Wanted(pods) : pods[a].ports = pm}
        /\ \A sl \in Names : DOMAIN Desired(slices[sl].ports)
                               = {a \in Wanted(pods) : pods[a].ports = slices[sl].ports}
    BY <1>1, WantedFacts
  <2>2. UpToDate
    BY DoneUpToDate
  <2>3. \A sl \in Names : \A a \in DOMAIN slices[sl].endpoints :
           a \in Wanted(pods) /\ pods[a].ports = slices[sl].ports
    BY <2>1, <2>2 DEF UpToDate
  <2>4. \A a \in Wanted(pods) : \E sl \in Names : a \in DOMAIN slices[sl].endpoints
    BY <1>1 DEF Planned, Covered, Addresses
  <2>. QED  BY <2>1, <2>3, <2>4 DEF Real, RealEndpoints
<1>5. Said(pm).endpoints = Size(Desired(pm))
  BY DEF Tallied
<1>6. Size(Desired(pm)) = Cardinality(RealEndpoints(pm))
  BY <1>4 DEF Size
<1>. QED  BY <1>3, <1>5, <1>6 DEF Told

\* MetricsExact in these terms, before a step and after it.
LEMMA MetricsTold ==
    /\ MetricsExact <=> (phase = "synced" /\ ~deleting => \A pm \in PortMap : Told(pm))
    /\ MetricsExact' <=> (phase' = "synced" /\ ~deleting' => \A pm \in PortMap : Told(pm)')
BY DEF MetricsExact, Told, Said, Real, RealEndpoints

LEMMA SameTold == UNCHANGED <<slices, counts>> => \A pm : Told(pm)' <=> Told(pm)
<1>. SUFFICES ASSUME UNCHANGED <<slices, counts>>, NEW pm PROVE Told(pm)' <=> Told(pm)
  OBVIOUS
<1>1. Said(pm)' = Said(pm) /\ Names' = Names
  BY DEF Said, Names
<1>2. Real(pm)' = Real(pm)
  BY <1>1 DEF Real
<1>3. RealEndpoints(pm)' = RealEndpoints(pm)
  BY <1>2 DEF RealEndpoints
<1>. QED  BY <1>1, <1>2, <1>3 DEF Told

LEMMA TalliedStep ==
    ASSUME Agreeing, Tallied, MetricsExact, [Next]_vars
    PROVE  Tallied' /\ MetricsExact'
<1>. USE DEF Agreeing, Next
<1>1. CASE \/ ServiceRelabelled \/ ServiceRecreated \/ (\E sl \in SliceName : SliceLost(sl))
           \/ Start \/ StartNodeMissing \/ CallFails
           \/ (\E pm \in PortMap : StartGroup(pm)) \/ (\E sl \in SliceName : ScanSlice(sl))
           \/ ScanDone \/ (\E sl \in SliceName : FillUpdated(sl)) \/ FillDone
           \/ PlaceInUnchanged \/ PlaceInNew \/ GroupDone
  <2>1. phase' \in {"idle", "groups", "scan", "fill", "place"}
    BY <1>1 DEF ServiceRelabelled, ServiceRecreated, SliceLost, Mishap, Start, StartNodeMissing,
                CallFails, StartGroup, ScanSlice, ScanDone, FillUpdated, FillDone, PlaceInUnchanged,
                PlaceInNew, GroupDone
  <2>. QED  BY <2>1 DEF Tallied, MetricsExact
<1>2. CASE Assemble
  <2>1. phase' = "finalize"
    BY <1>2 DEF Assemble
  <2>. QED  BY <1>2, <2>1, AssembleTallied DEF MetricsExact
<1>3. CASE CreateSlice \/ (\E sl \in SliceName : UpdateSlice(sl) \/ DeleteSlice(sl))
  <2>1. phase' = "finalize"
    BY <1>3 DEF CreateSlice, UpdateSlice, DeleteSlice
  <2>2. Tallied'
    BY <1>3, CreateTallied, WriteTallied
  <2>. QED  BY <2>1, <2>2 DEF MetricsExact
<1>4. CASE FinalizeDone
  <2>1. /\ phase = "finalize" /\ toCreate = << >> /\ toUpdate = {} /\ toDelete = {}
        /\ phase' = "synced" /\ UNCHANGED <<slices, pods, deleting, counts>>
    BY <1>4 DEF FinalizeDone, notes
  <2>2. ~deleting => \A pm \in PortMap : Told(pm)
    BY <2>1, DoneTallied
  <2>3. MetricsExact'
    BY <2>1, <2>2, SameTold, MetricsTold
  <2>. QED  BY <2>1, <2>3 DEF Tallied
<1>5. CASE UNCHANGED vars
  <2>1. UNCHANGED <<slices, pods, deleting, phase, work, toCreate, toUpdate, toDelete, counts>>
    BY <1>5 DEF vars, packing, plan, notes
  <2>2. Names' = Names /\ \A pm : Desired(pm)' = Desired(pm)
    BY <2>1, SameView
  <2>3. Staying' = Staying /\ Final' = Final /\ \A pm : Said(pm)' = Said(pm)
    BY <2>1, <2>2 DEF Staying, Final, Said
  <2>4. MetricsExact'
    BY <2>1, SameTold, MetricsTold
  <2>5. Tallied'
    BY <2>1, <2>2, <2>3 DEF Tallied
  <2>. QED  BY <2>4, <2>5
<1>. QED  BY <1>1, <1>2, <1>3, <1>4, <1>5

\* When a round has ended without an error, the metrics cache counts the slices
\* there are and the endpoints in them: what UpdateServicePortCache was told before
\* finalize came true (reconcileByAddressType in reconciler.go).
THEOREM MetricsComeTrue == Spec => []MetricsExact
<1>1. Init => Tallied /\ MetricsExact
  BY DEF Init, Tallied, MetricsExact
<1>2. Agreeing /\ Tallied /\ MetricsExact /\ [Next]_vars => (Tallied /\ MetricsExact)'
  BY TalliedStep
<1>. QED  BY <1>1, <1>2, InitAgreeing, AgreeingStep, PTL DEF Spec
=============================================================================
