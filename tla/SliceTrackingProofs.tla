------------------------- MODULE SliceTrackingProofs -------------------------
(***************************************************************************)
(* What the tracker is for, for any number of services, workers, slices,   *)
(* versions and mishaps: a service never gets a second slice; what it must *)
(* not do: keep a sync from its work when nothing is on its way.  And that *)
(* no slice the process has written goes back to an earlier state of the   *)
(* pods, and that a sync that succeeds without interference leaves its     *)
(* service with a slice.                                                   *)
(***************************************************************************)
EXTENDS SliceControllerProofs, SequenceTheorems

(***************************************************************************)
(* What a UID stands for, and what a sync knows.  A slice keeps its owner  *)
(* and its service, and a UID that is gone does not come back; so whatever *)
(* is on its way about a slice that exists is about the same slice.  A     *)
(* sync has read the service after any slice of it was written, and nobody *)
(* else writes those slices meanwhile.                                     *)
(***************************************************************************)
Syncing(w) == work[w].pc \in {"pods", "slices", "check", "call", "track"}

\* "slice" is one of UID u as it was at some time.
Once(u, slice) ==
    /\ u <= used
    /\ slices[u] # NoSlice =>
         slice.service = slices[u].service /\ slice.owner = slices[u].owner

SlicesOK ==
    \A u \in SliceId : slices[u] # NoSlice =>
      /\ u <= used
      /\ slices[u].owner <= incarnation[slices[u].service]

CacheOK == \A u \in SliceId : cache[u] # NoSlice => Once(u, cache[u])

Reported(events) ==
    \A i \in DOMAIN events :
      /\ Once(events[i].uid, events[i].slice)
      /\ events[i].gone => slices[events[i].uid] = NoSlice

JobOK(w) ==
    LET job == work[w]
        s   == job.service
    IN  /\ job.owner <= incarnation[s]
        /\ \A u \in SliceId : slices[u] # NoSlice /\ slices[u].service = s
                                => slices[u].owner <= job.owner
        /\ job.pc = "check" =>
             \A u \in SliceId : job.listed[u] # NoSlice =>
               Once(u, job.listed[u]) /\ job.listed[u].service = s
        /\ job.pc \in {"call", "track"} =>
             \A u \in job.updates : u <= used /\ (slices[u] # NoSlice => slices[u].service = s)
        /\ job.pc = "track" =>
             /\ job.reply.uid <= used
             /\ slices[job.reply.uid] # NoSlice => job.reply.generation > 0

Knowing ==
    /\ SlicesOK /\ CacheOK /\ Reported(watch) /\ Reported(notes)
    /\ \A w \in Worker : Syncing(w) => JobOK(w)

(***************************************************************************)
(* What the tracker knows, as long as no reply has been lost and no other  *)
(* process has taken over: every slice a service owns, while a sync may    *)
(* rely on it.  So a slice is only created where there is none.            *)
(***************************************************************************)
Reliable == mishaps["lost"] = 0 /\ mishaps["failover"] = 0

\* The tracker knows of u, or is about to be told.
Tracked(s, u) ==
    \/ tracker[s][u] > 0
    \/ \E w \in Worker : At(w, "track") /\ work[w].service = s /\ work[w].reply.uid = u

Relying(s) == alive[s] \/ \E w \in Worker : Syncing(w) /\ work[w].service = s

Tracking == \A s \in Service : Relying(s) => \A u \in Owned(s) : Tracked(s, u)

Creating(w) ==
    /\ At(w, "call") \/ At(w, "track")
    /\ work[w].create /\ work[w].owner = incarnation[work[w].service]

Needed == \A w \in Worker : Creating(w) => Owned(work[w].service) = {}

Single == \A s \in Service : \A u, v \in Owned(s) : u = v

Counted == Tracking /\ Needed /\ Single
-----------------------------------------------------------------------------
\* UIDs are given out once, and a slice keeps its owner and its service.
Lasting ==
    /\ used <= used'
    /\ \A u \in SliceId : u <= used /\ slices'[u] # NoSlice =>
         /\ slices[u] # NoSlice
         /\ slices'[u].service = slices[u].service /\ slices'[u].owner = slices[u].owner

\* The services go on.
Growing == \A s \in Service : incarnation[s] <= incarnation'[s]

LEMMA Typed ==
    ASSUME TypeOK
    PROVE  /\ used \in Nat
           /\ \A s \in Service : incarnation[s] \in Nat /\ want[s] \in Nat
           /\ \A u \in SliceId : slices[u] # NoSlice =>
                /\ slices[u] \in EndpointSlice
                /\ slices[u].service \in Service
                /\ slices[u].owner \in Nat /\ slices[u].content \in Nat
                /\ slices[u].generation \in Nat \ {0}
           /\ \A w \in Worker :
                /\ work[w] \in Job /\ work[w].service \in Service
                /\ work[w].owner \in Nat /\ work[w].want \in Nat
<1>1. \A x \in EndpointSlice : x.service \in Service /\ x.owner \in Nat /\ x.content \in Nat
                               /\ x.generation \in Nat \ {0}
  BY DEF EndpointSlice
<1>2. \A j \in Job : j.service \in Service /\ j.owner \in Nat /\ j.want \in Nat
  BY DEF Job
<1>3. \A u \in SliceId : slices[u] # NoSlice => slices[u] \in EndpointSlice
  BY Parts DEF ServerOK, Stored
<1>4. \A w \in Worker : work[w] \in Job
  BY Parts DEF WorkOK
<1>5. used \in Nat
  BY Parts DEF ServerOK
<1>6. \A s \in Service : incarnation[s] \in Nat /\ want[s] \in Nat
  BY Parts, ControllerAssumption DEF DesiredOK
<1> QED
  BY <1>1, <1>2, <1>3, <1>4, <1>5, <1>6

LEMMA TypedNext ==
    ASSUME TypeOK'
    PROVE  /\ used' \in Nat
           /\ \A s \in Service : incarnation'[s] \in Nat /\ want'[s] \in Nat
           /\ \A u \in SliceId : slices'[u] # NoSlice => slices'[u] \in EndpointSlice
<1>1. used' \in 0..MaxSlices /\ slices' \in Stored
  BY DEF TypeOK
<1>2. incarnation' \in [Service -> 1..MaxIncarnation] /\ want' \in [Service -> 1..MaxVersion]
  BY DEF TypeOK
<1> QED
  BY <1>1, <1>2, ControllerAssumption DEF Stored

LEMMA ErasureLasts ==
    ASSUME TypeOK, NEW u \in SliceId, Erase(u), used' = used
    PROVE  Lasting /\ \A v \in SliceId : slices'[v] # NoSlice => slices'[v] = slices[v]
<1>1. slices \in [SliceId -> EndpointSlice \cup {NoSlice}]
  BY Parts DEF ServerOK, Stored
<1> QED
  BY <1>1, Typed DEF Erase, Lasting

LEMMA OnceLasts ==
    ASSUME TypeOK, TypeOK', Lasting, NEW u \in SliceId, NEW x, Once(u, x)
    PROVE  /\ u <= used'
           /\ slices'[u] # NoSlice => x.service = slices'[u].service /\ x.owner = slices'[u].owner
<1>1. used \in Nat /\ used' \in Nat /\ u \in Nat
  BY Typed, TypedNext DEF SliceId
<1> QED
  BY <1>1 DEF Once, Lasting

\* Reported after a step.
ReportedThen(events) ==
    \A i \in DOMAIN events :
      /\ events[i].uid <= used'
      /\ slices'[events[i].uid] # NoSlice =>
           /\ events[i].slice.service = slices'[events[i].uid].service
           /\ events[i].slice.owner = slices'[events[i].uid].owner
      /\ events[i].gone => slices'[events[i].uid] = NoSlice

LEMMA ReportedLasts ==
    ASSUME TypeOK, TypeOK', Lasting, NEW events \in Seq(Events), Reported(events)
    PROVE  ReportedThen(events)
<1> SUFFICES ASSUME NEW i \in DOMAIN events
             PROVE  /\ events[i].uid <= used'
                    /\ slices'[events[i].uid] # NoSlice =>
                         /\ events[i].slice.service = slices'[events[i].uid].service
                         /\ events[i].slice.owner = slices'[events[i].uid].owner
                    /\ events[i].gone => slices'[events[i].uid] = NoSlice
  BY DEF ReportedThen
<1>1. events[i] \in Events
  OBVIOUS
<1>2. events[i].uid \in SliceId
  BY <1>1 DEF Events
<1>3. Once(events[i].uid, events[i].slice)
  BY DEF Reported
<1>4. events[i].gone => slices'[events[i].uid] = NoSlice
  BY <1>2, <1>3 DEF Reported, Lasting, Once
<1> QED
  BY <1>2, <1>3, <1>4, OnceLasts

LEMMA ReportedAppended ==
    ASSUME NEW events \in Seq(Events), ReportedThen(events),
           NEW u \in SliceId, NEW gone \in BOOLEAN,
           NEW slice \in EndpointSlice, u <= used',
           slices'[u] # NoSlice => /\ slice.service = slices'[u].service
                                   /\ slice.owner = slices'[u].owner
                                   /\ ~gone
    PROVE  ReportedThen(Append(events, Event(u, gone, slice)))
<1> DEFINE e == Event(u, gone, slice)
<1>1. e.uid = u /\ e.gone = gone /\ e.slice = slice /\ e \in Events
  BY DEF Event, Events
<1> HIDE DEF e
<1>2. ASSUME NEW i \in DOMAIN Append(events, e)
      PROVE  Append(events, e)[i] = e
              \/ (i \in DOMAIN events /\ Append(events, e)[i] = events[i])
  <2>1. Len(Append(events, e)) = Len(events) + 1
    BY <1>1
  <2>2. i \in 1..(Len(events) + 1) /\ Len(events) \in Nat
    BY <1>1, <2>1
  <2>3. Append(events, e)[Len(events) + 1] = e
        /\ \A j \in 1..Len(events) : Append(events, e)[j] = events[j]
    BY <1>1, AppendProperties
  <2>4. DOMAIN events = 1..Len(events)
    OBVIOUS
  <2>5. i = Len(events) + 1 \/ i \in 1..Len(events)
    BY <2>2
  <2> QED
    BY <2>3, <2>4, <2>5
<1> QED
  BY <1>1, <1>2 DEF ReportedThen, e

\* A sync whose slices nobody else changes goes on knowing them.
LEMMA JobLasts ==
    ASSUME TypeOK, TypeOK', Lasting, Growing, NEW w \in Worker, Syncing(w), JobOK(w),
           work'[w] = work[w],
           \A u \in SliceId : slices'[u] # NoSlice /\ slices'[u].service = work[w].service
                                => slices'[u] = slices[u]
    PROVE  JobOK(w)'
<1> DEFINE job == work[w]
           s   == job.service
<1>1. job \in Job /\ s \in Service /\ used \in Nat /\ used' \in Nat
      /\ job.owner \in Nat
  BY Typed, TypedNext
<1>2. incarnation[s] \in Nat /\ incarnation'[s] \in Nat
  BY <1>1, Typed, TypedNext
<1>3. job.owner <= incarnation'[s]
  BY <1>1, <1>2 DEF JobOK, Growing
<1>4. \A u \in SliceId : slices'[u] # NoSlice /\ slices'[u].service = s
                            => slices'[u].owner <= job.owner
  BY DEF JobOK
<1>5. job.pc = "check" => \A u \in SliceId : job.listed[u] # NoSlice =>
         /\ u <= used'
         /\ slices'[u] # NoSlice => /\ job.listed[u].service = slices'[u].service
                                    /\ job.listed[u].owner = slices'[u].owner
         /\ job.listed[u].service = s
  BY OnceLasts DEF JobOK
<1>6. ASSUME job.pc \in {"call", "track"}, NEW u \in job.updates
      PROVE  u <= used' /\ (slices'[u] # NoSlice => slices'[u].service = s)
  <2>1. u \in SliceId /\ u \in Nat
    BY <1>1, <1>6 DEF Job, SliceId
  <2> QED
    BY <1>1, <1>6, <2>1 DEF JobOK, Lasting
<1>7. job.pc = "track" =>
        /\ job.reply.uid <= used'
        /\ slices'[job.reply.uid] # NoSlice => job.reply.generation > 0
  <2>1. job.reply.uid \in SliceId /\ job.reply.uid \in Nat
    BY <1>1 DEF Job, SliceId
  <2> QED
    BY <1>1, <2>1 DEF JobOK, Lasting
<1> QED
  BY <1>3, <1>4, <1>5, <1>6, <1>7 DEF JobOK, Once

\* What lags behind, and is not changed, is still about the same slices.
LEMMA InformerLasts ==
    ASSUME TypeOK, TypeOK', Knowing, Lasting
    PROVE  /\ cache' = cache => CacheOK'
           /\ watch' = watch => Reported(watch)'
           /\ notes' = notes => Reported(notes)'
<1>1. ASSUME cache' = cache PROVE CacheOK'
  <2> SUFFICES ASSUME NEW u \in SliceId, cache[u] # NoSlice
               PROVE  Once(u, cache[u])'
    BY <1>1 DEF CacheOK
  <2>1. Once(u, cache[u])
    BY DEF Knowing, CacheOK
  <2> QED
    BY <1>1, <2>1, OnceLasts DEF Once
<1>2. ASSUME watch' = watch PROVE Reported(watch)'
  <2>1. watch \in Seq(Events) /\ Reported(watch)
    BY DEF TypeOK, Knowing
  <2> QED
    BY <1>2, <2>1, ReportedLasts DEF Reported, Once, ReportedThen
<1>3. ASSUME notes' = notes PROVE Reported(notes)'
  <2>1. notes \in Seq(Events) /\ Reported(notes)
    BY DEF TypeOK, Knowing
  <2> QED
    BY <1>3, <2>1, ReportedLasts DEF Reported, Once, ReportedThen
<1> QED
  BY <1>1, <1>2, <1>3

\* Nothing is written, though something may be deleted.
Unwritten == \A u \in SliceId : slices'[u] # NoSlice => slices'[u] = slices[u]

LEMMA SlicesLast ==
    ASSUME TypeOK, TypeOK', Knowing, Lasting, Growing, Unwritten
    PROVE  /\ SlicesOK'
           /\ \A w \in Worker : work'[w] = work[w] /\ Syncing(w) => JobOK(w)'
<1>1. SlicesOK'
  <2> SUFFICES ASSUME NEW u \in SliceId, slices'[u] # NoSlice
               PROVE  /\ u <= used'
                      /\ slices'[u].owner <= incarnation'[slices'[u].service]
    BY DEF SlicesOK
  <2> DEFINE s == slices[u].service
  <2>1. slices'[u] = slices[u]
    BY DEF Unwritten
  <2>2. u <= used /\ slices[u].owner <= incarnation[s]
    BY <2>1 DEF Knowing, SlicesOK
  <2>3. /\ s \in Service /\ u \in Nat /\ slices[u].owner \in Nat
        /\ used \in Nat /\ used' \in Nat
        /\ incarnation[s] \in Nat /\ incarnation'[s] \in Nat
    BY <2>1, Typed, TypedNext DEF SliceId
  <2> QED
    BY <2>1, <2>2, <2>3 DEF Lasting, Growing
<1>2. ASSUME NEW w \in Worker, work'[w] = work[w], Syncing(w) PROVE JobOK(w)'
  BY <1>2, JobLasts DEF Knowing, Unwritten
<1> QED
  BY <1>1, <1>2

LEMMA UnchangedLasts ==
    ASSUME TypeOK, UNCHANGED <<slices, used>>
    PROVE  Lasting /\ Unwritten
BY Typed DEF Lasting, Unwritten

LEMMA UnchangedGrows ==
    ASSUME TypeOK, UNCHANGED incarnation
    PROVE  Growing
BY Typed DEF Growing

LEMMA ServiceKnows ==
    ASSUME TypeOK, TypeOK', Knowing, NEW s \in Service,
           \/ ServiceCreated(s) \/ ServiceDeleted(s) \/ OnServiceUpdate(s)
           \/ PodChanged(s) \/ DelayOver(s)
    PROVE  Knowing'
<1> USE DEF server, informer
<1>1. UNCHANGED <<server, informer, work>>
  BY DEF ServiceCreated, ServiceDeleted, OnServiceUpdate, PodChanged, DelayOver
<1>2. Growing
  <2>1. incarnation \in [Service -> 1..MaxIncarnation]
    BY DEF TypeOK
  <2>2. CASE ServiceCreated(s)
    BY <2>1, <2>2, Typed DEF ServiceCreated, Growing
  <2>3. CASE ServiceDeleted(s) \/ OnServiceUpdate(s) \/ PodChanged(s) \/ DelayOver(s)
    BY <2>3, Typed DEF ServiceDeleted, OnServiceUpdate, PodChanged, DelayOver, Growing, desired
  <2> QED
    BY <2>2, <2>3
<1>3. Lasting /\ Unwritten
  BY <1>1, UnchangedLasts
<1>4. \A w \in Worker : Syncing(w)' => JobOK(w)'
  BY <1>1, <1>2, <1>3, SlicesLast DEF Syncing
<1> QED
  BY <1>1, <1>2, <1>3, <1>4, SlicesLast, InformerLasts DEF Knowing

\* A deletion is announced.
LEMMA ErasureKnows ==
    ASSUME TypeOK, TypeOK', Knowing, NEW u \in SliceId, slices[u] # NoSlice, Erase(u),
           UNCHANGED <<desired, used, informer>>
    PROVE  /\ Lasting /\ Growing /\ Unwritten
           /\ SlicesOK' /\ CacheOK' /\ Reported(watch)' /\ Reported(notes)'
<1>1. Lasting /\ Growing /\ Unwritten
  BY ErasureLasts, UnchangedGrows DEF Unwritten, desired
<1>2. SlicesOK' /\ CacheOK' /\ Reported(notes)'
  BY <1>1, SlicesLast, InformerLasts DEF informer
<1>3. Reported(watch)'
  <2>1. watch \in Seq(Events) /\ Reported(watch)
    BY DEF TypeOK, Knowing
  <2>2. watch' = Append(watch, Event(u, TRUE, slices[u]))
    BY DEF Erase
  <2>3. slices'[u] = NoSlice /\ u <= used' /\ slices[u] \in EndpointSlice
    BY Parts DEF Erase, ServerOK, Stored, Knowing, SlicesOK
  <2>4. ReportedThen(watch')
    BY <1>1, <2>1, <2>2, <2>3, ReportedLasts, ReportedAppended
  <2> QED
    BY <2>4 DEF ReportedThen, Reported, Once
<1> QED
  BY <1>1, <1>2, <1>3

LEMMA OthersKnow ==
    ASSUME TypeOK, TypeOK', Knowing, NEW u \in SliceId, Removed(u) \/ GarbageCollected(u)
    PROVE  Knowing'
<1>1. slices[u] # NoSlice /\ Erase(u) /\ UNCHANGED <<desired, used, informer, work>>
  BY DEF Removed, GarbageCollected
<1>2. \A w \in Worker : Syncing(w)' => JobOK(w)'
  BY <1>1, ErasureKnows, SlicesLast DEF Syncing
<1> QED
  BY <1>1, <1>2, ErasureKnows DEF Knowing

\* The informer moves what it knows from the watch to the cache and the notes.
LEMMA InformerKnows ==
    ASSUME TypeOK, TypeOK', Knowing, InformerStep
    PROVE  Knowing'
<1> USE DEF server
<1>1. UNCHANGED <<desired, slices, used, work>>
  BY DEF InformerStep, Receive, Relist, OnEndpointSliceUpdate, OnEndpointSliceDelete
<1>2. Lasting /\ Growing /\ Unwritten
  BY <1>1, UnchangedLasts, UnchangedGrows DEF desired
<1>3. SlicesOK' /\ \A w \in Worker : Syncing(w)' => JobOK(w)'
  BY <1>1, <1>2, SlicesLast DEF Syncing
<1>4. /\ watch \in Seq(Events) /\ notes \in Seq(Events)
      /\ ReportedThen(watch) /\ ReportedThen(notes)
  BY <1>2, ReportedLasts DEF TypeOK, Knowing
<1>5. CASE Receive
  <2> DEFINE e == Head(watch)
  <2>1. watch # << >> /\ e \in Events /\ e = watch[1] /\ 1 \in DOMAIN watch
    BY <1>4, <1>5 DEF Receive
  <2>2. e.uid \in SliceId /\ e.gone \in BOOLEAN /\ e.slice \in EndpointSlice
        /\ e = Event(e.uid, e.gone, e.slice)
    BY <2>1 DEF Events, Event
  <2>3. /\ e.uid <= used'
        /\ slices'[e.uid] # NoSlice =>
             /\ e.slice.service = slices'[e.uid].service
             /\ e.slice.owner = slices'[e.uid].owner
             /\ ~e.gone
    BY <1>4, <2>1 DEF ReportedThen
  <2>4. /\ cache' = [cache EXCEPT ![e.uid] = IF e.gone THEN NoSlice ELSE e.slice]
        /\ notes' = Append(notes, e)
        /\ watch' = Tail(watch)
    BY <1>5 DEF Receive
  <2> HIDE DEF e
  <2>5. CacheOK'
    <3>1. cache \in Stored
      BY DEF TypeOK
    <3>2. ASSUME NEW u \in SliceId, cache'[u] # NoSlice
          PROVE  /\ u <= used'
                 /\ slices'[u] # NoSlice =>
                      /\ cache'[u].service = slices'[u].service
                      /\ cache'[u].owner = slices'[u].owner
      <4>1. CASE u = e.uid
        BY <2>2, <2>3, <2>4, <3>1, <3>2, <4>1 DEF Stored
      <4>2. CASE u # e.uid
        <5>1. cache'[u] = cache[u]
          BY <2>2, <2>4, <3>1, <4>2 DEF Stored
        <5>2. Once(u, cache[u])
          BY <3>2, <5>1 DEF Knowing, CacheOK
        <5> QED
          BY <1>2, <5>1, <5>2, OnceLasts
      <4> QED
        BY <4>1, <4>2
    <3> QED
      BY <3>2 DEF CacheOK, Once
  <2>6. ReportedThen(notes')
    BY <1>4, <2>2, <2>3, <2>4, ReportedAppended
  <2>7. ReportedThen(watch')
    <3>1. \A i \in DOMAIN watch' : i + 1 \in DOMAIN watch /\ watch'[i] = watch[i + 1]
      BY <1>4, <2>1, <2>4
    <3> QED
      BY <1>4, <3>1 DEF ReportedThen
  <2> QED
    BY <1>3, <2>5, <2>6, <2>7 DEF Knowing, Reported, ReportedThen, Once
<1>6. CASE Relist
  <2> DEFINE different == {u \in SliceId : cache[u] # slices[u]}
             difference(u) == IF slices[u] = NoSlice THEN Event(u, TRUE, cache[u])
                              ELSE Event(u, FALSE, slices[u])
  <2>1. PICK order \in Orders(different) :
          notes' = notes \o [i \in DOMAIN order |-> difference(order[i])]
    BY <1>6 DEF Relist
  <2>2. cache' = slices /\ watch' = << >>
    BY <1>6 DEF Relist
  <2>3. CacheOK' /\ Reported(watch)'
    BY <1>1, <2>2 DEF CacheOK, Reported, Once, Knowing, SlicesOK
  <2>4. order \in Seq(different)
    BY OrdersAreSequences, SliceIdFinite
  <2>5. cache \in Stored /\ slices \in Stored
    BY DEF TypeOK
  <2>6. ASSUME NEW u \in different
        PROVE  /\ difference(u).uid = u /\ u \in SliceId /\ u <= used'
               /\ difference(u) \in Events
               /\ slices'[u] # NoSlice => difference(u).slice = slices'[u] /\ ~difference(u).gone
    <3>1. CASE slices[u] = NoSlice
      <4>1. cache[u] \in EndpointSlice
        BY <2>5, <3>1 DEF Stored
      <4>2. u <= used
        BY <3>1 DEF Knowing, CacheOK, Once
      <4> QED
        BY <1>1, <3>1, <4>1, <4>2 DEF Event, Events
    <3>2. CASE slices[u] # NoSlice
      <4>1. slices[u] \in EndpointSlice
        BY <2>5, <3>2 DEF Stored
      <4>2. u <= used
        BY <3>2 DEF Knowing, SlicesOK
      <4> QED
        BY <1>1, <3>2, <4>1, <4>2 DEF Event, Events
    <3> QED
      BY <3>1, <3>2
  <2> HIDE DEF difference, different
  <2> DEFINE told == [i \in DOMAIN order |-> difference(order[i])]
  <2>7. told \in Seq(Events) /\ DOMAIN told = DOMAIN order
        /\ \A i \in DOMAIN told : order[i] \in different /\ told[i] = difference(order[i])
    BY <2>4, <2>6
  <2>8. ReportedThen(told)
    BY <2>6, <2>7 DEF ReportedThen
  <2> HIDE DEF told
  <2>9. ASSUME NEW i \in DOMAIN notes'
        PROVE  \/ i \in DOMAIN notes /\ notes'[i] = notes[i]
               \/ i - Len(notes) \in DOMAIN told /\ notes'[i] = told[i - Len(notes)]
    <3>1. notes' = notes \o told
      BY <2>1 DEF told
    <3> QED
      BY <1>4, <2>7, <3>1, ConcatProperties
  <2>10. ReportedThen(notes')
    BY <1>4, <2>8, <2>9 DEF ReportedThen
  <2> QED
    BY <1>3, <2>3, <2>10 DEF Knowing, Reported, ReportedThen, Once
<1>7. CASE OnEndpointSliceUpdate \/ OnEndpointSliceDelete
  <2>1. notes # << >> /\ notes' = Tail(notes) /\ UNCHANGED <<cache, watch>>
    BY <1>7 DEF OnEndpointSliceUpdate, OnEndpointSliceDelete
  <2>2. \A i \in DOMAIN notes' : i + 1 \in DOMAIN notes /\ notes'[i] = notes[i + 1]
    BY <1>4, <2>1
  <2>3. ReportedThen(notes')
    BY <1>4, <2>2 DEF ReportedThen
  <2>4. CacheOK' /\ Reported(watch)'
    BY <1>2, <2>1, InformerLasts
  <2> QED
    BY <1>3, <2>3, <2>4 DEF Knowing, Reported, ReportedThen, Once
<1> QED
  BY <1>5, <1>6, <1>7 DEF InformerStep

\* What a plan takes over from the list: only slices of it are written, and a
\* slice is created only if the list has none of the service's own.
LEMMA PlanFacts ==
    ASSUME TypeOK, NEW w \in Worker, NEW planned \in Plans(w)
    PROVE  /\ planned.service = work[w].service /\ planned.pc = "call"
           /\ planned.owner = work[w].owner /\ planned.want = work[w].want
           /\ planned.listed = Nothing
           /\ planned.updates \subseteq Listed(work[w].listed)
           /\ planned.deletes \subseteq Listed(work[w].listed)
           /\ planned.create =>
                \A u \in Listed(work[w].listed) : work[w].listed[u].owner # work[w].owner
<1> DEFINE listed == work[w].listed
           owned  == {u \in Listed(listed) : listed[u].owner = work[w].owner}
           right  == {u \in owned : listed[u].content = work[w].want}
           plan(create, updates, kept) ==
               [work[w] EXCEPT !.create = create, !.updates = updates,
                               !.deletes = Listed(listed) \ kept,
                               !.listed = Nothing, !.pc = "call"]
<1>1. work[w] \in Job
  BY Typed
<1>3. \/ right # {} /\ planned \in {plan(FALSE, {}, {u}) : u \in right}
      \/ owned # {} /\ planned \in {plan(FALSE, {u}, {u}) : u \in owned}
      \/ owned = {} /\ planned = plan(TRUE, {}, {})
  BY DEF Plans
<1>4. ASSUME NEW u \in right, planned = plan(FALSE, {}, {u})
      PROVE  /\ planned.updates = {} /\ ~planned.create /\ planned.service = work[w].service
             /\ planned.owner = work[w].owner /\ planned.want = work[w].want
             /\ planned.listed = Nothing /\ planned.pc = "call"
             /\ planned.deletes \subseteq Listed(listed)
  BY <1>1, <1>4 DEF Job
<1>5. ASSUME NEW u \in owned, planned = plan(FALSE, {u}, {u})
      PROVE  /\ planned.updates = {u} /\ ~planned.create /\ planned.service = work[w].service
             /\ planned.owner = work[w].owner /\ planned.want = work[w].want
             /\ planned.listed = Nothing /\ planned.pc = "call"
             /\ planned.deletes \subseteq Listed(listed)
  BY <1>1, <1>5 DEF Job
<1>6. ASSUME owned = {}, planned = plan(TRUE, {}, {})
      PROVE  /\ planned.updates = {} /\ planned.service = work[w].service
             /\ planned.owner = work[w].owner /\ planned.want = work[w].want
             /\ planned.listed = Nothing /\ planned.pc = "call"
             /\ planned.deletes \subseteq Listed(listed)
  BY <1>1, <1>6 DEF Job
<1> QED
  BY <1>3, <1>4, <1>5, <1>6

\* A step of a worker that leaves the server alone.
LEMMA LocalKnows ==
    ASSUME TypeOK, TypeOK', Knowing, NEW w \in Worker,
           \/ Get(w) \/ ServiceNotFound(w) \/ GetService(w) \/ ListPods(w) \/ ListSlices(w)
           \/ Stale(w) \/ Reconcile(w)
           \/ Track(w) \/ Finalized(w) \/ HandleErr(w) \/ CallFails(w)
    PROVE  Knowing'
<1> DEFINE s == work[w].service
<1>1. UNCHANGED <<desired, server, informer>>
  BY DEF Get, ServiceNotFound, GetService, ListPods, ListSlices, Stale, Reconcile, Track,
         Finalized, HandleErr, CallFails
<1>2. UNCHANGED <<incarnation, slices, used, watch, cache, notes>>
  BY <1>1 DEF desired, server, informer
<1>3. Lasting /\ Growing /\ Unwritten
  BY <1>1, <1>2, UnchangedLasts, UnchangedGrows
<1>4. /\ SlicesOK' /\ CacheOK' /\ Reported(watch)' /\ Reported(notes)'
  BY <1>2, <1>3, SlicesLast, InformerLasts
<1>5. work \in [Worker -> Job] /\ s \in Service
  BY Typed DEF TypeOK
<1>6. \A v \in Worker : v # w => work'[v] = work[v]
  BY <1>5 DEF Get, ServiceNotFound, GetService, ListPods, ListSlices, Stale, Reconcile, Track,
              Finalized, HandleErr, CallFails, GoTo
<1>7. ASSUME Syncing(w)' PROVE JobOK(w)'
  <2>1. CASE Get(w)
    BY <1>5, <1>7, <2>1 DEF Get, Fresh, Syncing
  <2>7. CASE GetService(w)
    <3>1. work'[w] = [work[w] EXCEPT !.owner = incarnation[s], !.pc = "pods"]
      BY <1>5, <2>7 DEF GetService
    <3>2. work'[w].service = s /\ work'[w].pc = "pods" /\ work'[w].owner = incarnation[s]
      BY <1>5, <3>1 DEF Job
    <3>3. \A u \in SliceId : slices[u] # NoSlice /\ slices[u].service = s
                               => slices[u].owner <= incarnation[s]
      BY DEF Knowing, SlicesOK
    <3>4. incarnation[s] \in Nat
      BY <1>5, Typed
    <3> QED
      BY <1>2, <3>2, <3>3, <3>4 DEF JobOK
  <2>8. CASE ListPods(w)
    <3>1. JobOK(w) /\ work[w] \in Job
      BY <1>5, <2>8 DEF ListPods, At, Syncing, Knowing
    <3>2. work'[w] = [work[w] EXCEPT !.want = want[s], !.pc = "slices"]
      BY <1>5, <2>8 DEF ListPods
    <3>3. work'[w].service = s /\ work'[w].pc = "slices" /\ work'[w].owner = work[w].owner
      BY <3>1, <3>2 DEF Job
    <3> QED
      BY <1>2, <3>1, <3>3 DEF JobOK
  <2>2. CASE ServiceNotFound(w) \/ Stale(w) \/ Finalized(w) \/ CallFails(w)
    <3>1. GoTo(w, "ok") \/ GoTo(w, "error")
      BY <2>2 DEF ServiceNotFound, Stale, Finalized, CallFails
    <3>2. work'[w].pc \in {"ok", "error"}
      BY <1>5, <3>1 DEF GoTo, Job
    <3> QED
      BY <1>7, <3>2 DEF Syncing
  <2>3. CASE HandleErr(w)
    BY <1>5, <1>7, <2>3, IdleTyped DEF HandleErr, Syncing
  <2>4. CASE ListSlices(w)
    <3>1. JobOK(w) /\ work[w] \in Job
      BY <1>5, <2>4 DEF ListSlices, At, Syncing, Knowing
    <3>2. work'[w] = [work[w] EXCEPT !.listed = List(s, cache), !.pc = "check"]
      BY <1>5, <2>4 DEF ListSlices
    <3>3. /\ work'[w].service = s /\ work'[w].pc = "check"
          /\ work'[w].owner = work[w].owner /\ work'[w].listed = List(s, cache)
      BY <3>1, <3>2 DEF Job
    <3>4. \A u \in SliceId : List(s, cache)[u] # NoSlice =>
             /\ List(s, cache)[u] = cache[u] /\ cache[u] # NoSlice
             /\ cache[u].service = s
      BY DEF List, Of
    <3>5. \A u \in SliceId : List(s, cache)[u] # NoSlice => Once(u, List(s, cache)[u])
      BY <3>4 DEF Knowing, CacheOK
    <3> QED
      BY <1>2, <3>1, <3>3, <3>4, <3>5 DEF JobOK, Once
  <2>5. CASE Reconcile(w)
    <3>1. JobOK(w) /\ work[w] \in Job
      BY <1>5, <2>5 DEF Reconcile, At, Syncing, Knowing
    <3>2. PICK planned \in Plans(w) : work'[w] = planned
      BY <1>5, <2>5 DEF Reconcile
    <3>4. /\ planned.service = s /\ planned.pc = "call" /\ planned.listed = Nothing
          /\ planned.owner = work[w].owner
          /\ planned.updates \subseteq Listed(work[w].listed)
      BY PlanFacts
    <3>5. \A u \in planned.updates : u <= used /\ (slices[u] # NoSlice => slices[u].service = s)
      BY <2>5, <3>1, <3>4 DEF Reconcile, At, JobOK, Listed, Once
    <3> QED
      BY <1>2, <3>1, <3>2, <3>4, <3>5 DEF JobOK, Nothing
  <2>6. CASE Track(w)
    <3>1. JobOK(w) /\ work[w] \in Job /\ work[w].pc = "track"
      BY <1>5, <2>6 DEF Track, At, Syncing, Knowing
    <3>2. work'[w] = [work[w] EXCEPT !.pc = "call"]
      BY <1>5, <2>6 DEF Track, GoTo
    <3>3. /\ work'[w].service = s /\ work'[w].pc = "call"
          /\ work'[w].owner = work[w].owner /\ work'[w].want = work[w].want
          /\ work'[w].updates = work[w].updates /\ work'[w].listed = work[w].listed
      BY <3>1, <3>2 DEF Job
    <3> QED
      BY <1>2, <3>1, <3>3 DEF JobOK, Once
  <2> QED
    BY <2>1, <2>2, <2>3, <2>4, <2>5, <2>6, <2>7, <2>8
<1>8. \A v \in Worker : Syncing(v)' => JobOK(v)'
  <2> SUFFICES ASSUME NEW v \in Worker, v # w, Syncing(v)' PROVE JobOK(v)'
    BY <1>7
  <2>1. work'[v] = work[v] /\ Syncing(v)
    BY <1>6 DEF Syncing
  <2> QED
    BY <1>3, <2>1, SlicesLast
<1> QED
  BY <1>4, <1>8 DEF Knowing

LEMMA FailoverKnows ==
    ASSUME TypeOK, TypeOK', Knowing, Failover
    PROVE  Knowing'
<1>1. UNCHANGED <<incarnation, slices, used, watch, cache, notes>>
  BY DEF Failover, server, informer
<1>2. Lasting /\ Growing /\ Unwritten
  BY <1>1, UnchangedLasts, UnchangedGrows
<1>3. \A w \in Worker : ~Syncing(w)'
  BY IdleTyped DEF Failover, Syncing
<1> QED
  BY <1>1, <1>2, <1>3, SlicesLast, InformerLasts DEF Knowing
-----------------------------------------------------------------------------
\* The work of a worker after a call, if the reply has come.
LEMMA RepliedFacts ==
    ASSUME TypeOK, NEW w \in Worker, NEW rest \in Job, NEW u, NEW generation,
           Replied(w, rest, u, generation)
    PROVE  /\ \A v \in Worker : v # w => work'[v] = work[v]
           /\ \/ ~Syncing(w)' /\ mishaps'["lost"] > mishaps["lost"]
              \/ /\ work'[w].pc = "track" /\ work'[w].service = rest.service
                 /\ work'[w].owner = rest.owner /\ work'[w].want = rest.want
                 /\ work'[w].listed = rest.listed /\ work'[w].updates = rest.updates
                 /\ work'[w].create = rest.create /\ work'[w].deletes = rest.deletes
                 /\ work'[w].reply.uid = u /\ work'[w].reply.generation = generation
                 /\ UNCHANGED mishaps
<1>1. work \in [Worker -> Job] /\ mishaps \in [Mishaps -> Nat]
  BY DEF TypeOK
<1>2. CASE work' = [work EXCEPT ![w] = [rest EXCEPT !.pc = "track",
                        !.reply = [uid |-> u, generation |-> generation]]]
           /\ UNCHANGED mishaps
  BY <1>1, <1>2 DEF Job
<1>3. CASE Mishap("lost") /\ GoTo(w, "error")
  <2>1. work'[w].pc = "error" /\ \A v \in Worker : v # w => work'[v] = work[v]
    BY <1>1, <1>3 DEF GoTo, Job
  <2>2. mishaps'["lost"] = mishaps["lost"] + 1 /\ mishaps["lost"] \in Nat
    BY <1>1, <1>3 DEF Mishap, Mishaps
  <2> QED
    BY <2>1, <2>2 DEF Syncing
<1> QED
  BY <1>2, <1>3 DEF Replied

\* A call of worker w for the slice of UID u.
LEMMA CallKnows ==
    ASSUME TypeOK, TypeOK', Knowing, OneWorkerPerService, Lasting,
           NEW w \in Worker, At(w, "call"), UNCHANGED <<desired, informer>>,
           NEW u \in SliceId, u <= used',
           \A v \in SliceId : v # u => slices'[v] = slices[v],
           slices'[u] # NoSlice => /\ slices'[u].service = work[w].service
                                   /\ slices'[u].owner <= work[w].owner,
           Reported(watch)',
           NEW rest \in Job, rest.service = work[w].service, rest.owner = work[w].owner,
           rest.updates \subseteq work[w].updates,
           NEW generation, slices'[u] # NoSlice => generation > 0,
           Replied(w, rest, u, generation)
    PROVE  Knowing'
<1> DEFINE s == work[w].service
<1>1. /\ work \in [Worker -> Job] /\ s \in Service /\ JobOK(w)
      /\ work[w].owner \in Nat /\ incarnation[s] \in Nat
      /\ used \in Nat /\ used' \in Nat
  BY Typed, TypedNext DEF TypeOK, Knowing, Syncing, At
<1>2. incarnation' = incarnation /\ Growing /\ cache' = cache /\ notes' = notes
  BY UnchangedGrows DEF desired, informer
<1>3. CacheOK' /\ Reported(notes)'
  BY <1>2, InformerLasts
<1>4. SlicesOK'
  <2> SUFFICES ASSUME NEW v \in SliceId, slices'[v] # NoSlice
               PROVE  /\ v <= used'
                      /\ slices'[v].owner <= incarnation[slices'[v].service]
    BY <1>2 DEF SlicesOK
  <2>1. CASE v = u
    <3>1. slices'[v].owner \in Nat
      BY TypedNext DEF EndpointSlice
    <3> QED
      BY <1>1, <2>1, <3>1 DEF JobOK
  <2>2. CASE v # u
    <3>1. slices'[v] = slices[v] /\ v \in Nat
      BY <2>2 DEF SliceId
    <3>2. v <= used /\ slices[v].owner <= incarnation[slices[v].service]
      BY <3>1 DEF Knowing, SlicesOK
    <3> QED
      BY <1>1, <3>1, <3>2 DEF Lasting
  <2> QED
    BY <2>1, <2>2
<1>5. ASSUME NEW v \in Worker, v # w, Syncing(v)' PROVE JobOK(v)'
  <2>1. work'[v] = work[v] /\ Syncing(v)
    BY <1>5, RepliedFacts DEF Syncing
  <2>2. work[v].service # s
    BY <1>5, <2>1 DEF OneWorkerPerService, Busy, At, Syncing
  <2>3. \A x \in SliceId : slices'[x] # NoSlice /\ slices'[x].service = work[v].service
                             => slices'[x] = slices[x]
    BY <2>2
  <2>4. JobOK(v)
    BY <2>1 DEF Knowing
  <2> QED
    BY <1>2, <2>1, <2>3, <2>4, JobLasts
<1>6. ASSUME Syncing(w)' PROVE JobOK(w)'
  <2> DEFINE job == work[w]
  <2>1. /\ work'[w].pc = "track" /\ work'[w].service = s
        /\ work'[w].owner = job.owner /\ work'[w].updates \subseteq job.updates
        /\ work'[w].reply.uid = u /\ work'[w].reply.generation = generation
    BY <1>6, RepliedFacts
  <2>2. job.owner <= incarnation'[s]
    BY <1>1, <1>2 DEF JobOK
  <2>3. \A x \in SliceId : slices'[x] # NoSlice /\ slices'[x].service = s
                             => slices'[x].owner <= job.owner
    BY <1>1 DEF JobOK
  <2>4. ASSUME NEW x \in job.updates
        PROVE  x <= used' /\ (slices'[x] # NoSlice => slices'[x].service = s)
    <3>1. x \in SliceId /\ x \in Nat
      BY <1>1, <2>4 DEF Job, SliceId
    <3>2. x <= used /\ (slices[x] # NoSlice => slices[x].service = s)
      BY <1>1, <2>4 DEF JobOK, At
    <3> QED
      BY <1>1, <3>1, <3>2 DEF Lasting
  <2> HIDE DEF job, s
  <2> QED
    BY <2>1, <2>2, <2>3, <2>4 DEF JobOK
<1> QED
  BY <1>3, <1>4, <1>5, <1>6 DEF Knowing

\* A write, or the silence of an update that changes nothing, is announced.
LEMMA WriteReported ==
    ASSUME TypeOK, TypeOK', Knowing, Lasting, NEW u \in SliceId, u <= used',
           NEW slice \in EndpointSlice, Write(u, slice)
    PROVE  Reported(watch)'
<1>1. watch \in Seq(Events) /\ ReportedThen(watch)
  BY ReportedLasts DEF TypeOK, Knowing
<1>2. slices'[u] = slice
  BY DEF Write, TypeOK, Stored
<1>3. ReportedThen(watch')
  BY <1>1, <1>2, ReportedAppended DEF Write
<1> QED
  BY <1>3 DEF ReportedThen, Reported, Once

LEMMA CreationKnows ==
    ASSUME TypeOK, TypeOK', Knowing, OneWorkerPerService, NEW w \in Worker, CreateSlice(w)
    PROVE  /\ Knowing' /\ Lasting
           /\ slices[used + 1] = NoSlice
           /\ \A v \in SliceId : v # used + 1 => slices'[v] = slices[v]
           /\ slices'[used + 1] # NoSlice
           /\ slices'[used + 1].service = work[w].service
           /\ slices'[used + 1].owner = work[w].owner
           /\ slices'[used + 1].content = work[w].want
<1> DEFINE u == used + 1
           rest == [work[w] EXCEPT !.create = FALSE]
           slice == [service |-> work[w].service, owner |-> work[w].owner,
                     content |-> work[w].want, generation |-> 1]
<1>1. /\ work[w] \in Job /\ slices \in Stored /\ used \in Nat /\ At(w, "call") /\ JobOK(w)
      /\ u \in SliceId /\ used' = u /\ UNCHANGED <<desired, informer>>
      /\ Write(u, slice) /\ Replied(w, rest, u, 1)
  BY Typed DEF TypeOK, CreateSlice, Knowing, Syncing, At
<1>2. slice \in EndpointSlice
  BY <1>1 DEF Job, EndpointSlice
<1>3. slices[u] = NoSlice
  BY <1>1 DEF Knowing, SlicesOK
<1>4. slices' = [slices EXCEPT ![u] = slice]
  BY <1>1 DEF Write
<1>5. slices'[u] = slice /\ \A v \in SliceId : v # u => slices'[v] = slices[v]
  BY <1>1, <1>4 DEF Stored
<1>6. Lasting
  <2>1. \A v \in SliceId : v <= used => v # u
    BY <1>1 DEF SliceId
  <2> QED
    BY <1>1, <1>5, <2>1 DEF Lasting
<1>7. /\ rest \in Job /\ rest.service = work[w].service /\ rest.owner = work[w].owner
      /\ rest.updates \subseteq work[w].updates
  BY <1>1 DEF Job
<1>8. /\ slice.service = work[w].service /\ slice.owner = work[w].owner
      /\ slice.content = work[w].want
  OBVIOUS
<1>9. u <= used' /\ slice.owner <= work[w].owner
  BY <1>1 DEF Job
<1> HIDE DEF u, rest, slice
<1>10. Reported(watch)'
  BY <1>1, <1>2, <1>6, <1>9, WriteReported
<1>11. Knowing'
  BY <1>1, <1>3, <1>5, <1>6, <1>7, <1>8, <1>9, <1>10, CallKnows
<1> QED
  BY <1>2, <1>3, <1>5, <1>6, <1>8, <1>11, ControllerAssumption DEF u

LEMMA UpdateKnows ==
    ASSUME TypeOK, TypeOK', Knowing, OneWorkerPerService, NEW w \in Worker,
           NEW u \in SliceId, UpdateSlice(w, u)
    PROVE  /\ Knowing' /\ Lasting
           /\ \A v \in SliceId : v # u => slices'[v] = slices[v]
           /\ slices[u] # NoSlice /\ slices'[u] # NoSlice
           /\ slices'[u].owner = slices[u].owner /\ slices'[u].service = slices[u].service
           /\ slices'[u].service = work[w].service /\ slices'[u].content = work[w].want
<1> DEFINE rest == [work[w] EXCEPT !.updates = @ \ {u}]
           next == [slices[u] EXCEPT !.content = work[w].want, !.generation = @ + 1]
<1>1. /\ work[w] \in Job /\ slices \in Stored /\ used \in Nat /\ At(w, "call") /\ JobOK(w)
      /\ u \in work[w].updates /\ slices[u] # NoSlice /\ slices[u] \in EndpointSlice
      /\ UNCHANGED <<desired, used, informer>>
  BY Typed DEF TypeOK, UpdateSlice, Knowing, Syncing, At
<1>2. u <= used' /\ slices[u].service = work[w].service
      /\ slices[u].owner <= work[w].owner
  BY <1>1 DEF JobOK, At, Knowing, SlicesOK
<1>3. /\ rest \in Job /\ rest.service = work[w].service /\ rest.owner = work[w].owner
      /\ rest.updates \subseteq work[w].updates
  BY <1>1 DEF Job
<1>4. /\ next \in EndpointSlice /\ next # NoSlice
      /\ next.service = slices[u].service /\ next.owner = slices[u].owner
      /\ next.content = work[w].want /\ next.generation > 0
  <2>1. work[w].want \in 1..MaxVersion /\ slices[u].generation \in Nat
    BY <1>1 DEF Job, EndpointSlice
  <2>2. next \in EndpointSlice /\ next.generation > 0
    <3>1. slices[u].generation + 1 \in Nat \ {0}
      BY <2>1
    <3>2. next \in EndpointSlice
      BY <1>1, <2>1, <3>1 DEF EndpointSlice
    <3> HIDE DEF next
    <3>3. next.generation \in Nat \ {0}
      BY <3>2 DEF EndpointSlice
    <3> QED
      BY <3>2, <3>3
  <2> QED
    BY <1>1, <2>2, ControllerAssumption DEF EndpointSlice
<1>5. \/ /\ slices[u].content = work[w].want
         /\ UNCHANGED <<slices, watch>> /\ Replied(w, rest, u, slices[u].generation)
      \/ Write(u, next) /\ Replied(w, rest, u, next.generation)
  BY DEF UpdateSlice
<1>6. slices[u].generation > 0
  BY <1>1 DEF EndpointSlice
<1> HIDE DEF rest, next
<1>7. CASE /\ slices[u].content = work[w].want
           /\ UNCHANGED <<slices, watch>> /\ Replied(w, rest, u, slices[u].generation)
  <2>1. Lasting
    BY <1>1, <1>7, UnchangedLasts
  <2>2. Reported(watch)'
    BY <1>7, <2>1, InformerLasts
  <2>3. Knowing'
    BY <1>1, <1>2, <1>3, <1>6, <1>7, <2>1, <2>2, CallKnows
  <2> QED
    BY <1>1, <1>2, <1>7, <2>1, <2>3, Typed
<1>8. CASE Write(u, next) /\ Replied(w, rest, u, next.generation)
  <2>1. slices'[u] = next /\ \A v \in SliceId : v # u => slices'[v] = slices[v]
    BY <1>1, <1>8 DEF Write, Stored
  <2>2. Lasting
    BY <1>1, <1>4, <2>1 DEF Lasting
  <2>3. Reported(watch)'
    BY <1>2, <1>4, <1>8, <2>2, WriteReported
  <2>4. Knowing'
    BY <1>1, <1>2, <1>3, <1>4, <1>8, <2>1, <2>2, <2>3, CallKnows
  <2> QED
    BY <1>1, <1>2, <1>4, <2>1, <2>2, <2>4
<1> QED
  BY <1>5, <1>7, <1>8

LEMMA DeletionKnows ==
    ASSUME TypeOK, TypeOK', Knowing, OneWorkerPerService, NEW w \in Worker,
           NEW u \in SliceId, DeleteSlice(w, u)
    PROVE  Knowing' /\ Lasting /\ Unwritten
<1> DEFINE rest == [work[w] EXCEPT !.deletes = @ \ {u}]
<1>1. /\ work[w] \in Job /\ slices \in Stored /\ At(w, "call") /\ JobOK(w)
      /\ slices[u] # NoSlice /\ slices[u] \in EndpointSlice
      /\ UNCHANGED <<desired, used, informer>>
      /\ Erase(u) /\ Replied(w, rest, u, deletionExpected)
      /\ work[w].updates = {}
  BY Typed DEF TypeOK, DeleteSlice, Knowing, Syncing, At
<1>2. /\ rest \in Job /\ rest.service = work[w].service /\ rest.owner = work[w].owner
      /\ rest.updates \subseteq work[w].updates
  BY <1>1 DEF Job
<1>3. slices'[u] = NoSlice /\ (\A v \in SliceId : v # u => slices'[v] = slices[v]) /\ u <= used'
  BY <1>1 DEF Erase, Stored, Knowing, SlicesOK
<1>4. Lasting /\ Unwritten /\ Reported(watch)'
  BY <1>1, ErasureKnows
<1> HIDE DEF rest
<1> QED
  BY <1>1, <1>2, <1>3, <1>4, CallKnows

\* All of it: what is known of slices stays true.
LEMMA KnowingStep ==
    ASSUME TypeOK, TypeOK', OneWorkerPerService, Knowing, [Next]_vars
    PROVE  Knowing'
<1>1. ASSUME UNCHANGED vars PROVE Knowing'
  <2>1. UNCHANGED <<desired, server, informer, work>>
    BY <1>1 DEF vars
  <2>2. Lasting /\ Growing /\ Unwritten
    BY <2>1, UnchangedLasts, UnchangedGrows DEF server, desired
  <2>3. \A w \in Worker : Syncing(w)' => JobOK(w)'
    BY <2>1, <2>2, SlicesLast DEF Syncing
  <2> QED
    BY <2>1, <2>2, <2>3, SlicesLast, InformerLasts DEF Knowing, server, informer
<1>2. ASSUME NEW w \in Worker, WorkerStep(w) PROVE Knowing'
  BY <1>2, LocalKnows, CreationKnows, UpdateKnows, DeletionKnows DEF WorkerStep
<1> QED
  BY <1>1, <1>2, ServiceKnows, OthersKnow, InformerKnows, FailoverKnows DEF Next

\* The same of the three steps that leave every slice alone, or delete one.
LEMMA UnwrittenStep ==
    ASSUME TypeOK, TypeOK', OneWorkerPerService, Knowing, [Next]_vars
    PROVE  \/ Unwritten
           \/ \E w \in Worker : CreateSlice(w) \/ \E u \in SliceId : UpdateSlice(w, u)
<1>1. ASSUME UNCHANGED <<slices, used>> PROVE Unwritten
  BY <1>1, UnchangedLasts
<1>2. ASSUME NEW s \in Service,
             \/ ServiceCreated(s) \/ ServiceDeleted(s) \/ OnServiceUpdate(s)
             \/ PodChanged(s) \/ DelayOver(s)
      PROVE  Unwritten
  BY <1>1, <1>2 DEF ServiceCreated, ServiceDeleted, OnServiceUpdate, PodChanged, DelayOver, server
<1>3. ASSUME NEW u \in SliceId, Removed(u) \/ GarbageCollected(u) PROVE Unwritten
  BY <1>3, ErasureLasts DEF Removed, GarbageCollected, Unwritten
<1>4. ASSUME InformerStep PROVE Unwritten
  BY <1>1, <1>4 DEF InformerStep, Receive, Relist, OnEndpointSliceUpdate,
                    OnEndpointSliceDelete, server
<1>5. ASSUME NEW w \in Worker,
             \/ Get(w) \/ ServiceNotFound(w) \/ GetService(w) \/ ListPods(w) \/ ListSlices(w)
             \/ Stale(w) \/ Reconcile(w)
             \/ Track(w) \/ Finalized(w) \/ HandleErr(w) \/ CallFails(w)
      PROVE  Unwritten
  BY <1>1, <1>5 DEF Get, ServiceNotFound, GetService, ListPods, ListSlices, Stale, Reconcile,
                    Track, Finalized, HandleErr, CallFails, server
<1>6. ASSUME NEW w \in Worker, WorkerStep(w)
      PROVE  Unwritten \/ CreateSlice(w) \/ \E u \in SliceId : UpdateSlice(w, u)
  BY <1>5, <1>6, DeletionKnows DEF WorkerStep
<1>7. ASSUME Failover \/ UNCHANGED vars PROVE Unwritten
  BY <1>1, <1>7 DEF Failover, vars, server
<1> QED
  BY <1>2, <1>3, <1>4, <1>6, <1>7 DEF Next

LEMMA InitKnowing == Init => Knowing
<1> SUFFICES ASSUME Init PROVE Knowing
  OBVIOUS
<1>1. \A w \in Worker : ~Syncing(w)
  BY IdleTyped DEF Init, Syncing
<1>2. slices = [u \in SliceId |-> NoSlice] /\ cache = slices /\ watch = << >> /\ notes = << >>
  BY DEF Init
<1> QED
  BY <1>1, <1>2 DEF Knowing, SlicesOK, CacheOK, Reported

LEMMA InitMutual == Init => TypeOK /\ OneWorkerPerService
<1>1. Init => \A w \in Worker : ~Busy(w)
  BY IdleTyped DEF Init, Busy, At
<1> QED
  BY <1>1, InitTyped DEF OneWorkerPerService
-----------------------------------------------------------------------------
\* No slice is added to those a service owns, and the tracker and the workers
\* go on knowing and wanting what they did.
LEMMA CountsOn ==
    ASSUME Counted,
           \A s \in Service : Owned(s)' \subseteq Owned(s),
           \A s \in Service : Relying(s)' => Relying(s) \/ Owned(s)' = {},
           \A s \in Service : \A u \in Owned(s)' : Relying(s)' /\ Tracked(s, u) => Tracked(s, u)',
           \A w \in Worker : Creating(w)' =>
              /\ work'[w].service \in Service
              /\ \/ (Owned(work[w].service) = {})'
                 \/ Creating(w) /\ work'[w].service = work[w].service
    PROVE  Counted'
<1>1. Tracking'
  BY DEF Counted, Tracking
<1>2. Needed'
  <2> SUFFICES ASSUME NEW w \in Worker, Creating(w)'
               PROVE  (Owned(work[w].service) = {})'
    BY DEF Needed
  <2>1. Creating(w) => Owned(work[w].service) = {}
    BY DEF Counted, Needed
  <2> QED
    BY <2>1
<1>3. Single'
  BY DEF Counted, Single
<1> QED
  BY <1>1, <1>2, <1>3 DEF Counted

LEMMA OwnedShrinks ==
    ASSUME Unwritten, UNCHANGED incarnation
    PROVE  \A s \in Service : Owned(s)' \subseteq Owned(s)
BY DEF Unwritten, Owned, Of

LEMMA ServiceCounts ==
    ASSUME TypeOK, TypeOK', Knowing, Counted, NEW s \in Service,
           \/ ServiceCreated(s) \/ ServiceDeleted(s) \/ OnServiceUpdate(s)
           \/ PodChanged(s) \/ DelayOver(s)
    PROVE  Counted'
<1>1. UNCHANGED <<slices, used, tracker, work>>
  BY DEF ServiceCreated, ServiceDeleted, OnServiceUpdate, PodChanged, DelayOver, server
<1>2. Unwritten
  BY <1>1, UnchangedLasts
<1>3. \A w \in Worker : work[w].service \in Service
  BY Typed
<1>4. \A t \in Service : \A u \in SliceId : Tracked(t, u) => Tracked(t, u)'
  BY <1>1 DEF Tracked, At
<1>5. CASE ServiceCreated(s)
  <2>1. /\ \A t \in Service : t # s => incarnation'[t] = incarnation[t] /\ alive'[t] = alive[t]
        /\ incarnation'[s] = incarnation[s] + 1 /\ incarnation[s] \in Nat
    BY <1>5, Typed DEF ServiceCreated, TypeOK
  <2>2. Owned(s)' = {}
    <3>1. ASSUME NEW u \in SliceId, slices[u] # NoSlice, slices[u].service = s
          PROVE  slices[u].owner # incarnation'[s]
      BY <2>1, <3>1, Typed DEF Knowing, SlicesOK
    <3> QED
      BY <1>1, <3>1 DEF Owned, Of
  <2>3. \A t \in Service : t # s => Owned(t)' = Owned(t)
    BY <1>1, <2>1 DEF Owned, Of
  <2>4. \A t \in Service : t # s => (Relying(t)' => Relying(t))
    BY <1>1, <2>1 DEF Relying, Syncing
  <2>5. \A w \in Worker : Creating(w)' =>
           (Owned(work[w].service) = {})' \/ Creating(w)
    BY <1>1, <1>3, <2>1, <2>2 DEF Creating, At
  <2>6. \A t \in Service : Owned(t)' \subseteq SliceId
    BY DEF Owned, Of
  <2> QED
    BY <1>1, <1>3, <1>4, <2>2, <2>3, <2>4, <2>5, <2>6, CountsOn
<1>6. CASE ServiceDeleted(s) \/ OnServiceUpdate(s) \/ PodChanged(s) \/ DelayOver(s)
  <2>1. UNCHANGED incarnation /\ \A t \in Service : alive'[t] => alive[t]
    BY <1>6 DEF ServiceDeleted, OnServiceUpdate, PodChanged, DelayOver, desired, TypeOK
  <2>2. \A t \in Service : Relying(t)' => Relying(t)
    BY <1>1, <2>1 DEF Relying, Syncing
  <2>3. \A w \in Worker : Creating(w)' => Creating(w)
    BY <1>1, <2>1 DEF Creating, At
  <2>4. \A t \in Service : Owned(t)' \subseteq SliceId
    BY DEF Owned, Of
  <2> QED
    BY <1>1, <1>2, <1>3, <1>4, <2>1, <2>2, <2>3, <2>4, CountsOn, OwnedShrinks
<1> QED
  BY <1>5, <1>6

LEMMA ErasureCounts ==
    ASSUME TypeOK, TypeOK', Counted, NEW u \in SliceId, Removed(u) \/ GarbageCollected(u)
    PROVE  Counted'
<1>1. Erase(u) /\ UNCHANGED <<alive, incarnation, used, tracker, work>>
  BY DEF Removed, GarbageCollected, desired
<1>2. Unwritten
  BY <1>1, ErasureLasts DEF Unwritten
<1>3. \A t \in Service : \A v \in SliceId : Tracked(t, v) => Tracked(t, v)'
  BY <1>1 DEF Tracked, At
<1>4. \A t \in Service : (Relying(t)' => Relying(t)) /\ Owned(t)' \subseteq SliceId
  BY <1>1 DEF Relying, Syncing, Owned, Of
<1>5. \A w \in Worker : (Creating(w)' => Creating(w)) /\ work'[w].service \in Service
                        /\ work'[w] = work[w]
  BY <1>1, Typed DEF Creating, At
<1> QED
  BY <1>1, <1>2, <1>3, <1>4, <1>5, CountsOn, OwnedShrinks

\* The tracker only forgets a slice that is gone.
LEMMA InformerCounts ==
    ASSUME TypeOK, TypeOK', Knowing, Counted, InformerStep
    PROVE  Counted'
<1>1. UNCHANGED <<alive, incarnation, slices, used, work>>
  BY DEF InformerStep, Receive, Relist, OnEndpointSliceUpdate, OnEndpointSliceDelete, server,
         desired
<1>2. Unwritten
  BY <1>1, UnchangedLasts
<1>3. \A t \in Service : \A v \in Owned(t)' : Tracked(t, v) => Tracked(t, v)'
  <2>1. CASE UNCHANGED tracker
    BY <1>1, <2>1 DEF Tracked, At
  <2>2. CASE OnEndpointSliceDelete
    <3> DEFINE e == Head(notes)
    <3>1. notes # << >> /\ e.gone /\ e = notes[1] /\ 1 \in DOMAIN notes
          /\ SetTracked(e.slice.service, e.uid, Untracked)
      BY <2>2 DEF OnEndpointSliceDelete, TypeOK
    <3>2. slices[e.uid] = NoSlice
      BY <3>1 DEF Knowing, Reported
    <3>3. \A t \in Service : \A v \in SliceId \ {e.uid} : tracker'[t][v] = tracker[t][v]
      BY <3>1 DEF SetTracked, TypeOK
    <3>4. \A t \in Service : \A v \in Owned(t)' : v \in SliceId \ {e.uid}
      BY <1>1, <3>2 DEF Owned, Of
    <3> QED
      BY <1>1, <3>3, <3>4 DEF Tracked, At
  <2> QED
    BY <2>1, <2>2 DEF InformerStep, Receive, Relist, OnEndpointSliceUpdate
<1>4. \A t \in Service : (Relying(t)' => Relying(t))
  BY <1>1 DEF Relying, Syncing
<1>5. \A w \in Worker : (Creating(w)' => Creating(w)) /\ work'[w].service \in Service
                        /\ work'[w] = work[w]
  BY <1>1, Typed DEF Creating, At
<1> QED
  BY <1>1, <1>2, <1>3, <1>4, <1>5, CountsOn, OwnedShrinks

\* What a stale cache is recognised by: unless the tracker finds one, all the
\* slices the service owns are listed.
LEMMA PlanCounts ==
    ASSUME TypeOK, TypeOK', OneWorkerPerService, Knowing, Counted,
           NEW w \in Worker, Reconcile(w), Creating(w)'
    PROVE  Owned(work[w].service) = {}
<1> DEFINE s == work[w].service
           listed == work[w].listed
<1>1. /\ work \in [Worker -> Job] /\ s \in Service /\ At(w, "check") /\ JobOK(w)
      /\ ~StaleSlices(s, listed) /\ incarnation' = incarnation
  BY Typed DEF TypeOK, Reconcile, Knowing, Syncing, At, desired
<1>2. PICK planned \in Plans(w) : work'[w] = planned
  BY <1>1 DEF Reconcile
<1>3. /\ work[w].owner = incarnation[s]
      /\ \A u \in Listed(listed) : listed[u].owner # work[w].owner
  BY <1>1, <1>2, PlanFacts DEF Creating
<1> SUFFICES ASSUME NEW u \in Owned(s) PROVE FALSE
  BY DEF Owned, Of
<1>4. u \in SliceId /\ slices[u] # NoSlice /\ slices[u].owner = incarnation[s]
  BY DEF Owned, Of
<1>5. tracker[s][u] > 0
  <2>1. Tracked(s, u)
    BY <1>1 DEF Counted, Tracking, Relying, Syncing, At
  <2>2. ~\E v \in Worker : At(v, "track") /\ work[v].service = s
    BY <1>1 DEF OneWorkerPerService, Busy, At
  <2> QED
    BY <2>1, <2>2 DEF Tracked
<1>6. u \in Listed(listed)
  BY <1>1, <1>4, <1>5 DEF StaleSlices, Untracked, deletionExpected
<1>7. listed[u].owner = slices[u].owner
  BY <1>1, <1>4, <1>6 DEF JobOK, Once, Listed, At
<1> QED
  BY <1>3, <1>4, <1>6, <1>7

\* The steps of a worker that write nothing.
LEMMA LocalCounts ==
    ASSUME TypeOK, TypeOK', OneWorkerPerService, Knowing, Counted, NEW w \in Worker,
           \/ Get(w) \/ ServiceNotFound(w) \/ GetService(w) \/ ListPods(w) \/ ListSlices(w)
           \/ Stale(w) \/ Reconcile(w)
           \/ Track(w) \/ Finalized(w) \/ HandleErr(w) \/ CallFails(w)
    PROVE  Counted'
<1> DEFINE s == work[w].service
<1>1. UNCHANGED <<alive, incarnation, slices, used>>
  BY DEF Get, ServiceNotFound, GetService, ListPods, ListSlices, Stale, Reconcile, Track,
         Finalized, HandleErr, CallFails, desired, server
<1>2. Unwritten
  BY <1>1, UnchangedLasts
<1>3. work \in [Worker -> Job] /\ s \in Service
      /\ tracker \in [Service -> [SliceId -> Nat \cup {deletionExpected}]]
  BY Typed DEF TypeOK
<1>4. \A v \in Worker : v # w => work'[v] = work[v]
  BY <1>3 DEF Get, ServiceNotFound, GetService, ListPods, ListSlices, Stale, Reconcile, Track,
              Finalized, HandleErr, CallFails, GoTo
<1>5. /\ Syncing(w)' => work'[w].service = s /\ (Syncing(w) \/ alive[s])
      /\ Creating(w)' => (Owned(work[w].service) = {})' \/ (Creating(w) /\ work'[w].service = s)
  <2>1. CASE Get(w) \/ HandleErr(w)
    <3>1. work'[w].pc \in {"idle", "get"}
      BY <1>3, <2>1, IdleTyped DEF Get, HandleErr, Fresh
    <3> QED
      BY <3>1 DEF Syncing, Creating, At
  <2>2. CASE ServiceNotFound(w) \/ Stale(w) \/ Finalized(w) \/ CallFails(w)
    <3>1. GoTo(w, "ok") \/ GoTo(w, "error")
      BY <2>2 DEF ServiceNotFound, Stale, Finalized, CallFails
    <3>2. work'[w].pc \in {"ok", "error"}
      BY <1>3, <3>1 DEF GoTo, Job
    <3> QED
      BY <3>2 DEF Syncing, Creating, At
  <2>3. CASE GetService(w) \/ ListPods(w) \/ ListSlices(w)
    <3>1. work'[w].pc \in {"pods", "slices", "check"} /\ work'[w].service = s
      BY <1>3, <2>3 DEF GetService, ListPods, ListSlices, Job
    <3>2. Syncing(w) \/ alive[s]
      BY <2>3 DEF GetService, ListPods, ListSlices, Syncing, At
    <3> QED
      BY <3>1, <3>2 DEF Creating, At
  <2>4. CASE Reconcile(w)
    <3>1. work'[w].service = s /\ Syncing(w)
      <4>1. PICK planned \in Plans(w) : work'[w] = planned
        BY <1>3, <2>4 DEF Reconcile
      <4> QED
        BY <2>4, <4>1, PlanFacts DEF Reconcile, Syncing, At
    <3>2. Creating(w)' => Owned(s) = {}
      BY <2>4, PlanCounts
    <3>3. \A t \in Service : Owned(t)' = Owned(t)
      BY <1>1 DEF Owned, Of
    <3>4. (Owned(work[w].service))' = Owned(s)
      BY <1>1, <3>1 DEF Owned, Of
    <3> QED
      BY <3>1, <3>2, <3>4
  <2>5. CASE Track(w)
    <3>1. work'[w] = [work[w] EXCEPT !.pc = "call"] /\ At(w, "track")
      BY <1>3, <2>5 DEF Track, GoTo
    <3>2. work'[w].service = s /\ work'[w].create = work[w].create
          /\ work'[w].owner = work[w].owner
      BY <1>3, <3>1 DEF Job
    <3> QED
      BY <1>1, <3>1, <3>2 DEF Syncing, Creating, At
  <2> QED
    BY <2>1, <2>2, <2>3, <2>4, <2>5
<1>6. \A t \in Service : Relying(t)' => Relying(t)
  BY <1>1, <1>4, <1>5 DEF Relying, Syncing
<1>7. \A v \in Worker : Creating(v)' =>
        /\ work'[v].service \in Service
        /\ (Owned(work[v].service) = {})' \/ (Creating(v) /\ work'[v].service = work[v].service)
  <2>1. \A v \in Worker : work'[v].service \in Service
    BY DEF TypeOK, Job
  <2>2. \A v \in Worker : v # w => (Creating(v)' => Creating(v))
    BY <1>1, <1>4 DEF Creating, At
  <2> QED
    BY <1>4, <1>5, <2>1, <2>2
<1>8. ASSUME NEW t \in Service, NEW u \in Owned(t)', Relying(t)', Tracked(t, u)
      PROVE  Tracked(t, u)'
  <2>1. u \in SliceId /\ slices[u] # NoSlice
    BY <1>1 DEF Owned, Of
  <2>2. CASE Track(w)
    <3>1. work[w].reply.uid \in SliceId /\ work[w].reply.generation \in Nat \cup {deletionExpected}
      BY <1>3 DEF Job
    <3>2. JobOK(w) /\ At(w, "track")
      BY <2>2 DEF Track, Knowing, Syncing, At
    <3>3. CASE t = s /\ u = work[w].reply.uid
      <4>1. tracker'[t][u] = work[w].reply.generation
        BY <1>3, <2>2, <3>1, <3>3 DEF Track, SetTracked
      <4>2. work[w].reply.generation > 0
        BY <2>1, <3>2, <3>3 DEF JobOK, At
      <4> QED
        BY <4>1, <4>2 DEF Tracked
    <3>4. CASE ~(t = s /\ u = work[w].reply.uid)
      <4>1. tracker'[t][u] = tracker[t][u]
        BY <1>3, <2>1, <2>2, <3>1, <3>4 DEF Track, SetTracked
      <4>2. \A v \in Worker : At(v, "track") /\ work[v].service = t /\ work[v].reply.uid = u
                                => v # w
        BY <3>4
      <4> QED
        BY <1>4, <1>8, <4>1, <4>2 DEF Tracked, At
    <3> QED
      BY <3>3, <3>4
  <2>3. CASE ~Track(w) /\ ~ServiceNotFound(w)
    <3>1. tracker' = tracker /\ ~At(w, "track")
      BY <2>3 DEF Get, GetService, ListPods, ListSlices, Stale, Reconcile, Finalized, HandleErr,
                    CallFails, At
    <3> QED
      BY <1>4, <1>8, <3>1 DEF Tracked, At
  <2>4. CASE ServiceNotFound(w)
    <3>1. At(w, "get") /\ ~alive[s]
          /\ tracker' = [tracker EXCEPT ![s] = [x \in SliceId |-> Untracked]]
      BY <2>4 DEF ServiceNotFound
    <3>2. t # s
      <4>1. ~Relying(s)
        BY <3>1 DEF Relying, Syncing, OneWorkerPerService, Busy, At
      <4> QED
        BY <1>6, <1>8, <4>1
    <3>3. tracker'[t] = tracker[t]
      BY <1>3, <3>1, <3>2
    <3> QED
      BY <1>4, <1>8, <3>1, <3>3 DEF Tracked, At
  <2> QED
    BY <2>2, <2>3, <2>4
<1> QED
  BY <1>1, <1>2, <1>6, <1>7, <1>8, CountsOn, OwnedShrinks

LEMMA CreationCounts ==
    ASSUME TypeOK, TypeOK', OneWorkerPerService, Knowing, Counted, Reliable',
           NEW w \in Worker, CreateSlice(w)
    PROVE  Counted'
<1> DEFINE s == work[w].service
           u == used + 1
           rest == [work[w] EXCEPT !.create = FALSE]
<1>1. /\ work[w] \in Job /\ s \in Service /\ At(w, "call") /\ work[w].create /\ u \in SliceId
      /\ Replied(w, rest, u, 1) /\ UNCHANGED <<alive, incarnation, tracker>>
  BY Typed DEF CreateSlice, desired
<1>2. /\ rest \in Job /\ rest.service = s /\ ~rest.create
  BY <1>1 DEF Job
<1>3. /\ slices[u] = NoSlice /\ slices'[u].service = s /\ slices'[u].owner = work[w].owner
      /\ \A v \in SliceId : v # u => slices'[v] = slices[v]
  BY CreationKnows
<1>4. mishaps["lost"] \in Nat /\ mishaps'["lost"] = 0
  BY DEF Reliable, TypeOK, Mishaps
<1>5. /\ \A v \in Worker : v # w => work'[v] = work[v]
      /\ At(w, "track")' /\ work'[w].service = s /\ work'[w].reply.uid = u /\ ~work'[w].create
  <2> HIDE DEF u, rest, s
  <2> QED
    BY <1>1, <1>2, <1>4, RepliedFacts DEF At
<1>6. \A t \in Service : Owned(t)' \subseteq Owned(t) \cup {u}
  BY <1>1, <1>3 DEF Owned, Of
<1>7. \A t \in Service : t # s => Owned(t)' \subseteq Owned(t)
  BY <1>1, <1>3 DEF Owned, Of
<1>8. Owned(s) = {} \/ Owned(s)' \subseteq Owned(s)
  <2>1. CASE work[w].owner = incarnation[s]
    BY <1>1, <2>1 DEF Counted, Needed, Creating
  <2>2. CASE work[w].owner # incarnation[s]
    BY <1>1, <1>3, <1>5, <2>2 DEF Owned, Of
  <2> QED
    BY <2>1, <2>2
<1> HIDE DEF u, rest
<1>9. Tracking'
  <2> SUFFICES ASSUME NEW t \in Service, Relying(t)', NEW v \in Owned(t)'
               PROVE  Tracked(t, v)'
    BY DEF Tracking
  <2>1. CASE t = s /\ v = u
    BY <1>5, <2>1 DEF Tracked, At
  <2>2. CASE ~(t = s /\ v = u)
    <3>1. v \in Owned(t)
      BY <1>6, <1>7, <2>2
    <3>2. Relying(t)
      BY <1>1, <1>5 DEF Relying, Syncing, At
    <3>3. Tracked(t, v)
      BY <3>1, <3>2 DEF Counted, Tracking
    <3> QED
      BY <1>1, <1>5, <3>3 DEF Tracked, At
  <2> QED
    BY <2>1, <2>2
<1>10. Needed'
  <2> SUFFICES ASSUME NEW v \in Worker, Creating(v)'
               PROVE  (Owned(work[v].service) = {})'
    BY DEF Needed
  <2>1. v # w
    BY <1>5 DEF Creating
  <2>2. work'[v] = work[v] /\ Creating(v) /\ work[v].service \in Service
    BY <1>1, <1>5, <2>1, Typed DEF Creating, At
  <2>3. work[v].service # s
    BY <1>1, <2>1, <2>2 DEF OneWorkerPerService, Busy, At, Creating
  <2>4. Owned(work[v].service) = {}
    BY <2>2 DEF Counted, Needed
  <2>5. Owned(work[v].service)' \subseteq {}
    <3> DEFINE t == work[v].service
    <3>1. t' = t
      BY <2>2
    <3>2. \A x \in SliceId : ~(slices[x] # NoSlice /\ slices[x].service = t
                               /\ slices[x].owner = incarnation[t])
      BY <2>4 DEF Owned, Of
    <3> QED
      BY <1>1, <1>3, <2>2, <2>3, <3>2 DEF Owned, Of
  <2> QED
    BY <2>5
<1>11. Single'
  <2> SUFFICES ASSUME NEW t \in Service, NEW v \in Owned(t)', NEW x \in Owned(t)'
               PROVE  v = x
    BY DEF Single
  <2>1. CASE Owned(t)' \subseteq Owned(t)
    BY <2>1 DEF Counted, Single
  <2>2. CASE t = s /\ Owned(s) = {}
    BY <1>6, <2>2
  <2> QED
    BY <1>5, <1>7, <1>8, <2>1, <2>2
<1> QED
  BY <1>9, <1>10, <1>11 DEF Counted

\* A call that makes no new slice.
LEMMA CallCounts ==
    ASSUME TypeOK, TypeOK', Counted, NEW w \in Worker, At(w, "call"), ~work[w].create,
           UNCHANGED <<alive, incarnation, tracker>>,
           \A s \in Service : Owned(s)' \subseteq Owned(s),
           NEW rest \in Job, rest.service = work[w].service, rest.create = work[w].create,
           NEW u, NEW generation, Replied(w, rest, u, generation)
    PROVE  Counted'
<1>1. /\ \A v \in Worker : v # w => work'[v] = work[v]
      /\ ~Syncing(w)' \/ (work'[w].service = work[w].service /\ ~work'[w].create)
  BY RepliedFacts
<1>2. \A s \in Service : Relying(s)' => Relying(s)
  BY <1>1 DEF Relying, Syncing, At
<1>3. \A s \in Service : \A v \in Owned(s)' : Tracked(s, v) => Tracked(s, v)'
  BY <1>1 DEF Tracked, At
<1>4. \A v \in Worker : Creating(v)' => v # w /\ Creating(v)
  BY <1>1 DEF Creating, Syncing, At
<1>5. \A v \in Worker : work'[v].service \in Service
  BY DEF TypeOK, Job
<1> QED
  BY <1>1, <1>2, <1>3, <1>4, <1>5, CountsOn

LEMMA UpdateCounts ==
    ASSUME TypeOK, TypeOK', OneWorkerPerService, Knowing, Counted, NEW w \in Worker,
           NEW u \in SliceId, UpdateSlice(w, u)
    PROVE  Counted'
<1> DEFINE rest == [work[w] EXCEPT !.updates = @ \ {u}]
<1>1. /\ work[w] \in Job /\ At(w, "call") /\ ~work[w].create
      /\ UNCHANGED <<alive, incarnation, tracker>>
      /\ \E generation : Replied(w, rest, u, generation)
  BY Typed DEF UpdateSlice, desired
<1>2. rest \in Job /\ rest.service = work[w].service /\ rest.create = work[w].create
  BY <1>1 DEF Job
<1>3. \A s \in Service : Owned(s)' \subseteq Owned(s)
  <2>1. /\ \A v \in SliceId : v # u => slices'[v] = slices[v]
        /\ slices[u] # NoSlice
        /\ slices'[u].owner = slices[u].owner /\ slices'[u].service = slices[u].service
    BY UpdateKnows
  <2> QED
    BY <1>1, <2>1 DEF Owned, Of
<1> HIDE DEF rest
<1> QED
  BY <1>1, <1>2, <1>3, CallCounts

LEMMA DeletionCounts ==
    ASSUME TypeOK, TypeOK', OneWorkerPerService, Knowing, Counted, NEW w \in Worker,
           NEW u \in SliceId, DeleteSlice(w, u)
    PROVE  Counted'
<1> DEFINE rest == [work[w] EXCEPT !.deletes = @ \ {u}]
<1>1. /\ work[w] \in Job /\ At(w, "call") /\ ~work[w].create
      /\ UNCHANGED <<alive, incarnation, tracker>>
      /\ Replied(w, rest, u, deletionExpected)
  BY Typed DEF DeleteSlice, desired
<1>2. rest \in Job /\ rest.service = work[w].service /\ rest.create = work[w].create
  BY <1>1 DEF Job
<1>3. \A s \in Service : Owned(s)' \subseteq Owned(s)
  BY <1>1, DeletionKnows, OwnedShrinks
<1> HIDE DEF rest
<1> QED
  BY <1>1, <1>2, <1>3, CallCounts

\* Every mishap is one of the four.
LEMMA MishapMoves ==
    ASSUME TypeOK, [Next]_vars
    PROVE  UNCHANGED mishaps \/ \E kind \in Mishaps : Mishap(kind)
<1>1. ASSUME NEW w \in Worker, WorkerStep(w)
      PROVE  UNCHANGED mishaps \/ Mishap("lost") \/ Mishap("failed")
  BY <1>1 DEF WorkerStep, Get, ServiceNotFound, GetService, ListPods, ListSlices, Stale,
              Reconcile, CreateSlice, Track, Finalized, HandleErr, CallFails, UpdateSlice,
              DeleteSlice, Replied
<1>2. ASSUME NEW s \in Service,
             \/ ServiceCreated(s) \/ ServiceDeleted(s) \/ OnServiceUpdate(s)
             \/ PodChanged(s) \/ DelayOver(s)
      PROVE  UNCHANGED mishaps
  BY <1>2 DEF ServiceCreated, ServiceDeleted, OnServiceUpdate, PodChanged, DelayOver
<1>3. ASSUME NEW u \in SliceId, Removed(u) \/ GarbageCollected(u)
      PROVE  UNCHANGED mishaps \/ Mishap("removed")
  BY <1>3 DEF Removed, GarbageCollected
<1>4. InformerStep => UNCHANGED mishaps
  BY DEF InformerStep, Receive, Relist, OnEndpointSliceUpdate, OnEndpointSliceDelete
<1>5. Failover => Mishap("failover")
  BY DEF Failover
<1>6. {"lost", "failed", "failover", "removed"} \subseteq Mishaps
  BY DEF Mishaps
<1> QED
  BY <1>1, <1>2, <1>3, <1>4, <1>5, <1>6 DEF Next, vars

\* Replies that got lost and earlier processes are not undone.
LEMMA StaysReliable ==
    ASSUME TypeOK, [Next]_vars, Reliable'
    PROVE  Reliable /\ ~Failover
<1>1. mishaps \in [Mishaps -> Nat]
  BY DEF TypeOK
<1>2. ASSUME NEW kind \in Mishaps, Mishap(kind)
      PROVE  Reliable /\ kind # "failover"
  <2>1. /\ mishaps'[kind] = mishaps[kind] + 1
        /\ \A m \in Mishaps : m # kind => mishaps'[m] = mishaps[m]
    BY <1>1, <1>2 DEF Mishap
  <2> QED
    BY <1>1, <2>1 DEF Reliable, Mishaps
<1>3. ASSUME UNCHANGED mishaps PROVE Reliable
  BY <1>3 DEF Reliable
<1>4. ~Failover
  BY <1>2 DEF Failover, Mishaps
<1> QED
  BY <1>2, <1>3, <1>4, MishapMoves

LEMMA CountedStep ==
    ASSUME TypeOK, TypeOK', OneWorkerPerService, Knowing, Reliable => Counted, [Next]_vars
    PROVE  Reliable' => Counted'
<1> SUFFICES ASSUME Reliable' PROVE Counted'
  OBVIOUS
<1>1. Counted /\ ~Failover
  BY StaysReliable
<1>2. ASSUME UNCHANGED vars PROVE Counted'
  BY <1>1, <1>2 DEF vars, desired, server, Counted, Tracking, Needed, Single, Relying, Tracked,
                    Creating, Syncing, At, Owned, Of
<1>3. ASSUME NEW w \in Worker, WorkerStep(w) PROVE Counted'
  BY <1>1, <1>3, LocalCounts, CreationCounts, UpdateCounts, DeletionCounts DEF WorkerStep
<1> QED
  BY <1>1, <1>2, <1>3, ServiceCounts, ErasureCounts, InformerCounts DEF Next

LEMMA InitCounted == Init => Counted
<1> SUFFICES ASSUME Init PROVE Counted
  OBVIOUS
<1>1. \A s \in Service : Owned(s) = {}
  BY DEF Init, Owned, Of
<1> QED
  BY <1>1, InitMutual, Typed DEF Counted, Tracking, Needed, Single

\* However far the informer lags behind, and whatever calls fail, a service
\* gets no second slice, unless a reply is lost or another process takes over:
\* the tracker knows of every slice the service owns, so a sync whose list
\* lacks one of them is repeated.
THEOREM NoSecondSlice == Spec => []NoDuplicates
<1> DEFINE IInv == TypeOK /\ OneWorkerPerService /\ Knowing /\ (Reliable => Counted)
<1>1. Init => IInv
  BY InitKnowing, InitMutual, InitCounted
<1>2. IInv /\ [Next]_vars => IInv'
  <2> SUFFICES ASSUME IInv, [Next]_vars PROVE IInv'
    OBVIOUS
  <2>1. TypeOK' /\ OneWorkerPerService'
    BY Step
  <2>2. Knowing'
    BY <2>1, KnowingStep
  <2>3. Reliable' => Counted'
    BY <2>1, CountedStep
  <2> QED
    BY <2>1, <2>2, <2>3
<1>3. IInv => NoDuplicates
  <2> SUFFICES ASSUME Counted, NEW s \in Service PROVE Cardinality(Owned(s)) <= 1
    BY DEF NoDuplicates, Reliable
  <2>1. CASE Owned(s) = {}
    BY <2>1, FS_EmptySet
  <2>2. ASSUME NEW u \in Owned(s) PROVE Cardinality(Owned(s)) <= 1
    <3>1. Owned(s) = {u}
      BY <2>2 DEF Counted, Single
    <3>2. Cardinality(Owned(s)) = 1
      BY <3>1, FS_Singleton
    <3> QED
      BY <3>2
  <2> QED
    BY <2>1, <2>2
<1> QED
  BY <1>1, <1>2, <1>3, PTL DEF Spec
-----------------------------------------------------------------------------
(***************************************************************************)
(* That the tracker is never ahead of what is on its way, as long as only  *)
(* the controller deletes slices: what it has seen of a slice is what the  *)
(* slice is or was before, and of a slice that is gone while the tracker   *)
(* has a generation of it the deletion is still to be reported.            *)
(***************************************************************************)
Undisturbed == MaxMishaps["removed"] = 0 /\ MaxIncarnation = 1

\* The deletion of a slice of service s is among the events.
Announced(s, u, events) ==
    \E i \in DOMAIN events :
        events[i].uid = u /\ events[i].gone /\ events[i].slice.service = s

Heard(s, u) == Announced(s, u, watch) \/ Announced(s, u, notes)

\* Nothing follows a deletion, and the informer still has what is deleted: so a
\* list made anew reports it as well.
Ending ==
    \A i \in DOMAIN watch : watch[i].gone =>
      /\ cache[watch[i].uid] # NoSlice
      /\ cache[watch[i].uid].service = watch[i].slice.service
      /\ \A j \in DOMAIN watch : watch[j].uid = watch[i].uid =>
           j <= i /\ watch[j].slice.service = watch[i].slice.service

\* What a sync may delete comes from the informer, which goes on having it.
Targets(w) ==
    CASE At(w, "check")                   -> Listed(work[w].listed)
      [] At(w, "call") \/ At(w, "track") -> work[w].deletes
      [] OTHER                            -> {}

TargetsOK ==
    \A w \in Worker : Syncing(w) =>
      \A u \in Targets(w) :
        /\ u <= used
        /\ slices[u] # NoSlice => cache[u] # NoSlice /\ slices[u].service = work[w].service

\* A generation of u, or its deletion, that has been replied to a sync of s.
Seen(store, last, s, u, generation) ==
    /\ generation # Untracked => u <= last
    /\ generation = deletionExpected => store[u] = NoSlice
    /\ generation > 0 /\ store[u] # NoSlice =>
         store[u].service = s /\ generation <= store[u].generation

TrackerSeen ==
    \A s \in Service : \A u \in SliceId :
      /\ Seen(slices, used, s, u, tracker[s][u])
      /\ tracker[s][u] > 0 /\ slices[u] = NoSlice => Heard(s, u)

RepliesSeen ==
    \A w \in Worker : At(w, "track") =>
      /\ Seen(slices, used, work[w].service, work[w].reply.uid, work[w].reply.generation)
      /\ work[w].reply.generation > 0 => slices[work[w].reply.uid] # NoSlice

Followed == Ending /\ TargetsOK /\ TrackerSeen /\ RepliesSeen

\* Generations grow; what the informer has it keeps as long as it is there.
Aging ==
    \A u \in SliceId : slices[u] # NoSlice /\ slices'[u] # NoSlice
                         => slices[u].generation <= slices'[u].generation

Holding ==
    \A u \in SliceId : cache[u] # NoSlice /\ slices'[u] # NoSlice => cache'[u] # NoSlice

Calls(w) == CreateSlice(w) \/ \E u \in SliceId : UpdateSlice(w, u) \/ DeleteSlice(w, u)

\* Undisturbed is what the name says.
LEMMA NobodyElse ==
    ASSUME TypeOK, Undisturbed, NEW u \in SliceId
    PROVE  ~Removed(u) /\ ~GarbageCollected(u)
<1>1. ~Removed(u)
  <2>1. mishaps["removed"] \in Nat
    BY DEF TypeOK, Mishaps
  <2> QED
    BY <2>1 DEF Undisturbed, Removed, Mishap
<1>2. ASSUME GarbageCollected(u) PROVE FALSE
  <2>1. slices[u] \in EndpointSlice
    BY <1>2, Typed DEF GarbageCollected
  <2>2. slices[u].service \in Service /\ slices[u].owner \in 1..1
    BY <2>1 DEF EndpointSlice, Undisturbed
  <2>3. incarnation[slices[u].service] \in 1..1
    BY <2>2 DEF TypeOK, Undisturbed
  <2>4. alive[slices[u].service] \/ incarnation[slices[u].service] < 1
    BY <2>2 DEF TypeOK, Undisturbed
  <2> QED
    BY <1>2, <2>2, <2>3, <2>4 DEF GarbageCollected
<1> QED
  BY <1>1, <1>2

\* The steps by what they do to the slices and to what is on its way.
LEMMA AllKinds ==
    ASSUME [Next]_vars
    PROVE  \/ UNCHANGED <<slices, used, watch, cache, notes>>
           \/ InformerStep
           \/ \E w \in Worker : Calls(w)
           \/ \E u \in SliceId : Removed(u) \/ GarbageCollected(u)
<1>1. ASSUME NEW s \in Service,
             \/ ServiceCreated(s) \/ ServiceDeleted(s) \/ OnServiceUpdate(s)
             \/ PodChanged(s) \/ DelayOver(s)
      PROVE  UNCHANGED <<slices, used, watch, cache, notes>>
  BY <1>1 DEF ServiceCreated, ServiceDeleted, OnServiceUpdate, PodChanged, DelayOver,
              server, informer
<1>2. ASSUME NEW w \in Worker,
             \/ Get(w) \/ ServiceNotFound(w) \/ GetService(w) \/ ListPods(w) \/ ListSlices(w)
             \/ Stale(w) \/ Reconcile(w)
             \/ Track(w) \/ Finalized(w) \/ HandleErr(w) \/ CallFails(w)
      PROVE  UNCHANGED <<slices, used, watch, cache, notes>>
  BY <1>2 DEF Get, ServiceNotFound, GetService, ListPods, ListSlices, Stale, Reconcile, Track,
              Finalized, HandleErr, CallFails, server, informer
<1>3. ASSUME Failover \/ UNCHANGED vars
      PROVE  UNCHANGED <<slices, used, watch, cache, notes>>
  BY <1>3 DEF Failover, vars, server, informer
<1> QED
  BY <1>1, <1>2, <1>3 DEF Next, WorkerStep, Calls

LEMMA StepKinds ==
    ASSUME TypeOK, Undisturbed, [Next]_vars
    PROVE  \/ UNCHANGED <<slices, used, watch, cache, notes>>
           \/ InformerStep
           \/ \E w \in Worker : Calls(w)
BY AllKinds, NobodyElse

\* A call ages one slice, makes one or deletes one, and is reported.
LEMMA CallFacts ==
    ASSUME TypeOK, TypeOK', OneWorkerPerService, Knowing, NEW w \in Worker, Calls(w)
    PROVE  /\ Lasting /\ Aging /\ cache' = cache /\ notes' = notes
           /\ \/ watch' = watch
              \/ \E u \in SliceId, slice \in EndpointSlice :
                   /\ slices'[u] # NoSlice /\ slices'[u] = slice
                   /\ watch' = Append(watch, Event(u, FALSE, slice))
              \/ \E u \in SliceId :
                   DeleteSlice(w, u) /\ watch' = Append(watch, Event(u, TRUE, slices[u]))
           /\ \A u \in SliceId : slices[u] # NoSlice /\ slices'[u] = NoSlice => DeleteSlice(w, u)
<1>1. slices \in Stored /\ work[w] \in Job
  BY Typed DEF TypeOK
<1>2. \A u \in SliceId : slices[u] # NoSlice =>
         slices[u].generation \in Nat \ {0} /\ slices[u] \in EndpointSlice
  BY Typed
<1>3. cache' = cache /\ notes' = notes
  BY DEF Calls, CreateSlice, UpdateSlice, DeleteSlice, informer
<1>4. CASE CreateSlice(w)
  <2> DEFINE slice == [service |-> work[w].service, owner |-> work[w].owner,
                       content |-> work[w].want, generation |-> 1]
  <2>0. slice \in EndpointSlice
    BY <1>1 DEF Job, EndpointSlice
  <2>1. slice \in EndpointSlice /\ used + 1 \in SliceId /\ Write(used + 1, slice)
    BY <1>4, <2>0 DEF CreateSlice
  <2> HIDE DEF slice
  <2>2. /\ slices'[used + 1] # NoSlice /\ slices'[used + 1] = slice
        /\ watch' = Append(watch, Event(used + 1, FALSE, slice))
    BY <1>1, <2>1, ControllerAssumption DEF Write, Stored
  <2>3. /\ Lasting /\ slices[used + 1] = NoSlice
        /\ \A v \in SliceId : v # used + 1 => slices'[v] = slices[v]
    BY <1>4, CreationKnows
  <2>4. Aging /\ \A v \in SliceId : slices[v] # NoSlice => slices'[v] # NoSlice
    BY <1>2, <2>3 DEF Aging
  <2>5. \E u \in SliceId, new \in EndpointSlice :
           /\ slices'[u] # NoSlice /\ slices'[u] = new
           /\ watch' = Append(watch, Event(u, FALSE, new))
    BY <2>1, <2>2
  <2> QED
    BY <1>3, <2>3, <2>4, <2>5
<1>5. ASSUME NEW u \in SliceId, UpdateSlice(w, u)
      PROVE  /\ Lasting /\ Aging
             /\ \/ watch' = watch
                \/ \E slice \in EndpointSlice :
                     /\ slices'[u] # NoSlice /\ slices'[u] = slice
                     /\ watch' = Append(watch, Event(u, FALSE, slice))
             /\ \A v \in SliceId : slices[v] # NoSlice => slices'[v] # NoSlice
  <2> DEFINE next == [slices[u] EXCEPT !.content = work[w].want, !.generation = @ + 1]
  <2>1. /\ Lasting /\ slices[u] # NoSlice /\ slices'[u] # NoSlice
        /\ \A v \in SliceId : v # u => slices'[v] = slices[v]
    BY <1>5, UpdateKnows
  <2>2. slices[u] \in EndpointSlice /\ slices[u].generation \in Nat
    BY <1>2, <2>1
  <2>3. next.generation = slices[u].generation + 1
    BY <2>2 DEF EndpointSlice
  <2>4. UNCHANGED <<slices, watch>> \/ Write(u, next)
    BY <1>5 DEF UpdateSlice
  <2> HIDE DEF next
  <2>5. CASE UNCHANGED <<slices, watch>>
    BY <1>2, <2>1, <2>5 DEF Aging
  <2>6. CASE Write(u, next)
    <3>1. slices'[u] = next /\ watch' = Append(watch, Event(u, FALSE, next))
      BY <1>1, <2>6 DEF Write, Stored
    <3>2. next \in EndpointSlice
      BY <2>1, <3>1, TypedNext
    <3>3. Aging
      BY <1>2, <2>1, <2>2, <2>3, <3>1 DEF Aging
    <3> QED
      BY <2>1, <3>1, <3>2, <3>3
  <2> QED
    BY <2>4, <2>5, <2>6
<1>6. ASSUME NEW u \in SliceId, DeleteSlice(w, u)
      PROVE  /\ Lasting /\ Aging /\ watch' = Append(watch, Event(u, TRUE, slices[u]))
             /\ \A v \in SliceId : v # u => slices'[v] = slices[v]
  <2>1. Lasting /\ Unwritten
    BY <1>6, DeletionKnows
  <2>2. Aging
    BY <1>2, <2>1 DEF Aging, Unwritten
  <2> QED
    BY <1>1, <1>6, <2>1, <2>2 DEF DeleteSlice, Erase, Stored
<1> QED
  BY <1>3, <1>4, <1>5, <1>6 DEF Calls

LEMMA StepLasts ==
    ASSUME TypeOK, TypeOK', OneWorkerPerService, Knowing, [Next]_vars
    PROVE  Lasting
<1>1. ASSUME NEW u \in SliceId, Removed(u) \/ GarbageCollected(u) PROVE Lasting
  BY <1>1, ErasureLasts DEF Removed, GarbageCollected
<1>2. ASSUME InformerStep PROVE UNCHANGED <<slices, used>>
  BY <1>2 DEF InformerStep, Receive, Relist, OnEndpointSliceUpdate, OnEndpointSliceDelete, server
<1> QED
  BY <1>1, <1>2, AllKinds, CallFacts, UnchangedLasts

LEMMA StepFacts ==
    ASSUME TypeOK, TypeOK', OneWorkerPerService, Knowing, Undisturbed, [Next]_vars
    PROVE  Lasting /\ Aging /\ Holding
<1>1. ASSUME NEW w \in Worker, Calls(w) PROVE Lasting /\ Aging /\ Holding
  BY <1>1, CallFacts DEF Holding
<1>2. ASSUME UNCHANGED <<slices, used>> PROVE Lasting /\ Aging
  <2>1. \A u \in SliceId : slices[u] # NoSlice => slices[u].generation \in Nat
    BY Typed
  <2> QED
    BY <1>2, <2>1, UnchangedLasts DEF Aging
<1>3. CASE UNCHANGED <<slices, used, watch, cache, notes>>
  BY <1>2, <1>3 DEF Holding
<1>4. CASE InformerStep
  <2>1. UNCHANGED <<slices, used>>
    BY <1>4 DEF InformerStep, Receive, Relist, OnEndpointSliceUpdate, OnEndpointSliceDelete,
                server
  <2>2. cache \in Stored /\ slices \in Stored /\ watch \in Seq(Events)
    BY DEF TypeOK
  <2>3. CASE Receive
    <3>1. Head(watch) \in Events /\ Head(watch) = watch[1] /\ 1 \in DOMAIN watch
      BY <2>2, <2>3 DEF Receive
    <3>2. /\ Head(watch).uid \in SliceId /\ Head(watch).slice \in EndpointSlice
          /\ Head(watch).gone => slices[Head(watch).uid] = NoSlice
      BY <3>1 DEF Events, Knowing, Reported
    <3>3. cache' = [cache EXCEPT ![Head(watch).uid] =
                       IF Head(watch).gone THEN NoSlice ELSE Head(watch).slice]
      BY <2>3 DEF Receive
    <3>4. Holding
      BY <2>1, <2>2, <3>2, <3>3, ControllerAssumption DEF Holding, Stored
    <3> QED
      BY <1>2, <2>1, <3>4
  <2>4. CASE Relist
    BY <1>2, <2>1, <2>4 DEF Relist, Holding
  <2>5. CASE OnEndpointSliceUpdate \/ OnEndpointSliceDelete
    BY <1>2, <2>1, <2>5 DEF OnEndpointSliceUpdate, OnEndpointSliceDelete, Holding
  <2> QED
    BY <1>4, <2>3, <2>4, <2>5 DEF InformerStep
<1> QED
  BY <1>1, <1>3, <1>4, StepKinds

LEMMA Appended ==
    ASSUME NEW events \in Seq(Events), NEW e \in Events
    PROVE  /\ Append(events, e) \in Seq(Events)
           /\ Len(events) \in Nat /\ DOMAIN events = 1..Len(events)
           /\ DOMAIN Append(events, e) = 1..(Len(events) + 1)
           /\ Append(events, e)[Len(events) + 1] = e
           /\ \A i \in DOMAIN events : Append(events, e)[i] = events[i]
           /\ \A i \in DOMAIN Append(events, e) : i \in DOMAIN events \/ i = Len(events) + 1
<1>1. /\ Append(events, e) \in Seq(Events) /\ Len(events) \in Nat /\ DOMAIN events = 1..Len(events)
      /\ Len(Append(events, e)) = Len(events) + 1
      /\ Append(events, e)[Len(events) + 1] = e
      /\ \A i \in 1..Len(events) : Append(events, e)[i] = events[i]
  BY AppendProperties
<1> QED
  BY <1>1

LEMMA AnnouncedMore ==
    ASSUME NEW events \in Seq(Events), NEW e \in Events, NEW s, NEW u
    PROVE  /\ Announced(s, u, events) => Announced(s, u, Append(events, e))
           /\ e.uid = u /\ e.gone /\ e.slice.service = s => Announced(s, u, Append(events, e))
<1>1. \A i \in DOMAIN events : i \in DOMAIN Append(events, e) /\ Append(events, e)[i] = events[i]
  BY Appended
<1>2. Len(events) + 1 \in DOMAIN Append(events, e) /\ Append(events, e)[Len(events) + 1] = e
  BY Appended
<1> QED
  BY <1>1, <1>2 DEF Announced

LEMMA EventTyped ==
    ASSUME NEW u \in SliceId, NEW gone \in BOOLEAN, NEW slice \in EndpointSlice
    PROVE  /\ Event(u, gone, slice) \in Events /\ Event(u, gone, slice).uid = u
           /\ Event(u, gone, slice).gone = gone /\ Event(u, gone, slice).slice = slice
BY DEF Event, Events

LEMMA EndingStep ==
    ASSUME TypeOK, TypeOK', OneWorkerPerService, Knowing, Undisturbed, Ending, TargetsOK,
           [Next]_vars
    PROVE  Ending'
<1>1. /\ watch \in Seq(Events) /\ cache \in Stored /\ slices \in Stored
      /\ \A i \in DOMAIN watch : watch[i] \in Events /\ watch[i].uid \in SliceId
  <2>1. watch \in Seq(Events) /\ cache \in Stored /\ slices \in Stored
    BY DEF TypeOK
  <2>2. \A e \in Events : e.uid \in SliceId
    BY DEF Events
  <2> QED
    BY <2>1, <2>2
<1>2. CASE UNCHANGED <<watch, cache>>
  BY <1>2 DEF Ending
<1>3. ASSUME NEW w \in Worker, Calls(w) PROVE Ending'
  <2>1. CASE watch' = watch
    BY <1>2, <1>3, <2>1, CallFacts
  <2>2. ASSUME NEW u \in SliceId, NEW slice \in EndpointSlice, slices'[u] # NoSlice,
               watch' = Append(watch, Event(u, FALSE, slice))
        PROVE  Ending'
    <3> DEFINE e == Event(u, FALSE, slice)
    <3>1. e \in Events /\ e.uid = u /\ ~e.gone
      BY EventTyped
    <3>2. watch' = Append(watch, e) /\ cache' = cache /\ Lasting
      BY <1>3, <2>2, CallFacts
    <3>3. \A i \in DOMAIN watch : watch[i].gone => watch[i].uid # u
      <4> SUFFICES ASSUME NEW i \in DOMAIN watch, watch[i].gone, watch[i].uid = u PROVE FALSE
        OBVIOUS
      <4>1. slices[u] = NoSlice /\ u <= used
        BY DEF Knowing, Reported, Once
      <4> QED
        BY <2>2, <3>2, <4>1 DEF Lasting
    <3> HIDE DEF e
    <3> QED
      BY <1>1, <3>1, <3>2, <3>3, Appended DEF Ending
  <2>3. ASSUME NEW u \in SliceId, DeleteSlice(w, u),
               watch' = Append(watch, Event(u, TRUE, slices[u]))
        PROVE  Ending'
    <3> DEFINE e == Event(u, TRUE, slices[u])
    <3>1. /\ slices[u] # NoSlice /\ slices[u] \in EndpointSlice
          /\ At(w, "call") /\ u \in work[w].deletes
      BY <1>1, <2>3 DEF DeleteSlice, Stored
    <3>2. e \in Events /\ e.uid = u /\ e.gone /\ e.slice = slices[u]
      BY <3>1, EventTyped
    <3>3. watch' = Append(watch, e) /\ cache' = cache
      BY <1>3, <2>3, CallFacts
    <3>4. cache[u] # NoSlice
      BY <3>1 DEF TargetsOK, Targets, Syncing, At
    <3>5. cache[u].service = slices[u].service
      BY <3>1, <3>4 DEF Knowing, CacheOK, Once
    <3>6. \A i \in DOMAIN watch : watch[i].uid = u =>
             ~watch[i].gone /\ watch[i].slice.service = slices[u].service
      BY <3>1 DEF Knowing, Reported, Once
    <3> HIDE DEF e
    <3>7. ASSUME NEW i \in DOMAIN watch', watch'[i].gone
          PROVE  /\ cache'[watch'[i].uid] # NoSlice
                 /\ cache'[watch'[i].uid].service = watch'[i].slice.service
                 /\ \A j \in DOMAIN watch' : watch'[j].uid = watch'[i].uid =>
                      j <= i /\ watch'[j].slice.service = watch'[i].slice.service
      <4>1. CASE i \in DOMAIN watch
        <5>1. watch'[i] = watch[i] /\ watch[i].gone /\ watch[i].uid # u
          BY <1>1, <3>2, <3>3, <3>6, <3>7, <4>1, Appended
        <5> QED
          BY <1>1, <3>2, <3>3, <4>1, <5>1, Appended DEF Ending
      <4>2. CASE i = Len(watch) + 1
        <5>1. watch'[i] = e
          BY <1>1, <3>2, <3>3, <4>2, Appended
        <5>2. ASSUME NEW j \in DOMAIN watch', watch'[j].uid = u
              PROVE  j <= i /\ watch'[j].slice.service = slices[u].service
          BY <1>1, <3>2, <3>3, <3>6, <4>2, <5>1, <5>2, Appended
        <5> QED
          BY <3>2, <3>3, <3>4, <3>5, <5>1, <5>2
      <4> QED
        BY <1>1, <3>2, <3>3, <4>1, <4>2, Appended
    <3> QED
      BY <3>7 DEF Ending
  <2> QED
    BY <1>3, <2>1, <2>2, <2>3, CallFacts
<1>4. CASE Receive
  <2> DEFINE e == Head(watch)
  <2>1. watch # << >> /\ e \in Events /\ e = watch[1] /\ 1 \in DOMAIN watch
    BY <1>1, <1>4 DEF Receive
  <2>2. e.uid \in SliceId /\ e.gone \in BOOLEAN /\ e.slice \in EndpointSlice
    BY <2>1 DEF Events
  <2>3. /\ cache' = [cache EXCEPT ![e.uid] = IF e.gone THEN NoSlice ELSE e.slice]
        /\ watch' = Tail(watch)
    BY <1>4 DEF Receive
  <2> HIDE DEF e
  <2>4. \A i \in DOMAIN watch' : /\ i \in Nat /\ i >= 1 /\ i + 1 \in DOMAIN watch
                                 /\ watch'[i] = watch[i + 1]
    BY <1>1, <2>1, <2>3
  <2>5. ASSUME NEW i \in DOMAIN watch', watch'[i].gone
        PROVE  /\ cache'[watch'[i].uid] # NoSlice
               /\ cache'[watch'[i].uid].service = watch'[i].slice.service
               /\ \A j \in DOMAIN watch' : watch'[j].uid = watch'[i].uid =>
                    j <= i /\ watch'[j].slice.service = watch'[i].slice.service
    <3> DEFINE x == watch[i + 1]
    <3>1. i + 1 \in DOMAIN watch /\ watch'[i] = x /\ x.gone /\ x.uid \in SliceId /\ i \in Nat /\ i >= 1
      BY <1>1, <2>4, <2>5
    <3>2. /\ cache[x.uid] # NoSlice /\ cache[x.uid].service = x.slice.service
          /\ \A j \in DOMAIN watch : watch[j].uid = x.uid =>
               j <= i + 1 /\ watch[j].slice.service = x.slice.service
      BY <3>1 DEF Ending
    <3> HIDE DEF x
    <3>3. \A j \in DOMAIN watch' : watch'[j].uid = x.uid =>
             j <= i /\ watch'[j].slice.service = x.slice.service
      BY <2>4, <3>1, <3>2
    <3>4. CASE x.uid = e.uid
      <4>1. ~e.gone
        <5> SUFFICES ASSUME e.gone PROVE FALSE
          OBVIOUS
        <5>1. \A j \in DOMAIN watch : watch[j].uid = e.uid => j <= 1
          BY <2>1 DEF Ending
        <5>2. watch[i + 1].uid = e.uid
          BY <3>4 DEF x
        <5> QED
          BY <3>1, <5>1, <5>2
      <4>2. e.slice.service = x.slice.service
        BY <2>1, <3>2, <3>4
      <4>3. cache'[x.uid] = e.slice
        BY <1>1, <2>2, <2>3, <3>4, <4>1 DEF Stored
      <4> QED
        BY <2>2, <3>1, <3>3, <4>2, <4>3, ControllerAssumption
    <3>5. CASE x.uid # e.uid
      <4>1. cache'[x.uid] = cache[x.uid]
        BY <1>1, <2>2, <2>3, <3>1, <3>5 DEF Stored
      <4> QED
        BY <3>1, <3>2, <3>3, <4>1
    <3> QED
      BY <3>4, <3>5
  <2> QED
    BY <2>5 DEF Ending
<1>5. CASE Relist
  BY <1>5 DEF Relist, Ending
<1>6. CASE OnEndpointSliceUpdate \/ OnEndpointSliceDelete
  BY <1>2, <1>6 DEF OnEndpointSliceUpdate, OnEndpointSliceDelete, server
<1> QED
  BY <1>2, <1>3, <1>4, <1>5, <1>6, StepKinds DEF InformerStep

\* Nobody but the worker itself goes on with its sync.
LEMMA OwnStep ==
    ASSUME TypeOK, [Next]_vars, NEW w \in Worker, work'[w] # work[w]
    PROVE  WorkerStep(w) \/ Failover
<1>1. work \in [Worker -> Job] /\ work' # work
  BY DEF TypeOK
<1>2. ASSUME NEW v \in Worker, v # w, WorkerStep(v) PROVE FALSE
  <2>1. CASE \/ Get(v) \/ ServiceNotFound(v) \/ GetService(v) \/ ListPods(v) \/ ListSlices(v)
             \/ Stale(v) \/ Reconcile(v)
             \/ Track(v) \/ Finalized(v) \/ HandleErr(v) \/ CallFails(v)
    BY <1>1, <1>2, <2>1 DEF Get, ServiceNotFound, GetService, ListPods, ListSlices, Stale,
                            Reconcile, Track, Finalized, HandleErr, CallFails, GoTo
  <2>2. CASE Calls(v)
    BY <1>1, <1>2, <2>2 DEF Calls, CreateSlice, UpdateSlice, DeleteSlice, Replied, GoTo
  <2> QED
    BY <1>2, <2>1, <2>2 DEF WorkerStep, Calls
<1>3. ~InformerStep
  BY <1>1 DEF InformerStep, Receive, Relist, OnEndpointSliceUpdate, OnEndpointSliceDelete
<1>4. ASSUME NEW s \in Service,
             \/ ServiceCreated(s) \/ ServiceDeleted(s) \/ OnServiceUpdate(s)
             \/ PodChanged(s) \/ DelayOver(s)
      PROVE  FALSE
  BY <1>1, <1>4 DEF ServiceCreated, ServiceDeleted, OnServiceUpdate, PodChanged, DelayOver
<1>5. ASSUME NEW u \in SliceId, Removed(u) \/ GarbageCollected(u) PROVE FALSE
  BY <1>1, <1>5 DEF Removed, GarbageCollected
<1> QED
  BY <1>1, <1>2, <1>3, <1>4, <1>5 DEF Next, vars

\* What makes a worker's sync what it is.
LEMMA WorkerMoves ==
    ASSUME TypeOK, [Next]_vars, NEW w \in Worker, Syncing(w)', work'[w] # work[w]
    PROVE  \/ GetService(w) \/ ListPods(w) \/ ListSlices(w)
           \/ Reconcile(w) \/ Track(w) \/ Calls(w)
<1>1. work \in [Worker -> Job] /\ ~Failover
  BY IdleTyped DEF TypeOK, Failover, Syncing
<1>2. ~Get(w)
  BY <1>1 DEF Get, Fresh, Syncing
<1>3. ~ServiceNotFound(w) /\ ~Stale(w) /\ ~Finalized(w) /\ ~CallFails(w)
  <2>1. GoTo(w, "ok") \/ GoTo(w, "error") => work'[w].pc \in {"ok", "error"}
    BY <1>1 DEF GoTo, Job
  <2> QED
    BY <2>1 DEF ServiceNotFound, Stale, Finalized, CallFails, Syncing
<1>4. ~HandleErr(w)
  BY <1>1, IdleTyped DEF HandleErr, Syncing
<1> QED
  BY <1>1, <1>2, <1>3, <1>4, OwnStep DEF WorkerStep, Calls

\* A call leaves a sync with fewer slices to delete, and the reply.
LEMMA CallLeaves ==
    ASSUME TypeOK, NEW w \in Worker, Calls(w), Syncing(w)'
    PROVE  /\ At(w, "call") /\ work'[w].pc = "track" /\ work'[w].service = work[w].service
           /\ work'[w].owner = work[w].owner /\ work'[w].want = work[w].want
           /\ work'[w].deletes \subseteq work[w].deletes
           /\ \/ /\ CreateSlice(w) /\ work'[w].reply.uid = used + 1
                 /\ work'[w].reply.generation = 1
              \/ \E u \in SliceId :
                   /\ UpdateSlice(w, u) /\ work'[w].reply.uid = u
                   /\ work'[w].reply.generation = slices'[u].generation
                   /\ work'[w].updates = work[w].updates \ {u}
              \/ \E u \in SliceId :
                   /\ DeleteSlice(w, u) /\ work'[w].reply.uid = u
                   /\ work'[w].reply.generation = deletionExpected
                   /\ work'[w].updates = work[w].updates
<1>1. /\ work[w] \in Job /\ slices \in Stored
      /\ \A u \in SliceId : slices[u] # NoSlice => slices[u] \in EndpointSlice
  BY Typed DEF TypeOK
<1>2. CASE CreateSlice(w)
  <2> DEFINE rest == [work[w] EXCEPT !.create = FALSE]
  <2>1. /\ rest \in Job /\ rest.service = work[w].service /\ rest.deletes = work[w].deletes
        /\ rest.owner = work[w].owner /\ rest.want = work[w].want
    BY <1>1 DEF Job
  <2>2. At(w, "call") /\ Replied(w, rest, used + 1, 1)
    BY <1>2 DEF CreateSlice
  <2> HIDE DEF rest
  <2> QED
    BY <1>2, <2>1, <2>2, RepliedFacts
<1>3. ASSUME NEW u \in SliceId, UpdateSlice(w, u)
      PROVE  /\ At(w, "call") /\ work'[w].pc = "track" /\ work'[w].service = work[w].service
             /\ work'[w].owner = work[w].owner /\ work'[w].want = work[w].want
             /\ work'[w].deletes \subseteq work[w].deletes
             /\ work'[w].updates = work[w].updates \ {u}
             /\ work'[w].reply.uid = u /\ work'[w].reply.generation = slices'[u].generation
  <2> DEFINE rest == [work[w] EXCEPT !.updates = @ \ {u}]
             next == [slices[u] EXCEPT !.content = work[w].want, !.generation = @ + 1]
  <2>1. /\ rest \in Job /\ rest.service = work[w].service /\ rest.deletes = work[w].deletes
        /\ rest.owner = work[w].owner /\ rest.want = work[w].want
        /\ rest.updates = work[w].updates \ {u}
    BY <1>1 DEF Job
  <2>2. /\ At(w, "call")
        /\ \/ UNCHANGED <<slices, watch>> /\ Replied(w, rest, u, slices[u].generation)
           \/ Write(u, next) /\ Replied(w, rest, u, next.generation)
    BY <1>3 DEF UpdateSlice
  <2> HIDE DEF rest, next
  <2>3. Replied(w, rest, u, slices'[u].generation)
    BY <1>1, <2>2 DEF Write, Stored
  <2> QED
    BY <2>1, <2>2, <2>3, RepliedFacts
<1>4. ASSUME NEW u \in SliceId, DeleteSlice(w, u)
      PROVE  /\ At(w, "call") /\ work'[w].pc = "track" /\ work'[w].service = work[w].service
             /\ work'[w].owner = work[w].owner /\ work'[w].want = work[w].want
             /\ work'[w].deletes \subseteq work[w].deletes
             /\ work'[w].updates = work[w].updates
             /\ work'[w].reply.uid = u /\ work'[w].reply.generation = deletionExpected
  <2> DEFINE rest == [work[w] EXCEPT !.deletes = @ \ {u}]
  <2>1. /\ rest \in Job /\ rest.service = work[w].service
        /\ rest.owner = work[w].owner /\ rest.want = work[w].want
        /\ rest.updates = work[w].updates
        /\ rest.deletes \subseteq work[w].deletes
    BY <1>1 DEF Job
  <2>2. At(w, "call") /\ Replied(w, rest, u, deletionExpected)
    BY <1>4 DEF DeleteSlice
  <2> HIDE DEF rest
  <2> QED
    BY <2>1, <2>2, RepliedFacts
<1> QED
  BY <1>2, <1>3, <1>4 DEF Calls

LEMMA TargetsStep ==
    ASSUME TypeOK, TypeOK', OneWorkerPerService, Knowing, Undisturbed, TargetsOK, [Next]_vars
    PROVE  TargetsOK'
<1> SUFFICES ASSUME NEW w \in Worker, Syncing(w)', NEW u \in Targets(w)'
             PROVE  /\ u <= used'
                    /\ slices'[u] # NoSlice => /\ cache'[u] # NoSlice
                                               /\ slices'[u].service = work'[w].service
  BY DEF TargetsOK
<1>1. Lasting /\ Holding
  BY StepFacts
<1>2. /\ work \in [Worker -> Job] /\ work[w] \in Job /\ work'[w] \in Job
      /\ used \in Nat /\ used' \in Nat
  BY Typed, TypedNext DEF TypeOK
<1>3. u \in SliceId /\ u \in Nat
  <2>1. work'[w].deletes \subseteq SliceId
    BY <1>2 DEF Job
  <2> QED
    BY <2>1 DEF Targets, Listed, SliceId, At
<1>4. ASSUME u <= used, slices[u] # NoSlice =>
                           cache[u] # NoSlice /\ slices[u].service = work'[w].service
      PROVE  /\ u <= used'
             /\ slices'[u] # NoSlice => /\ cache'[u] # NoSlice
                                        /\ slices'[u].service = work'[w].service
  BY <1>1, <1>2, <1>3, <1>4 DEF Lasting, Holding
<1>5. ASSUME Syncing(w), work'[w].service = work[w].service, u \in Targets(w)
      PROVE  u <= used /\ (slices[u] # NoSlice =>
                             cache[u] # NoSlice /\ slices[u].service = work'[w].service)
  BY <1>5 DEF TargetsOK
<1>6. CASE work'[w] = work[w]
  BY <1>4, <1>5, <1>6 DEF Syncing, Targets, At
<1>7. CASE GetService(w) \/ ListPods(w)
  <2>1. work'[w].pc \in {"pods", "slices"}
    BY <1>2, <1>7 DEF GetService, ListPods, Job
  <2> QED
    BY <2>1 DEF Targets, At
<1>8. CASE ListSlices(w)
  <2> DEFINE s == work[w].service
  <2>1. work'[w] = [work[w] EXCEPT !.listed = List(s, cache), !.pc = "check"]
    BY <1>2, <1>8 DEF ListSlices
  <2>2. work'[w].pc = "check" /\ work'[w].service = s /\ work'[w].listed = List(s, cache)
    BY <1>2, <2>1 DEF Job
  <2>3. List(s, cache)[u] # NoSlice
    BY <2>2 DEF Targets, At, Listed
  <2>4. cache[u] # NoSlice /\ cache[u].service = s
    BY <1>3, <2>3 DEF List, Of
  <2> QED
    BY <1>3, <1>4, <2>2, <2>4 DEF Knowing, CacheOK, Once
<1>9. CASE Reconcile(w)
  <2>1. PICK planned \in Plans(w) : work'[w] = planned
    BY <1>2, <1>9 DEF Reconcile
  <2>2. /\ planned.service = work[w].service /\ planned.pc = "call"
        /\ planned.deletes \subseteq Listed(work[w].listed)
    BY PlanFacts
  <2>3. Syncing(w) /\ u \in Targets(w)
    BY <1>9, <2>1, <2>2 DEF Reconcile, Syncing, Targets, At
  <2> QED
    BY <1>4, <1>5, <2>1, <2>2, <2>3
<1>10. CASE Track(w)
  <2>1. work'[w] = [work[w] EXCEPT !.pc = "call"]
    BY <1>2, <1>10 DEF Track, GoTo
  <2>2. /\ work'[w].service = work[w].service /\ work'[w].pc = "call"
        /\ work'[w].deletes = work[w].deletes
    BY <1>2, <2>1 DEF Job
  <2>3. Syncing(w) /\ u \in Targets(w)
    BY <1>10, <2>2 DEF Track, Syncing, Targets, At
  <2> QED
    BY <1>4, <1>5, <2>2, <2>3
<1>11. CASE Calls(w)
  <2>1. /\ At(w, "call") /\ work'[w].pc = "track" /\ work'[w].service = work[w].service
        /\ work'[w].deletes \subseteq work[w].deletes
    BY <1>11, CallLeaves
  <2>2. Syncing(w) /\ u \in Targets(w)
    BY <2>1 DEF Syncing, Targets, At
  <2> QED
    BY <1>4, <1>5, <2>1, <2>2
<1> QED
  BY <1>6, <1>8, <1>9, <1>10, <1>11, <1>7, WorkerMoves

\* What was seen of a slice remains true of it.
LEMMA SeenLasts ==
    ASSUME TypeOK, TypeOK', Lasting, Aging, NEW s, NEW u \in SliceId,
           NEW generation \in Nat \cup {deletionExpected},
           Seen(slices, used, s, u, generation)
    PROVE  Seen(slices', used', s, u, generation)
<1>1. used \in Nat /\ used' \in Nat /\ u \in Nat
  BY Typed, TypedNext DEF SliceId
<1>2. ASSUME slices'[u] # NoSlice, u <= used
      PROVE  /\ slices[u] # NoSlice /\ slices'[u].service = slices[u].service
             /\ slices[u].generation <= slices'[u].generation
             /\ slices[u].generation \in Nat /\ slices'[u].generation \in Nat
  <2>1. slices[u] # NoSlice /\ slices'[u].service = slices[u].service
    BY <1>2 DEF Lasting
  <2>2. slices'[u] \in EndpointSlice
    BY <1>2, TypedNext
  <2> QED
    BY <1>2, <2>1, <2>2, Typed DEF Aging, EndpointSlice
<1> QED
  BY <1>1, <1>2 DEF Seen, Lasting, deletionExpected, Untracked

LEMMA RepliesStep ==
    ASSUME TypeOK, TypeOK', OneWorkerPerService, Knowing, Undisturbed, TargetsOK, RepliesSeen,
           [Next]_vars
    PROVE  RepliesSeen'
<1> SUFFICES ASSUME NEW w \in Worker, work'[w].pc = "track"
             PROVE  /\ Seen(slices', used', work'[w].service, work'[w].reply.uid,
                            work'[w].reply.generation)
                    /\ work'[w].reply.generation > 0 => slices'[work'[w].reply.uid] # NoSlice
  BY DEF RepliesSeen, At
<1>1. Lasting /\ Aging
  BY StepFacts
<1>2. /\ work \in [Worker -> Job] /\ work[w] \in Job /\ slices \in Stored /\ used \in Nat
      /\ \A u \in SliceId : slices[u] # NoSlice => slices[u].generation \in Nat
      /\ \A u \in SliceId : slices'[u] # NoSlice => slices'[u].generation \in Nat
  BY Typed, TypedNext DEF TypeOK, EndpointSlice
<1>3. CASE work'[w] = work[w]
  <2> DEFINE u == work[w].reply.uid
             generation == work[w].reply.generation
  <2>1. u \in SliceId /\ generation \in Nat \cup {deletionExpected}
    BY <1>2 DEF Job
  <2>2. At(w, "track") /\ Busy(w)
    BY <1>3 DEF At, Busy
  <2>3. /\ Seen(slices, used, work[w].service, u, generation)
        /\ generation > 0 => slices[u] # NoSlice
    BY <2>2 DEF RepliesSeen
  <2>4. Seen(slices', used', work[w].service, u, generation)
    BY <1>1, <2>1, <2>3, SeenLasts
  <2>5. ASSUME generation > 0, slices'[u] = NoSlice PROVE FALSE
    <3>1. slices[u] # NoSlice /\ slices[u].service = work[w].service
      BY <2>3, <2>5 DEF Seen
    <3>2. PICK v \in Worker : Calls(v)
      BY <2>5, <3>1, StepKinds DEF InformerStep, Receive, Relist, OnEndpointSliceUpdate,
                                   OnEndpointSliceDelete, server
    <3>3. DeleteSlice(v, u)
      BY <2>1, <2>5, <3>1, <3>2, CallFacts
    <3>4. At(v, "call") /\ u \in work[v].deletes
      BY <3>3 DEF DeleteSlice
    <3>5. slices[u].service = work[v].service /\ Busy(v)
      BY <3>1, <3>4 DEF TargetsOK, Targets, Syncing, At, Busy
    <3> QED
      BY <2>2, <3>1, <3>4, <3>5 DEF OneWorkerPerService, At
  <2> QED
    BY <1>3, <2>4, <2>5
<1>4. CASE work'[w] # work[w]
  <2>1. Calls(w)
    <3>1. ~GetService(w) /\ ~ListPods(w) /\ ~ListSlices(w) /\ ~Reconcile(w) /\ ~Track(w)
      <4>1. GetService(w) \/ ListPods(w) \/ ListSlices(w)
              => work'[w].pc \in {"pods", "slices", "check"}
        BY <1>2 DEF GetService, ListPods, ListSlices, Job
      <4>2. Reconcile(w) => work'[w].pc = "call"
        BY <1>2, PlanFacts DEF Reconcile
      <4>3. Track(w) => work'[w].pc = "call"
        BY <1>2 DEF Track, GoTo, Job
      <4> QED
        BY <4>1, <4>2, <4>3
    <3> QED
      BY <1>4, <3>1, WorkerMoves DEF Syncing
  <2>2. CASE /\ CreateSlice(w) /\ work'[w].reply.uid = used + 1
             /\ work'[w].reply.generation = 1
    <3>1. used + 1 \in SliceId /\ used' = used + 1
      BY <2>2 DEF CreateSlice
    <3>2. /\ slices'[used + 1].service = work[w].service
          /\ slices' = [slices EXCEPT ![used + 1] =
                [service |-> work[w].service, owner |-> work[w].owner,
                 content |-> work[w].want, generation |-> 1]]
      BY <2>2, CreationKnows DEF CreateSlice, Write
    <3>3. slices'[used + 1].generation = 1
      BY <1>2, <3>1, <3>2 DEF Stored
    <3>4. slices'[used + 1] # NoSlice
      <4>1. [service |-> work[w].service, owner |-> work[w].owner,
             content |-> work[w].want, generation |-> 1] \in EndpointSlice
        BY <1>2 DEF Job, EndpointSlice
      <4> QED
        BY <1>2, <3>1, <3>2, <4>1, ControllerAssumption DEF Stored
    <3>5. work'[w].service = work[w].service
      BY <2>1, CallLeaves DEF Syncing
    <3> QED
      BY <1>2, <2>2, <3>1, <3>2, <3>3, <3>4, <3>5 DEF Seen, deletionExpected, Untracked
  <2>3. ASSUME NEW u \in SliceId, UpdateSlice(w, u), work'[w].reply.uid = u,
               work'[w].reply.generation = slices'[u].generation
        PROVE  /\ Seen(slices', used', work'[w].service, u, slices'[u].generation)
               /\ slices'[u] # NoSlice
    <3>1. /\ u \in work[w].updates /\ At(w, "call") /\ slices[u] # NoSlice /\ used' = used
      BY <2>3 DEF UpdateSlice
    <3>2. slices'[u] # NoSlice /\ slices'[u].service = slices[u].service
      BY <2>3, UpdateKnows
    <3>3. u <= used /\ slices[u].service = work[w].service
      BY <3>1 DEF Knowing, JobOK, Syncing, At
    <3>4. work'[w].service = work[w].service
      BY <2>1, CallLeaves DEF Syncing
    <3>5. slices'[u].generation \in Nat
      BY <1>2, <3>2
    <3> QED
      BY <3>1, <3>2, <3>3, <3>4, <3>5 DEF Seen, deletionExpected
  <2>4. ASSUME NEW u \in SliceId, DeleteSlice(w, u)
        PROVE  Seen(slices', used', work'[w].service, u, deletionExpected)
    <3>1. slices'[u] = NoSlice /\ u <= used /\ used' = used
      BY <1>2, <2>4 DEF DeleteSlice, Erase, Stored, Knowing, SlicesOK
    <3> QED
      BY <3>1 DEF Seen, deletionExpected
  <2> QED
    BY <2>1, <2>2, <2>3, <2>4, CallLeaves DEF Syncing, deletionExpected
<1> QED
  BY <1>3, <1>4

LEMMA OrderHasAll ==
    ASSUME NEW S \in SUBSET SliceId, NEW order \in Orders(S), NEW u \in S
    PROVE  \E i \in DOMAIN order : order[i] = u
<1>1. IsFiniteSet(S) /\ Cardinality(S) \in Nat
  BY SliceIdFinite, FS_CardinalityType
<1> DEFINE I == 1..Cardinality(S)
<1>2. Cardinality(I) = Cardinality(S)
  BY <1>1, FS_Interval
<1>3. order \in [I -> S] /\ \A i, j \in I : order[i] = order[j] => i = j
  BY DEF Orders
<1> HIDE DEF I
<1>4. order \in Injection(I, S)
  BY <1>3 DEF Injection, IsInjective
<1>5. order \in Surjection(I, S)
  BY <1>1, <1>2, <1>4, FS_Injection
<1> QED
  BY <1>3, <1>5 DEF Surjection

\* An announced deletion stays announced until its handler has been called.
LEMMA AnnouncedOn ==
    ASSUME TypeOK, TypeOK', OneWorkerPerService, Knowing, Undisturbed, Ending, [Next]_vars,
           NEW s \in Service, NEW u \in SliceId, Heard(s, u)
    PROVE  Heard(s, u)' \/ tracker'[s][u] = Untracked
<1>1. /\ watch \in Seq(Events) /\ notes \in Seq(Events) /\ cache \in Stored
      /\ \A e \in Events : /\ e.uid \in SliceId /\ e.slice \in EndpointSlice
                           /\ e.slice.service \in Service
  BY DEF TypeOK, Events, EndpointSlice
<1>2. CASE UNCHANGED <<slices, used, watch, cache, notes>>
  BY <1>2 DEF Heard, Announced
<1>3. ASSUME NEW w \in Worker, Calls(w) PROVE Heard(s, u)'
  <2>1. notes' = notes
    BY <1>3, CallFacts
  <2>2. watch' = watch \/ \E e \in Events : watch' = Append(watch, e)
    <3>1. ASSUME NEW v \in SliceId, DeleteSlice(w, v) PROVE slices[v] \in EndpointSlice
      BY <3>1, Typed DEF DeleteSlice
    <3>2. ASSUME NEW v \in SliceId, NEW gone \in BOOLEAN, NEW slice \in EndpointSlice,
                 watch' = Append(watch, Event(v, gone, slice))
          PROVE  \E e \in Events : watch' = Append(watch, e)
      BY <3>2, EventTyped
    <3>3. \/ watch' = watch
          \/ \E v \in SliceId, slice \in EndpointSlice :
               watch' = Append(watch, Event(v, FALSE, slice))
          \/ \E v \in SliceId :
               DeleteSlice(w, v) /\ watch' = Append(watch, Event(v, TRUE, slices[v]))
      BY <1>3, CallFacts
    <3> QED
      BY <3>1, <3>2, <3>3
  <2>3. Announced(s, u, watch) => Announced(s, u, watch')
    BY <1>1, <2>2, AnnouncedMore
  <2> QED
    BY <2>1, <2>3 DEF Heard
<1>4. CASE Receive
  <2>1. watch # << >> /\ watch' = Tail(watch) /\ notes' = Append(notes, Head(watch))
    BY <1>4 DEF Receive
  <2>2. Head(watch) = watch[1] /\ Head(watch) \in Events
    BY <1>1, <2>1
  <2>3. Announced(s, u, notes) => Announced(s, u, notes')
    BY <1>1, <2>1, <2>2, AnnouncedMore
  <2>4. ASSUME NEW i \in DOMAIN watch, watch[i].uid = u, watch[i].gone, watch[i].slice.service = s
        PROVE  Announced(s, u, watch') \/ Announced(s, u, notes')
    <3>1. CASE i = 1
      BY <1>1, <2>1, <2>2, <2>4, <3>1, AnnouncedMore
    <3>2. CASE i # 1
      <4>1. i - 1 \in DOMAIN Tail(watch) /\ Tail(watch)[i - 1] = watch[i]
        BY <1>1, <2>1, <3>2
      <4> QED
        BY <2>1, <2>4, <4>1 DEF Announced
    <3> QED
      BY <3>1, <3>2
  <2> QED
    BY <2>3, <2>4 DEF Heard, Announced
<1>5. CASE Relist
  <2> DEFINE different == {v \in SliceId : cache[v] # slices[v]}
             difference(v) == IF slices[v] = NoSlice THEN Event(v, TRUE, cache[v])
                              ELSE Event(v, FALSE, slices[v])
  <2>1. PICK order \in Orders(different) :
          notes' = notes \o [i \in DOMAIN order |-> difference(order[i])]
    BY <1>5 DEF Relist
  <2> DEFINE told == [i \in DOMAIN order |-> difference(order[i])]
  <2>2. order \in Seq(different) /\ slices \in Stored
    BY OrdersAreSequences, SliceIdFinite DEF TypeOK
  <2>3. ASSUME NEW v \in different PROVE difference(v) \in Events
    <3>0. v \in SliceId /\ cache[v] # slices[v]
      OBVIOUS
    <3>1. CASE slices[v] = NoSlice
      <4>1. cache[v] \in EndpointSlice
        BY <1>1, <3>0, <3>1 DEF Stored
      <4> QED
        BY <3>0, <3>1, <4>1, EventTyped
    <3>2. CASE slices[v] # NoSlice
      <4>1. slices[v] \in EndpointSlice
        BY <2>2, <3>0, <3>2 DEF Stored
      <4> QED
        BY <3>0, <3>2, <4>1, EventTyped
    <3> QED
      BY <3>1, <3>2
  <2>4. told \in Seq(Events) /\ DOMAIN told = DOMAIN order
        /\ \A i \in DOMAIN told : told[i] = difference(order[i])
    <3> HIDE DEF different, difference
    <3> QED
      BY <2>2, <2>3
  <2>5. notes' = notes \o told
    BY <2>1
  <2>6. ASSUME Announced(s, u, watch)
        PROVE  \E i \in DOMAIN told : told[i].uid = u /\ told[i].gone /\ told[i].slice.service = s
    <3>1. PICK i \in DOMAIN watch : watch[i].uid = u /\ watch[i].gone /\ watch[i].slice.service = s
      BY <2>6 DEF Announced
    <3>2. slices[u] = NoSlice /\ cache[u] # NoSlice /\ cache[u].service = s
      BY <3>1 DEF Ending, Knowing, Reported
    <3>3. u \in different /\ difference(u) = Event(u, TRUE, cache[u]) /\ cache[u] \in EndpointSlice
      BY <1>1, <3>2 DEF Stored
    <3>4. difference(u).uid = u /\ difference(u).gone /\ difference(u).slice.service = s
      BY <3>2, <3>3, EventTyped
    <3> HIDE DEF different, difference, told
    <3>5. different \in SUBSET SliceId
      BY DEF different
    <3>6. PICK j \in DOMAIN order : order[j] = u
      BY <3>3, <3>5, OrderHasAll
    <3> QED
      BY <2>4, <3>4, <3>6
  <2> HIDE DEF told
  <2>7. /\ \A i \in DOMAIN notes : i \in DOMAIN notes' /\ notes'[i] = notes[i]
        /\ \A i \in DOMAIN told : /\ Len(notes) + i \in DOMAIN notes'
                                  /\ notes'[Len(notes) + i] = told[i]
    BY <1>1, <2>4, <2>5, ConcatProperties
  <2> QED
    BY <2>6, <2>7 DEF Heard, Announced
<1>6. CASE OnEndpointSliceUpdate \/ OnEndpointSliceDelete
  <2>1. notes # << >> /\ notes' = Tail(notes) /\ watch' = watch
    BY <1>6 DEF OnEndpointSliceUpdate, OnEndpointSliceDelete, server
  <2>2. ASSUME NEW i \in DOMAIN notes, notes[i].uid = u, notes[i].gone, notes[i].slice.service = s
        PROVE  Announced(s, u, notes') \/ tracker'[s][u] = Untracked
    <3>1. CASE i = 1
      <4>1. Head(notes) = notes[1]
        BY <1>1, <2>1
      <4>2. SetTracked(s, u, Untracked)
        BY <1>6, <2>2, <3>1, <4>1 DEF OnEndpointSliceUpdate, OnEndpointSliceDelete
      <4> QED
        BY <4>2 DEF SetTracked, TypeOK
    <3>2. CASE i # 1
      <4>1. i - 1 \in DOMAIN Tail(notes) /\ Tail(notes)[i - 1] = notes[i]
        BY <1>1, <2>1, <3>2
      <4> QED
        BY <2>1, <2>2, <4>1 DEF Announced
    <3> QED
      BY <3>1, <3>2
  <2> QED
    BY <2>1, <2>2 DEF Heard, Announced
<1> QED
  BY <1>2, <1>3, <1>4, <1>5, <1>6, StepKinds DEF InformerStep

\* The tracker learns of a reply, or forgets.
LEMMA TrackerMoves ==
    ASSUME TypeOK, [Next]_vars, NEW s \in Service, NEW u \in SliceId,
           tracker'[s][u] # tracker[s][u], tracker'[s][u] # Untracked
    PROVE  \E w \in Worker :
             /\ Track(w) /\ s = work[w].service /\ u = work[w].reply.uid
             /\ tracker'[s][u] = work[w].reply.generation
<1>1. tracker \in [Service -> [SliceId -> Nat \cup {deletionExpected}]]
  BY DEF TypeOK
<1>2. UNCHANGED tracker => FALSE
  OBVIOUS
<1>3. ASSUME NEW w \in Worker, WorkerStep(w), ~Track(w) PROVE FALSE
  <2>1. CASE ServiceNotFound(w)
    BY <1>1, <2>1 DEF ServiceNotFound
  <2>2. CASE ~ServiceNotFound(w)
    BY <1>2, <1>3, <2>2 DEF WorkerStep, Get, GetService, ListPods, ListSlices, Stale,
                            Reconcile, CreateSlice, Finalized, HandleErr, CallFails,
                            UpdateSlice, DeleteSlice
  <2> QED
    BY <2>1, <2>2
<1>4. ASSUME NEW w \in Worker, Track(w)
      PROVE  /\ s = work[w].service /\ u = work[w].reply.uid
             /\ tracker'[s][u] = work[w].reply.generation
  <2>1. work[w].service \in Service /\ work[w].reply.uid \in SliceId
    BY Typed DEF Job
  <2> QED
    BY <1>1, <1>4, <2>1 DEF Track, SetTracked
<1>5. CASE Failover
  BY <1>5 DEF Failover
<1>6. CASE InformerStep
  <2>1. CASE OnEndpointSliceDelete
    BY <1>1, <2>1 DEF OnEndpointSliceDelete, SetTracked
  <2>2. CASE ~OnEndpointSliceDelete
    BY <1>2, <1>6, <2>2 DEF InformerStep, Receive, Relist, OnEndpointSliceUpdate
  <2> QED
    BY <2>1, <2>2
<1>7. ASSUME NEW t \in Service,
             \/ ServiceCreated(t) \/ ServiceDeleted(t) \/ OnServiceUpdate(t)
             \/ PodChanged(t) \/ DelayOver(t)
      PROVE  FALSE
  BY <1>2, <1>7 DEF ServiceCreated, ServiceDeleted, OnServiceUpdate, PodChanged, DelayOver
<1>8. ASSUME NEW v \in SliceId, Removed(v) \/ GarbageCollected(v) PROVE FALSE
  BY <1>2, <1>8 DEF Removed, GarbageCollected
<1>9. CASE UNCHANGED vars
  BY <1>2, <1>9 DEF vars
<1> QED
  BY <1>3, <1>4, <1>5, <1>6, <1>7, <1>8, <1>9 DEF Next

LEMMA TrackerStep ==
    ASSUME TypeOK, TypeOK', OneWorkerPerService, Knowing, Undisturbed, Followed, [Next]_vars
    PROVE  TrackerSeen'
<1> SUFFICES ASSUME NEW s \in Service, NEW u \in SliceId
             PROVE  /\ Seen(slices', used', s, u, tracker'[s][u])
                    /\ tracker'[s][u] > 0 /\ slices'[u] = NoSlice => Heard(s, u)'
  BY DEF TrackerSeen
<1>1. Lasting /\ Aging
  BY StepFacts
<1>2. /\ slices \in Stored /\ watch \in Seq(Events)
      /\ tracker[s][u] \in Nat \cup {deletionExpected}
  BY DEF TypeOK
<1>3. CASE tracker'[s][u] = Untracked
  BY <1>3 DEF Seen, Untracked, deletionExpected
<1>4. CASE tracker'[s][u] = tracker[s][u] /\ tracker'[s][u] # Untracked
  <2>1. /\ Seen(slices, used, s, u, tracker[s][u])
        /\ tracker[s][u] > 0 /\ slices[u] = NoSlice => Heard(s, u)
    BY DEF Followed, TrackerSeen
  <2>2. Seen(slices', used', s, u, tracker[s][u])
    BY <1>1, <1>2, <2>1, SeenLasts
  <2>3. ASSUME tracker[s][u] > 0, slices'[u] = NoSlice PROVE Heard(s, u)'
    <3>1. CASE slices[u] = NoSlice
      BY <1>4, <2>1, <2>3, <3>1, AnnouncedOn DEF Followed
    <3>2. CASE slices[u] # NoSlice
      <4>1. PICK w \in Worker : Calls(w)
        BY <2>3, <3>2, StepKinds DEF InformerStep, Receive, Relist, OnEndpointSliceUpdate,
                                     OnEndpointSliceDelete, server
      <4>2. DeleteSlice(w, u)
        BY <2>3, <3>2, <4>1, CallFacts
      <4>3. watch' = Append(watch, Event(u, TRUE, slices[u])) /\ slices[u].service = s
        BY <2>1, <2>3, <3>2, <4>2 DEF DeleteSlice, Erase, Seen
      <4>4. slices[u] \in EndpointSlice
        BY <1>2, <3>2 DEF Stored
      <4>5. Announced(s, u, watch')
        BY <1>2, <4>3, <4>4, EventTyped, AnnouncedMore
      <4> QED
        BY <4>5 DEF Heard
    <3> QED
      BY <3>1, <3>2
  <2> QED
    BY <1>4, <2>2, <2>3
<1>5. CASE tracker'[s][u] # tracker[s][u] /\ tracker'[s][u] # Untracked
  <2>1. PICK w \in Worker :
           /\ Track(w) /\ s = work[w].service /\ u = work[w].reply.uid
           /\ tracker'[s][u] = work[w].reply.generation
    BY <1>5, TrackerMoves
  <2>2. At(w, "track") /\ UNCHANGED <<slices, used>>
    BY <2>1 DEF Track, server
  <2> QED
    BY <2>1, <2>2 DEF Followed, RepliesSeen
<1> QED
  BY <1>3, <1>4, <1>5

\* A sync fails before its plan only for a stale cache.
LEMMA FailsForStale ==
    ASSUME TypeOK, [Next]_vars, NEW w \in Worker, At(w, "check"), work'[w].pc = "error"
    PROVE  StaleSlices(work[w].service, work[w].listed)
<1>1. WorkerStep(w)
  BY OwnStep, IdleTyped DEF At, Failover
<1>2. ~Reconcile(w)
  BY PlanFacts DEF Reconcile, TypeOK
<1> QED
  BY <1>1, <1>2 DEF At, WorkerStep, Get, ServiceNotFound, GetService, ListPods, ListSlices,
                    Stale, CreateSlice, Track, Finalized, HandleErr, CallFails, UpdateSlice,
                    DeleteSlice

\* What the server has and nothing is on its way about cannot be stale.
LEMMA StaleBehind ==
    ASSUME TypeOK, Followed, NEW s \in Service, StaleSlices(s, List(s, slices))
    PROVE  watch # << >> \/ notes # << >>
<1>1. \A u \in SliceId : /\ tracker[s][u] \in Nat \cup {deletionExpected}
                         /\ slices[u] # NoSlice => slices[u].generation \in Nat
  BY Typed DEF TypeOK
<1>2. \A u \in SliceId : u \in Listed(List(s, slices)) <=> slices[u] # NoSlice /\ slices[u].service = s
  BY DEF Listed, List, Of
<1>3. \A u \in Listed(List(s, slices)) : List(s, slices)[u] = slices[u] /\ u \in SliceId
  BY DEF Listed, List, Of
<1>4. \A u \in SliceId : Seen(slices, used, s, u, tracker[s][u])
  BY DEF Followed, TrackerSeen
<1>5. ASSUME NEW u \in Listed(List(s, slices))
      PROVE  tracker[s][u] # deletionExpected /\ tracker[s][u] <= slices[u].generation
  BY <1>1, <1>2, <1>3, <1>4, <1>5 DEF Seen, deletionExpected
<1>6. PICK u \in SliceId \ Listed(List(s, slices)) :
         tracker[s][u] \notin {Untracked, deletionExpected}
  <2>1. ASSUME NEW u \in Listed(List(s, slices)) PROVE ~(tracker[s][u] > slices[u].generation)
    <3>1. tracker[s][u] \in Nat \cup {-1} /\ slices[u].generation \in Nat
      BY <1>1, <1>2, <1>3 DEF deletionExpected
    <3>2. tracker[s][u] <= slices[u].generation
      BY <1>5
    <3> QED
      BY <3>1, <3>2
  <2> QED
    BY <1>3, <1>5, <2>1 DEF StaleSlices
<1>7. tracker[s][u] > 0
  BY <1>1, <1>6 DEF Untracked, deletionExpected
<1>8. slices[u] = NoSlice
  BY <1>2, <1>4, <1>6, <1>7 DEF Seen
<1>9. Heard(s, u)
  BY <1>7, <1>8 DEF Followed, TrackerSeen
<1> QED
  BY <1>9 DEF Heard, Announced

\* As long as nobody but the controller deletes slices, no sync fails for a
\* stale cache when it has listed what the API server has and everything has
\* been reported to the handlers (StaleSlices, with HandleDeletion): the tracker
\* never keeps a generation of a slice whose deletion was reported.  Lost
\* replies, failovers and lists made anew do not change that.
THEOREM StaleMeansBehind ==
    ASSUME Undisturbed
    PROVE  Spec => StaleOnlyIfBehind
<1> DEFINE IInv == TypeOK /\ OneWorkerPerService /\ Knowing /\ Followed
           Behind == \A w \in Worker :
                        At(w, "check") /\ work'[w].pc = "error"
                        /\ work[w].listed = List(work[w].service, slices)
                        => watch # << >> \/ notes # << >>
<1>1. Init => IInv
  <2>1. Init => Followed
    <3> SUFFICES ASSUME Init PROVE Followed
      OBVIOUS
    <3>1. /\ \A w \in Worker : work[w].pc = "idle"
          /\ watch = << >>
          /\ \A s \in Service : \A u \in SliceId : tracker[s][u] = Untracked
      BY IdleTyped DEF Init
    <3> QED
      BY <3>1 DEF Followed, Ending, TargetsOK, TrackerSeen, RepliesSeen, Seen, Syncing, At,
                  Untracked, deletionExpected
  <2> QED
    BY <2>1, InitKnowing, InitMutual
<1>2. IInv /\ [Next]_vars => IInv'
  <2> SUFFICES ASSUME IInv, [Next]_vars PROVE IInv'
    OBVIOUS
  <2>1. TypeOK' /\ OneWorkerPerService' /\ Knowing'
    BY Step, KnowingStep
  <2>2. Followed'
    BY <2>1, EndingStep, TargetsStep, TrackerStep, RepliesStep DEF Followed
  <2> QED
    BY <2>1, <2>2
<1>3. IInv /\ [Next]_vars => [Behind]_vars
  <2> SUFFICES ASSUME IInv, [Next]_vars, NEW w \in Worker,
                      At(w, "check"), work'[w].pc = "error",
                      work[w].listed = List(work[w].service, slices)
               PROVE  watch # << >> \/ notes # << >>
    OBVIOUS
  <2>1. work[w].service \in Service
    BY Typed
  <2>2. StaleSlices(work[w].service, work[w].listed)
    BY FailsForStale
  <2> QED
    BY <2>1, <2>2, StaleBehind
<1>4. Behind => \A w \in Worker :
                   At(w, "check") /\ work'[w].pc = "error"
                   /\ work[w].listed = List(work[w].service, slices)
                   => watch # << >> \/ notes # << >>
  OBVIOUS
<1> QED
  BY <1>1, <1>2, <1>3, <1>4, PTL DEF Spec, StaleOnlyIfBehind
-----------------------------------------------------------------------------
(***************************************************************************)
(* That slices do not go back.  A sync reads the pods after whatever this  *)
(* process has written to the slices of its service, and nobody else       *)
(* writes them meanwhile; what an earlier process has written may be newer *)
(* than what this one has seen of the pods.                                *)
(***************************************************************************)
Informed(w) == work[w].pc \in {"slices", "check", "call", "track"}

\* No slice of the service that is ours is ahead of what the sync has read; nor
\* will the one be that the tracker is about to learn of.
JobRecent(w) ==
    LET job == work[w]
        s   == job.service
        u   == job.reply.uid
    IN  /\ job.want <= want[s]
        /\ \A v \in SliceId : slices[v] # NoSlice /\ slices[v].service = s /\ Ours(v)
                                => slices[v].content <= job.want
        /\ job.pc = "track" /\ slices[u] # NoSlice =>
             slices[u].service = s /\ slices[u].content <= job.want

Recent ==
    /\ \A u \in SliceId : slices[u] # NoSlice /\ Ours(u)
                            => slices[u].content <= want[slices[u].service]
    /\ \A w \in Worker : Informed(w) => JobRecent(w)

\* Only a sync writes slices of its service, with what it has read.
LEMMA ContentMoves ==
    ASSUME TypeOK, TypeOK', OneWorkerPerService, Knowing, [Next]_vars,
           NEW u \in SliceId, slices'[u] # NoSlice
    PROVE  \/ slices'[u] = slices[u]
           \/ \E w \in Worker :
                /\ At(w, "call")
                /\ slices'[u].service = work[w].service
                /\ slices'[u].content = work[w].want
<1>1. ASSUME NEW w \in Worker, CreateSlice(w)
      PROVE  \/ slices'[u] = slices[u]
             \/ /\ At(w, "call")
                /\ slices'[u].service = work[w].service
                /\ slices'[u].content = work[w].want
  BY <1>1, CreationKnows DEF CreateSlice
<1>2. ASSUME NEW w \in Worker, NEW v \in SliceId, UpdateSlice(w, v)
      PROVE  \/ slices'[u] = slices[u]
             \/ /\ At(w, "call")
                /\ slices'[u].service = work[w].service
                /\ slices'[u].content = work[w].want
  <2>1. At(w, "call")
    BY <1>2 DEF UpdateSlice
  <2>2. /\ \A x \in SliceId : x # v => slices'[x] = slices[x]
        /\ slices'[v].service = work[w].service /\ slices'[v].content = work[w].want
    BY <1>2, UpdateKnows
  <2> QED
    BY <2>1, <2>2
<1>3. CASE Unwritten
  BY <1>3 DEF Unwritten
<1> QED
  BY <1>1, <1>2, <1>3, UnwrittenStep

\* Takeovers are not undone, and the pods go on but at one.
LEMMA StaysFirst ==
    ASSUME TypeOK, [Next]_vars, mishaps'["failover"] = 0
    PROVE  mishaps["failover"] = 0
<1>1. mishaps \in [Mishaps -> Nat] /\ "failover" \in Mishaps
  BY DEF TypeOK, Mishaps
<1>2. ASSUME NEW kind \in Mishaps, Mishap(kind) PROVE mishaps["failover"] = 0
  <2>1. mishaps' = [mishaps EXCEPT ![kind] = mishaps[kind] + 1]
    BY <1>2 DEF Mishap
  <2>2. CASE kind = "failover"
    BY <1>1, <2>1, <2>2
  <2>3. CASE kind # "failover"
    BY <1>1, <2>1, <2>3
  <2> QED
    BY <2>2, <2>3
<1> QED
  BY <1>2, MishapMoves

LEMMA PodsGoOn ==
    ASSUME TypeOK, [Next]_vars, ~Failover
    PROVE  \A s \in Service : want[s] <= want'[s]
<1>1. want \in [Service -> 1..MaxVersion] /\ \A s \in Service : want[s] \in Nat
  BY Typed DEF TypeOK
<1>2. UNCHANGED want => \A s \in Service : want[s] <= want'[s]
  BY <1>1
<1>3. ASSUME NEW s \in Service, PodChanged(s) PROVE \A t \in Service : want[t] <= want'[t]
  BY <1>1, <1>3 DEF PodChanged
<1>4. ASSUME NEW s \in Service,
             ServiceCreated(s) \/ ServiceDeleted(s) \/ OnServiceUpdate(s) \/ DelayOver(s)
      PROVE  UNCHANGED want
  BY <1>4 DEF ServiceCreated, ServiceDeleted, OnServiceUpdate, DelayOver, desired
<1>5. ASSUME NEW u \in SliceId, Removed(u) \/ GarbageCollected(u) PROVE UNCHANGED want
  BY <1>5 DEF Removed, GarbageCollected, desired
<1>6. InformerStep \/ UNCHANGED vars => UNCHANGED want
  BY DEF InformerStep, Receive, Relist, OnEndpointSliceUpdate, OnEndpointSliceDelete, vars,
         desired
<1>7. ASSUME NEW w \in Worker, WorkerStep(w) PROVE UNCHANGED want
  BY <1>7 DEF WorkerStep, Get, ServiceNotFound, GetService, ListPods, ListSlices, Stale,
              Reconcile, CreateSlice, Track, Finalized, HandleErr, CallFails, UpdateSlice,
              DeleteSlice, desired
<1> QED
  BY <1>2, <1>3, <1>4, <1>5, <1>6, <1>7 DEF Next

\* A slice becomes ours when the tracker learns of it.
LEMMA OursMoves ==
    ASSUME TypeOK, TypeOK', OneWorkerPerService, Knowing, [Next]_vars,
           NEW u \in SliceId, slices[u] # NoSlice, slices'[u] # NoSlice, Ours(u)'
    PROVE  \/ Ours(u)
           \/ \E w \in Worker :
                Track(w) /\ slices[u].service = work[w].service /\ u = work[w].reply.uid
<1> DEFINE s == slices[u].service
<1>1. s \in Service /\ slices'[u].service = s
  BY StepLasts, Typed DEF Lasting, Knowing, SlicesOK
<1>2. CASE mishaps'["failover"] = 0
  BY <1>2, StaysFirst DEF Ours
<1>3. CASE tracker'[s][u] # Untracked /\ tracker'[s][u] = tracker[s][u]
  BY <1>3 DEF Ours
<1>4. CASE tracker'[s][u] # Untracked /\ tracker'[s][u] # tracker[s][u]
  BY <1>1, <1>4, TrackerMoves
<1> QED
  BY <1>1, <1>2, <1>3, <1>4 DEF Ours

\* A process that takes over has written nothing yet.
LEMMA NothingOurs ==
    ASSUME TypeOK, TypeOK', Failover, NEW u \in SliceId, slices'[u] # NoSlice
    PROVE  ~Ours(u)'
<1>1. mishaps'["failover"] # 0
  BY DEF Failover, Mishap, TypeOK, Mishaps
<1>2. slices'[u].service \in Service
  BY TypedNext DEF EndpointSlice
<1>3. tracker'[slices'[u].service][u] = Untracked
  BY <1>2 DEF Failover
<1> QED
  BY <1>1, <1>3 DEF Ours

\* What is ours goes on having nothing that the lister does not have.
LEMMA OursRecent ==
    ASSUME TypeOK, TypeOK', OneWorkerPerService, Knowing, Recent, [Next]_vars, ~Failover,
           NEW u \in SliceId, slices'[u] # NoSlice, Ours(u)'
    PROVE  slices'[u].content <= want'[slices'[u].service]
<1> DEFINE s == slices'[u].service
<1>1. /\ s \in Service /\ slices'[u].content \in Nat /\ want[s] \in Nat /\ want'[s] \in Nat
      /\ want[s] <= want'[s]
  <2>1. s \in Service /\ slices'[u].content \in Nat
    BY TypedNext DEF EndpointSlice
  <2> QED
    BY <2>1, PodsGoOn, Typed, TypedNext
<1>2. slices'[u].content <= want[s]
  <2>1. CASE slices'[u] = slices[u] /\ Ours(u)
    BY <2>1 DEF Recent
  <2>2. CASE slices'[u] = slices[u] /\ ~Ours(u)
    <3>1. PICK w \in Worker :
            Track(w) /\ slices[u].service = work[w].service /\ u = work[w].reply.uid
      BY <2>2, OursMoves
    <3>2. JobRecent(w) /\ At(w, "track") /\ work[w].want \in Nat
      BY <3>1, Typed DEF Track, Recent, Informed, At
    <3> QED
      BY <1>1, <2>2, <3>1, <3>2 DEF JobRecent, At
  <2>3. ASSUME NEW w \in Worker, At(w, "call"), s = work[w].service,
               slices'[u].content = work[w].want
        PROVE  slices'[u].content <= want[s]
    BY <2>3 DEF Recent, Informed, JobRecent, At
  <2> QED
    BY <2>1, <2>2, <2>3, ContentMoves
<1> QED
  BY <1>1, <1>2

\* A sync goes on being ahead of the slices of its service.
LEMMA AheadLasts ==
    ASSUME TypeOK, TypeOK', OneWorkerPerService, Knowing, Recent, [Next]_vars,
           NEW w \in Worker, Informed(w),
           NEW u \in SliceId, slices'[u] # NoSlice, slices'[u].service = work[w].service
    PROVE  /\ Ours(u)' => slices'[u].content <= work[w].want
           /\ At(w, "track") /\ u = work[w].reply.uid => slices'[u].content <= work[w].want
<1>1. JobRecent(w) /\ Busy(w) /\ work[w].want \in Nat
  BY Typed DEF Recent, Informed, Busy, At
<1>2. CASE slices'[u] = slices[u]
  <2>1. ASSUME Ours(u)', ~Ours(u) PROVE slices[u].content <= work[w].want
    <3>1. PICK v \in Worker :
            Track(v) /\ slices[u].service = work[v].service /\ u = work[v].reply.uid
      BY <1>2, <2>1, OursMoves
    <3>2. v = w /\ At(w, "track")
      BY <1>1, <1>2, <3>1 DEF OneWorkerPerService, Busy, Track, At
    <3> QED
      BY <1>1, <1>2, <3>1, <3>2 DEF JobRecent, At
  <2> QED
    BY <1>1, <1>2, <2>1 DEF JobRecent, At
<1>3. ASSUME NEW v \in Worker, At(v, "call"), slices'[u].service = work[v].service,
             slices'[u].content = work[v].want
      PROVE  slices'[u].content <= work[w].want
  <2>1. v = w
    BY <1>1, <1>3 DEF OneWorkerPerService, Busy, At
  <2> QED
    BY <1>1, <1>3, <2>1
<1> QED
  BY <1>2, <1>3, ContentMoves

LEMMA JobRecentStep ==
    ASSUME TypeOK, TypeOK', OneWorkerPerService, Knowing, Knowing', Recent, [Next]_vars,
           ~Failover, NEW w \in Worker, Informed(w)'
    PROVE  JobRecent(w)'
<1> DEFINE s == work[w].service
<1>1. /\ work \in [Worker -> Job] /\ work[w] \in Job /\ s \in Service
      /\ work[w].want \in Nat /\ want[s] \in Nat /\ want'[s] \in Nat /\ want[s] <= want'[s]
  BY Typed, TypedNext, PodsGoOn DEF TypeOK
<1>2. ASSUME Informed(w), work'[w].service = s, work'[w].want = work[w].want,
             work'[w].pc = "track" =>
               \/ At(w, "track") /\ work'[w] = work[w]
               \/ slices'[work'[w].reply.uid] = NoSlice
               \/ /\ slices'[work'[w].reply.uid].service = s
                  /\ slices'[work'[w].reply.uid].content = work[w].want
      PROVE  JobRecent(w)'
  <2>1. JobRecent(w)
    BY <1>2 DEF Recent
  <2>2. work[w].want <= want'[s]
    BY <1>1, <2>1 DEF JobRecent
  <2>3. \A u \in SliceId : slices'[u] # NoSlice /\ slices'[u].service = s /\ Ours(u)'
                             => slices'[u].content <= work[w].want
    BY <1>2, AheadLasts
  <2>4. ASSUME At(w, "track"), work'[w] = work[w], slices'[work[w].reply.uid] # NoSlice
        PROVE  /\ slices'[work[w].reply.uid].service = s
               /\ slices'[work[w].reply.uid].content <= work[w].want
    <3> DEFINE u == work[w].reply.uid
    <3>1. u \in SliceId /\ u <= used
      BY <1>1, <2>4 DEF Job, Knowing, Syncing, JobOK, At
    <3>2. slices[u] # NoSlice /\ slices'[u].service = slices[u].service
      BY <2>4, <3>1, StepLasts DEF Lasting
    <3>3. slices'[u].service = s
      BY <2>1, <2>4, <3>2 DEF JobRecent, At
    <3> QED
      BY <1>2, <2>4, <3>1, <3>3, AheadLasts
  <2> QED
    BY <1>1, <1>2, <2>2, <2>3, <2>4 DEF JobRecent
<1>3. CASE work'[w] = work[w]
  BY <1>2, <1>3 DEF Informed, At
<1>4. CASE GetService(w)
  <2>1. work'[w].pc = "pods"
    BY <1>1, <1>4 DEF GetService, Job
  <2> QED
    BY <2>1 DEF Informed
<1>5. CASE ListPods(w)
  <2>1. work'[w] = [work[w] EXCEPT !.want = want[s], !.pc = "slices"] /\ want' = want
    BY <1>1, <1>5 DEF ListPods, desired
  <2>2. work'[w].service = s /\ work'[w].want = want[s] /\ work'[w].pc = "slices"
    BY <1>1, <2>1 DEF Job
  <2>3. \A u \in SliceId : slices'[u] # NoSlice /\ Ours(u)'
                             => slices'[u].content <= want'[slices'[u].service]
    BY OursRecent
  <2> QED
    BY <1>1, <2>1, <2>2, <2>3 DEF JobRecent
<1>6. CASE ListSlices(w)
  <2>1. work'[w] = [work[w] EXCEPT !.listed = List(s, cache), !.pc = "check"]
    BY <1>1, <1>6 DEF ListSlices
  <2>2. /\ work'[w].service = s /\ work'[w].want = work[w].want /\ work'[w].pc = "check"
        /\ Informed(w)
    BY <1>1, <1>6, <2>1 DEF ListSlices, Job, Informed, At
  <2> QED
    BY <1>2, <2>2
<1>7. CASE Reconcile(w)
  <2>1. PICK planned \in Plans(w) : work'[w] = planned
    BY <1>1, <1>7 DEF Reconcile
  <2>2. /\ planned.service = s /\ planned.want = work[w].want /\ planned.pc = "call"
        /\ Informed(w)
    BY <1>7, PlanFacts DEF Reconcile, Informed, At
  <2> QED
    BY <1>2, <2>1, <2>2
<1>8. CASE Track(w)
  <2>1. work'[w] = [work[w] EXCEPT !.pc = "call"]
    BY <1>1, <1>8 DEF Track, GoTo
  <2>2. /\ work'[w].service = s /\ work'[w].want = work[w].want /\ work'[w].pc = "call"
        /\ Informed(w)
    BY <1>1, <1>8, <2>1 DEF Track, Job, Informed, At
  <2> QED
    BY <1>2, <2>2
<1>9. CASE Calls(w)
  <2> DEFINE u == work'[w].reply.uid
  <2>1. /\ At(w, "call") /\ work'[w].service = s /\ work'[w].want = work[w].want
        /\ \/ CreateSlice(w) /\ u = used + 1
           \/ \E v \in SliceId : UpdateSlice(w, v) /\ u = v
           \/ \E v \in SliceId : DeleteSlice(w, v) /\ u = v
    BY <1>9, CallLeaves DEF Informed, Syncing
  <2>2. CASE CreateSlice(w) /\ u = used + 1
    BY <1>2, <2>1, <2>2, CreationKnows DEF Informed, At
  <2>3. ASSUME NEW v \in SliceId, UpdateSlice(w, v), u = v
        PROVE  slices'[u].service = s /\ slices'[u].content = work[w].want
    BY <2>3, UpdateKnows
  <2>4. ASSUME NEW v \in SliceId, DeleteSlice(w, v), u = v
        PROVE  slices'[u] = NoSlice
    BY <2>4 DEF DeleteSlice, Erase, TypeOK, Stored
  <2> QED
    BY <1>2, <2>1, <2>2, <2>3, <2>4 DEF Informed, At
<1> QED
  BY <1>3, <1>4, <1>5, <1>6, <1>7, <1>8, <1>9, WorkerMoves DEF Informed, Syncing

LEMMA RecentStep ==
    ASSUME TypeOK, TypeOK', OneWorkerPerService, Knowing, Knowing', Recent, [Next]_vars
    PROVE  Recent'
<1>1. CASE Failover
  <2>1. \A w \in Worker : ~Informed(w)'
    BY <1>1, IdleTyped DEF Failover, Informed
  <2> QED
    BY <1>1, <2>1, NothingOurs DEF Recent
<1>2. CASE ~Failover
  BY <1>2, OursRecent, JobRecentStep DEF Recent
<1> QED
  BY <1>1, <1>2

LEMMA InitRecent == Init => Recent
<1> SUFFICES ASSUME Init PROVE Recent
  OBVIOUS
<1>1. (\A w \in Worker : work[w].pc = "idle") /\ \A u \in SliceId : slices[u] = NoSlice
  BY IdleTyped DEF Init
<1> QED
  BY <1>1 DEF Recent, Informed

LEMMA Forward ==
    ASSUME TypeOK, TypeOK', OneWorkerPerService, Knowing, Recent, [Next]_vars,
           NEW u \in SliceId, slices[u] # NoSlice, slices'[u] # NoSlice, Ours(u)
    PROVE  slices[u].content <= slices'[u].content
<1>1. slices[u].content \in Nat
  BY Typed
<1>2. CASE slices'[u] = slices[u]
  BY <1>1, <1>2
<1>3. ASSUME NEW w \in Worker, At(w, "call"), slices'[u].service = work[w].service,
             slices'[u].content = work[w].want
      PROVE  slices[u].content <= slices'[u].content
  <2>1. slices[u].service = work[w].service
    BY <1>3, StepLasts DEF Lasting, Knowing, SlicesOK
  <2> QED
    BY <1>3, <2>1 DEF Recent, Informed, JobRecent, At
<1> QED
  BY <1>2, <1>3, ContentMoves

\* A slice that the process has written never goes back to an earlier state of
\* the pods, for any number of workers, syncs, retries and takeovers, also when
\* the process that takes over has seen less of the pods: the sync that writes
\* it is the only one of its service (the work queue) and has read the pods
\* after the last one did.
THEOREM NeverGoesBack == Spec => NeverBack
<1> DEFINE IInv == TypeOK /\ OneWorkerPerService /\ Knowing /\ Recent
           Back == \A u \in SliceId : slices[u] # NoSlice /\ slices'[u] # NoSlice /\ Ours(u)
                                        => slices'[u].content >= slices[u].content
<1>1. Init => IInv
  BY InitKnowing, InitMutual, InitRecent
<1>2. IInv /\ [Next]_vars => IInv'
  <2> SUFFICES ASSUME IInv, [Next]_vars PROVE IInv'
    OBVIOUS
  <2>1. TypeOK' /\ OneWorkerPerService' /\ Knowing'
    BY Step, KnowingStep
  <2> QED
    BY <2>1, RecentStep
<1>3. IInv /\ [Next]_vars => [Back]_vars
  <2> SUFFICES ASSUME IInv, [Next]_vars PROVE Back
    OBVIOUS
  <2>1. TypeOK'
    BY Step
  <2>2. \A u \in SliceId : slices[u] # NoSlice /\ slices'[u] # NoSlice
           => slices[u].content \in Nat /\ slices'[u].content \in Nat
    BY <2>1, Typed, TypedNext DEF EndpointSlice
  <2> QED
    BY <2>1, <2>2, Forward
<1>4. Back => \A u \in SliceId : slices[u] # NoSlice /\ slices'[u] # NoSlice /\ Ours(u)
                                   => slices'[u].content >= slices[u].content
  OBVIOUS
<1> QED
  BY <1>1, <1>2, <1>3, <1>4, PTL DEF Spec, NeverBack
-----------------------------------------------------------------------------
(***************************************************************************)
(* What a sync may count on when nothing interferes: no reply was lost, no *)
(* process taken over and no slice removed by others.  Then a slice that   *)
(* is listed is still there as long as its owner is, so what a plan keeps  *)
(* or updates it finds, and what it deletes nobody needs.                  *)
(***************************************************************************)
Orderly == Reliable /\ mishaps["removed"] = 0

\* A slice of a service that exists, and owned by it.
Current(u) ==
    /\ slices[u] # NoSlice /\ alive[slices[u].service]
    /\ slices[u].owner = incarnation[slices[u].service]

\* "slice" is an earlier state of UID u, which is not gone while its owner exists.
Vouched(u, slice) ==
    /\ slice.owner <= incarnation[slice.service]
    /\ Orderly /\ slices[u] # NoSlice => slice.content <= slices[u].content
    /\ Orderly /\ alive[slice.service] /\ slice.owner = incarnation[slice.service]
         => slices[u] # NoSlice

ListVouched(w) ==
    \A u \in SliceId : work[w].listed[u] # NoSlice => Vouched(u, work[w].listed[u])

\* What is still to be deleted is none that the service needs ...
Spared(w) ==
    \A u \in work[w].deletes :
      /\ u <= used
      /\ slices[u] # NoSlice => slices[u].service = work[w].service /\ (Orderly => ~Current(u))

\* ... and what it needs is there, or to be written.
Provided(w) ==
    LET s == work[w].service
    IN  Orderly /\ alive[s] /\ work[w].owner = incarnation[s] =>
          \/ work[w].create
          \/ \E u \in Owned(s) : slices[u].content = work[w].want \/ u \in work[w].updates

CacheVouched == \A u \in SliceId : cache[u] # NoSlice => Vouched(u, cache[u])

WatchVouched ==
    \A i \in DOMAIN watch : ~watch[i].gone => Vouched(watch[i].uid, watch[i].slice)

JobVouched(w) ==
    /\ At(w, "check") => ListVouched(w)
    /\ At(w, "call") \/ At(w, "track") => Spared(w) /\ Provided(w)

Confirmed == CacheVouched /\ WatchVouched /\ \A w \in Worker : JobVouched(w)

\* What is there stays as long as it is needed, and does not go back.
Steady ==
    /\ Lasting /\ Growing
    /\ \A s \in Service : alive'[s] => alive[s] \/ incarnation[s] < incarnation'[s]
    /\ Orderly' =>
         /\ Orderly
         /\ \A u \in SliceId : slices[u] # NoSlice /\ slices'[u] # NoSlice
                                 => slices[u].content <= slices'[u].content
         /\ \A u \in SliceId : Current(u) => slices'[u] # NoSlice

\* A service that comes back has a UID of its own.
LEMMA NewUid ==
    ASSUME TypeOK, [Next]_vars
    PROVE  /\ Growing
           /\ \A s \in Service : alive'[s] => alive[s] \/ incarnation[s] < incarnation'[s]
<1>1. /\ incarnation \in [Service -> 1..MaxIncarnation] /\ alive \in [Service -> BOOLEAN]
      /\ \A s \in Service : incarnation[s] \in Nat
  BY Typed DEF TypeOK
<1>2. ASSUME UNCHANGED <<alive, incarnation>>
      PROVE  /\ Growing
             /\ \A s \in Service : alive'[s] => alive[s] \/ incarnation[s] < incarnation'[s]
  BY <1>1, <1>2 DEF Growing
<1>3. ASSUME NEW s \in Service, ServiceCreated(s) \/ ServiceDeleted(s)
      PROVE  /\ Growing
             /\ \A t \in Service : alive'[t] => alive[t] \/ incarnation[t] < incarnation'[t]
  <2>1. CASE ServiceCreated(s)
    BY <1>1, <2>1 DEF ServiceCreated, Growing
  <2>2. CASE ServiceDeleted(s)
    BY <1>1, <2>2 DEF ServiceDeleted, Growing
  <2> QED
    BY <1>3, <2>1, <2>2
<1>4. ASSUME NEW s \in Service, OnServiceUpdate(s) \/ PodChanged(s) \/ DelayOver(s)
      PROVE  UNCHANGED <<alive, incarnation>>
  BY <1>4 DEF OnServiceUpdate, PodChanged, DelayOver, desired
<1>5. ASSUME NEW u \in SliceId, Removed(u) \/ GarbageCollected(u)
      PROVE  UNCHANGED <<alive, incarnation>>
  BY <1>5 DEF Removed, GarbageCollected, desired
<1>6. ASSUME InformerStep \/ Failover \/ UNCHANGED vars
      PROVE  UNCHANGED <<alive, incarnation>>
  BY <1>6 DEF InformerStep, Receive, Relist, OnEndpointSliceUpdate, OnEndpointSliceDelete,
              Failover, vars, desired
<1>7. ASSUME NEW w \in Worker, WorkerStep(w)
      PROVE  UNCHANGED <<alive, incarnation>>
  BY <1>7 DEF WorkerStep, Get, ServiceNotFound, GetService, ListPods, ListSlices, Stale,
              Reconcile, CreateSlice, Track, Finalized, HandleErr, CallFails, UpdateSlice,
              DeleteSlice, desired
<1> QED
  BY <1>2, <1>3, <1>4, <1>5, <1>6, <1>7 DEF Next

LEMMA StaysOrderly ==
    ASSUME TypeOK, [Next]_vars, Orderly'
    PROVE  Orderly /\ \A u \in SliceId : ~Removed(u)
<1>1. mishaps \in [Mishaps -> Nat] /\ "removed" \in Mishaps
  BY DEF TypeOK, Mishaps
<1>2. Reliable
  BY StaysReliable DEF Orderly
<1>3. \A kind \in Mishaps : Mishap(kind) => mishaps["removed"] <= mishaps'["removed"]
  BY <1>1 DEF Mishap
<1>4. Mishap("removed") => mishaps'["removed"] # 0
  BY <1>1 DEF Mishap
<1>5. UNCHANGED mishaps \/ \E kind \in Mishaps : Mishap(kind)
  BY MishapMoves
<1>6. mishaps'["removed"] = 0 /\ mishaps["removed"] \in Nat
  BY <1>1 DEF Orderly
<1>7. mishaps["removed"] = 0
  BY <1>1, <1>3, <1>5, <1>6
<1> QED
  BY <1>2, <1>4, <1>6, <1>7 DEF Orderly, Removed

\* A slice that is needed is not deleted: not by the garbage collector, and not
\* by a sync.
LEMMA CurrentStays ==
    ASSUME TypeOK, TypeOK', OneWorkerPerService, Knowing, Confirmed, [Next]_vars, Orderly',
           NEW u \in SliceId, Current(u)
    PROVE  slices'[u] # NoSlice
<1>1. slices \in Stored /\ Orderly
  BY StaysOrderly DEF TypeOK
<1>2. ASSUME NEW v \in SliceId, GarbageCollected(v) PROVE slices'[u] = slices[u]
  <2>1. v # u
    BY <1>2 DEF GarbageCollected, Current
  <2> QED
    BY <1>1, <1>2, <2>1 DEF GarbageCollected, Erase, Stored
<1>3. ASSUME NEW w \in Worker, Calls(w), slices'[u] = NoSlice PROVE FALSE
  <2>1. DeleteSlice(w, u)
    BY <1>3, CallFacts DEF Current
  <2>2. At(w, "call") /\ u \in work[w].deletes
    BY <2>1 DEF DeleteSlice
  <2> QED
    BY <1>1, <2>2 DEF Confirmed, JobVouched, Spared, Current
<1>4. InformerStep => UNCHANGED slices
  BY DEF InformerStep, Receive, Relist, OnEndpointSliceUpdate, OnEndpointSliceDelete, server
<1> QED
  BY <1>2, <1>3, <1>4, AllKinds, StaysOrderly DEF Current

LEMMA SteadyStep ==
    ASSUME TypeOK, TypeOK', OneWorkerPerService, Knowing, Recent, Confirmed, [Next]_vars
    PROVE  Steady
<1>1. ASSUME Orderly', NEW u \in SliceId, slices[u] # NoSlice, slices'[u] # NoSlice
      PROVE  slices[u].content <= slices'[u].content
  BY <1>1, StaysOrderly, Forward DEF Orderly, Reliable, Ours
<1> QED
  BY <1>1, NewUid, StaysOrderly, StepLasts, CurrentStays DEF Steady

\* Vouched after a step.
VouchedThen(u, slice) ==
    /\ slice.owner <= incarnation'[slice.service]
    /\ Orderly' /\ slices'[u] # NoSlice => slice.content <= slices'[u].content
    /\ Orderly' /\ alive'[slice.service] /\ slice.owner = incarnation'[slice.service]
         => slices'[u] # NoSlice

LEMMA VouchedLasts ==
    ASSUME TypeOK, TypeOK', Steady, NEW u \in SliceId, NEW slice \in EndpointSlice,
           Once(u, slice), Vouched(u, slice)
    PROVE  VouchedThen(u, slice)
<1> DEFINE s == slice.service
<1>1. /\ s \in Service /\ slice.owner \in Nat /\ slice.content \in Nat
      /\ incarnation[s] \in Nat /\ incarnation'[s] \in Nat
      /\ incarnation[s] <= incarnation'[s]
  <2>1. s \in Service /\ slice.owner \in Nat /\ slice.content \in Nat
    BY DEF EndpointSlice
  <2> QED
    BY <2>1, Typed, TypedNext DEF Steady, Growing
<1>2. slice.owner <= incarnation'[s]
  BY <1>1 DEF Vouched
<1>3. ASSUME Orderly', slices'[u] # NoSlice PROVE slice.content <= slices'[u].content
  <2>1. slices[u] # NoSlice
    BY <1>3 DEF Once, Steady, Lasting
  <2>2. slices[u].content \in Nat /\ slices'[u].content \in Nat
    BY <1>3, <2>1, Typed, TypedNext DEF EndpointSlice
  <2> QED
    BY <1>1, <1>3, <2>1, <2>2 DEF Vouched, Steady
<1>4. ASSUME Orderly', alive'[s], slice.owner = incarnation'[s] PROVE slices'[u] # NoSlice
  <2>1. incarnation[s] = incarnation'[s]
    BY <1>1, <1>4 DEF Vouched
  <2>2. alive[s] /\ Orderly
    BY <1>1, <1>4, <2>1 DEF Steady
  <2>3. slices[u] # NoSlice
    BY <1>4, <2>1, <2>2 DEF Vouched
  <2>4. Current(u)
    BY <1>4, <2>1, <2>2, <2>3 DEF Current, Once
  <2> QED
    BY <1>4, <2>4 DEF Steady
<1> QED
  BY <1>2, <1>3, <1>4 DEF VouchedThen

\* What is there vouches for itself.
LEMMA ThereVouched ==
    ASSUME TypeOK', Knowing', NEW u \in SliceId, slices'[u] # NoSlice
    PROVE  VouchedThen(u, slices'[u])
<1>1. slices'[u].owner <= incarnation'[slices'[u].service]
  BY DEF Knowing, SlicesOK
<1>2. slices'[u].content \in Nat
  BY TypedNext DEF EndpointSlice
<1> QED
  BY <1>1, <1>2 DEF VouchedThen

\* An event that is added to the watch.
LEMMA WatchMore ==
    ASSUME TypeOK, TypeOK', Steady, Knowing, WatchVouched, NEW e \in Events,
           ~e.gone => VouchedThen(e.uid, e.slice),
           watch' = Append(watch, e)
    PROVE  WatchVouched'
<1>1. watch \in Seq(Events) /\ \A i \in DOMAIN watch : watch[i] \in Events
  BY DEF TypeOK
<1>2. ASSUME NEW i \in DOMAIN watch, ~watch[i].gone
      PROVE  VouchedThen(watch[i].uid, watch[i].slice)
  <2>1. watch[i].uid \in SliceId /\ watch[i].slice \in EndpointSlice
    BY <1>1 DEF Events
  <2>2. Once(watch[i].uid, watch[i].slice) /\ Vouched(watch[i].uid, watch[i].slice)
    BY <1>2 DEF Knowing, Reported, WatchVouched
  <2> QED
    BY <2>1, <2>2, VouchedLasts
<1>3. ASSUME NEW i \in DOMAIN watch', ~watch'[i].gone
      PROVE  VouchedThen(watch'[i].uid, watch'[i].slice)
  <2>1. (i \in DOMAIN watch /\ watch'[i] = watch[i]) \/ watch'[i] = e
    BY <1>1, Appended
  <2> QED
    BY <1>2, <1>3, <2>1
<1> QED
  BY <1>3 DEF WatchVouched, Vouched, VouchedThen

\* What the informer knows, and is going to know.
LEMMA InformerVouched ==
    ASSUME TypeOK, TypeOK', OneWorkerPerService, Knowing, Knowing', Recent, Confirmed,
           [Next]_vars
    PROVE  CacheVouched' /\ WatchVouched'
<1>1. /\ watch \in Seq(Events) /\ cache \in Stored /\ slices \in Stored /\ Steady
      /\ CacheVouched /\ WatchVouched
  BY SteadyStep DEF TypeOK, Confirmed
<1>2. ASSUME NEW u \in SliceId, cache[u] # NoSlice PROVE VouchedThen(u, cache[u])
  <2>1. cache[u] \in EndpointSlice
    BY <1>1, <1>2 DEF Stored
  <2> QED
    BY <1>1, <1>2, <2>1, VouchedLasts DEF Knowing, CacheOK, CacheVouched
<1>3. ASSUME NEW i \in DOMAIN watch, ~watch[i].gone
      PROVE  VouchedThen(watch[i].uid, watch[i].slice)
  <2>1. watch[i] \in Events
    BY <1>1
  <2>2. watch[i].uid \in SliceId /\ watch[i].slice \in EndpointSlice
    BY <2>1 DEF Events
  <2>3. Once(watch[i].uid, watch[i].slice) /\ Vouched(watch[i].uid, watch[i].slice)
    BY <1>1, <1>3 DEF Knowing, Reported, WatchVouched
  <2> QED
    BY <1>1, <2>2, <2>3, VouchedLasts
<1>4. cache' = cache => CacheVouched'
  BY <1>2 DEF CacheVouched, Vouched, VouchedThen
<1>5. watch' = watch => WatchVouched'
  BY <1>3 DEF WatchVouched, Vouched, VouchedThen
<1>6. CASE UNCHANGED <<watch, cache>>
  BY <1>4, <1>5, <1>6
<1>7. ASSUME NEW w \in Worker, Calls(w) PROVE CacheVouched' /\ WatchVouched'
  <2>1. CASE watch' = watch
    BY <1>4, <1>5, <1>7, <2>1, CallFacts
  <2>2. ASSUME NEW u \in SliceId, NEW slice \in EndpointSlice,
               slices'[u] # NoSlice, slices'[u] = slice,
               watch' = Append(watch, Event(u, FALSE, slice))
        PROVE  WatchVouched'
    <3>1. Event(u, FALSE, slice) \in Events /\ Event(u, FALSE, slice).uid = u
          /\ Event(u, FALSE, slice).slice = slice
      BY EventTyped
    <3> QED
      BY <1>1, <2>2, <3>1, ThereVouched, WatchMore
  <2>3. ASSUME NEW u \in SliceId, DeleteSlice(w, u),
               watch' = Append(watch, Event(u, TRUE, slices[u]))
        PROVE  WatchVouched'
    <3>1. slices[u] \in EndpointSlice
      BY <1>1, <2>3 DEF DeleteSlice, Stored
    <3>2. Event(u, TRUE, slices[u]) \in Events /\ Event(u, TRUE, slices[u]).gone
      BY <3>1, EventTyped
    <3> QED
      BY <1>1, <2>3, <3>2, WatchMore
  <2> QED
    BY <1>4, <1>7, <2>1, <2>2, <2>3, CallFacts
<1>8. ASSUME NEW u \in SliceId, Removed(u) \/ GarbageCollected(u)
      PROVE  CacheVouched' /\ WatchVouched'
  <2>1. slices[u] # NoSlice /\ Erase(u) /\ cache' = cache
    BY <1>8 DEF Removed, GarbageCollected, informer
  <2>2. slices[u] \in EndpointSlice
    BY <1>1, <2>1 DEF Stored
  <2>3. Event(u, TRUE, slices[u]) \in Events /\ Event(u, TRUE, slices[u]).gone
    BY <2>2, EventTyped
  <2> QED
    BY <1>1, <1>4, <2>1, <2>3, WatchMore DEF Erase
<1>9. CASE Receive
  <2> DEFINE e == Head(watch)
  <2>1. watch # << >> /\ e \in Events /\ e = watch[1] /\ 1 \in DOMAIN watch
    BY <1>1, <1>9 DEF Receive
  <2>2. e.uid \in SliceId /\ e.gone \in BOOLEAN /\ e.slice \in EndpointSlice
    BY <2>1 DEF Events
  <2>3. /\ cache' = [cache EXCEPT ![e.uid] = IF e.gone THEN NoSlice ELSE e.slice]
        /\ watch' = Tail(watch)
    BY <1>9 DEF Receive
  <2>4. ~e.gone => VouchedThen(e.uid, e.slice)
    BY <1>3, <2>1
  <2> HIDE DEF e
  <2>5. \A i \in DOMAIN watch' : i + 1 \in DOMAIN watch /\ watch'[i] = watch[i + 1]
    BY <1>1, <2>1, <2>3
  <2>6. WatchVouched'
    BY <1>3, <2>5 DEF WatchVouched, Vouched, VouchedThen
  <2>7. ASSUME NEW u \in SliceId, cache'[u] # NoSlice PROVE VouchedThen(u, cache'[u])
    <3>1. CASE u = e.uid
      BY <1>1, <2>2, <2>3, <2>4, <2>7, <3>1 DEF Stored
    <3>2. CASE u # e.uid
      BY <1>1, <1>2, <2>2, <2>3, <2>7, <3>2 DEF Stored
    <3> QED
      BY <3>1, <3>2
  <2> QED
    BY <2>6, <2>7 DEF CacheVouched, Vouched, VouchedThen
<1>10. CASE Relist
  <2>1. cache' = slices /\ slices' = slices /\ watch' = << >>
    BY <1>10 DEF Relist
  <2>2. \A u \in SliceId : cache'[u] # NoSlice => VouchedThen(u, cache'[u])
    BY <2>1, ThereVouched
  <2> QED
    BY <2>1, <2>2 DEF CacheVouched, WatchVouched, Vouched, VouchedThen
<1>11. CASE OnEndpointSliceUpdate \/ OnEndpointSliceDelete
  BY <1>6, <1>11 DEF OnEndpointSliceUpdate, OnEndpointSliceDelete, server
<1> QED
  BY <1>6, <1>7, <1>8, <1>9, <1>10, <1>11, AllKinds DEF InformerStep

\* No slice becomes one that a service needs, if it was there before.
LEMMA CurrentBefore ==
    ASSUME TypeOK, TypeOK', Knowing, Steady, NEW u \in SliceId, u <= used,
           slices'[u] # NoSlice, alive'[slices'[u].service],
           slices'[u].owner = incarnation'[slices'[u].service]
    PROVE  Current(u)
<1> DEFINE s == slices[u].service
<1>1. slices[u] # NoSlice /\ slices'[u].service = s /\ slices'[u].owner = slices[u].owner
  BY DEF Steady, Lasting
<1>2. slices[u].owner <= incarnation[s]
  BY <1>1 DEF Knowing, SlicesOK
<1>3. /\ s \in Service /\ slices[u].owner \in Nat
      /\ incarnation[s] \in Nat /\ incarnation'[s] \in Nat /\ incarnation[s] <= incarnation'[s]
  BY <1>1, Typed, TypedNext DEF Steady, Growing
<1>4. incarnation[s] = incarnation'[s]
  BY <1>1, <1>2, <1>3
<1> QED
  BY <1>1, <1>3, <1>4 DEF Current, Steady

\* What a plan deletes goes on being none that is needed.
LEMMA SparedLasts ==
    ASSUME TypeOK, TypeOK', Knowing, Steady, NEW w \in Worker, Spared(w),
           work'[w].service = work[w].service, work'[w].deletes \subseteq work[w].deletes
    PROVE  Spared(w)'
<1> SUFFICES ASSUME NEW u \in work[w].deletes
             PROVE  /\ u <= used'
                    /\ slices'[u] # NoSlice =>
                         slices'[u].service = work[w].service /\ (Orderly => ~Current(u))'
  BY DEF Spared
<1>1. work[w] \in Job /\ used \in Nat /\ used' \in Nat
  BY Typed, TypedNext
<1>2. u \in SliceId /\ u \in Nat
  BY <1>1 DEF Job, SliceId
<1>3. /\ u <= used
      /\ slices[u] # NoSlice => slices[u].service = work[w].service /\ (Orderly => ~Current(u))
  BY DEF Spared
<1>4. u <= used' /\ used <= used'
  BY <1>1, <1>2, <1>3 DEF Steady, Lasting
<1>5. ASSUME slices'[u] # NoSlice
      PROVE  slices'[u].service = work[w].service /\ (Orderly => ~Current(u))'
  <2>1. slices[u] # NoSlice /\ slices'[u].service = slices[u].service
    BY <1>2, <1>3, <1>5 DEF Steady, Lasting
  <2>2. Orderly' => Orderly
    BY DEF Steady
  <2>3. Current(u)' => Current(u)
    BY <1>2, <1>3, CurrentBefore DEF Current
  <2> QED
    BY <1>3, <2>1, <2>2, <2>3
<1> QED
  BY <1>4, <1>5

\* What the service needs goes on being there.
LEMMA ProvidedLasts ==
    ASSUME TypeOK, TypeOK', Knowing, Recent', Steady, NEW w \in Worker,
           Syncing(w), Informed(w)', Provided(w),
           work'[w].service = work[w].service, work'[w].owner = work[w].owner,
           work'[w].want = work[w].want,
           work[w].create => work'[w].create,
           \A u \in SliceId : u \in work[w].updates /\ slices'[u] # NoSlice
                                => u \in work'[w].updates \/ slices'[u].content = work[w].want
    PROVE  Provided(w)'
<1> DEFINE s == work[w].service
<1> SUFFICES ASSUME Orderly', alive'[s], work[w].owner = incarnation'[s], ~work'[w].create
             PROVE  \E u \in Owned(s)' : slices'[u].content = work[w].want
                                         \/ u \in work'[w].updates
  BY DEF Provided
<1>1. /\ s \in Service /\ work[w].owner \in Nat /\ work[w].want \in Nat
      /\ incarnation[s] \in Nat /\ incarnation'[s] \in Nat /\ incarnation[s] <= incarnation'[s]
      /\ work[w].owner <= incarnation[s]
  BY Typed, TypedNext DEF Steady, Growing, Knowing, JobOK
<1>2. Orderly /\ alive[s] /\ incarnation[s] = incarnation'[s] /\ ~work[w].create
  BY <1>1 DEF Steady
<1>3. PICK u \in Owned(s) : slices[u].content = work[w].want \/ u \in work[w].updates
  BY <1>2 DEF Provided
<1>4. /\ u \in SliceId /\ slices[u] # NoSlice /\ slices[u].service = s
      /\ slices[u].owner = incarnation[s] /\ Current(u)
  BY <1>2, <1>3 DEF Owned, Of, Current
<1>5. slices'[u] # NoSlice
  BY <1>4 DEF Steady
<1>6. slices'[u].service = s /\ slices'[u].owner = incarnation'[s]
  BY <1>2, <1>4, <1>5 DEF Steady, Lasting, Knowing, SlicesOK
<1>7. u \in Owned(s)'
  BY <1>4, <1>5, <1>6 DEF Owned, Of
<1>8. ASSUME slices[u].content = work[w].want PROVE slices'[u].content = work[w].want
  <2>1. work[w].want <= slices'[u].content
    BY <1>4, <1>5, <1>8 DEF Steady
  <2>2. slices'[u].content <= work[w].want
    BY <1>4, <1>5, <1>6 DEF Recent, JobRecent, Ours, Orderly, Reliable
  <2>3. slices'[u].content \in Nat
    BY <1>4, <1>5, TypedNext DEF EndpointSlice
  <2> QED
    BY <1>1, <2>1, <2>2, <2>3
<1> QED
  BY <1>3, <1>4, <1>5, <1>7, <1>8

\* How a plan is chosen: which slice it keeps, if the list has one of the
\* service's own, and that it deletes the others.
LEMMA PlanChoice ==
    ASSUME TypeOK, NEW w \in Worker, NEW planned \in Plans(w)
    PROVE  \/ /\ planned.create
              /\ \A u \in Listed(work[w].listed) : work[w].listed[u].owner # work[w].owner
           \/ \E u \in Listed(work[w].listed) :
                /\ work[w].listed[u].owner = work[w].owner
                /\ work[w].listed[u].content = work[w].want \/ u \in planned.updates
                /\ u \notin planned.deletes
<1> DEFINE listed == work[w].listed
           owned  == {u \in Listed(listed) : listed[u].owner = work[w].owner}
           right  == {u \in owned : listed[u].content = work[w].want}
           plan(create, updates, kept) ==
               [work[w] EXCEPT !.create = create, !.updates = updates,
                               !.deletes = Listed(listed) \ kept,
                               !.listed = Nothing, !.pc = "call"]
<1>1. work[w] \in Job
  BY Typed
<1>2. \/ right # {} /\ planned \in {plan(FALSE, {}, {u}) : u \in right}
      \/ owned # {} /\ planned \in {plan(FALSE, {u}, {u}) : u \in owned}
      \/ owned = {} /\ planned = plan(TRUE, {}, {})
  BY DEF Plans
<1>3. ASSUME NEW u \in right, planned = plan(FALSE, {}, {u})
      PROVE  u \notin planned.deletes
  BY <1>1, <1>3 DEF Job
<1>4. ASSUME NEW u \in owned, planned = plan(FALSE, {u}, {u})
      PROVE  u \notin planned.deletes /\ u \in planned.updates
  BY <1>1, <1>4 DEF Job
<1>5. ASSUME planned = plan(TRUE, {}, {}) PROVE planned.create
  BY <1>1, <1>5 DEF Job
<1> QED
  BY <1>2, <1>3, <1>4, <1>5

\* A plan made of a list that can be trusted.
LEMMA PlanVouched ==
    ASSUME TypeOK, OneWorkerPerService, Knowing, Recent, Reliable => Counted, Confirmed,
           NEW w \in Worker, At(w, "check"), NEW planned \in Plans(w)
    PROVE  /\ \A u \in planned.deletes :
                /\ u <= used
                /\ slices[u] # NoSlice =>
                     slices[u].service = work[w].service /\ (Orderly => ~Current(u))
           /\ LET s == work[w].service
              IN  Orderly /\ alive[s] /\ work[w].owner = incarnation[s] =>
                    \/ planned.create
                    \/ \E u \in Owned(s) : slices[u].content = work[w].want
                                           \/ u \in planned.updates
<1> DEFINE s == work[w].service
           listed == work[w].listed
<1>1. /\ work[w] \in Job /\ s \in Service /\ work[w].owner \in Nat /\ work[w].want \in Nat
      /\ incarnation[s] \in Nat /\ work[w].owner <= incarnation[s]
  BY Typed DEF Knowing, Syncing, JobOK, At
<1>2. ASSUME NEW u \in Listed(listed)
      PROVE  /\ u \in SliceId /\ u <= used /\ listed[u].service = s
             /\ listed[u].owner \in Nat /\ listed[u].content \in Nat
             /\ Once(u, listed[u]) /\ Vouched(u, listed[u])
  <2>1. u \in SliceId /\ listed[u] # NoSlice /\ listed[u] \in EndpointSlice
    BY <1>1 DEF Listed, Job, Stored
  <2>2. Once(u, listed[u]) /\ listed[u].service = s
    BY <2>1 DEF Knowing, Syncing, JobOK, At
  <2>3. Vouched(u, listed[u])
    BY <2>1 DEF Confirmed, JobVouched, ListVouched
  <2> QED
    BY <2>1, <2>2, <2>3 DEF Once, EndpointSlice
\* A slice of the list that the service owns is there.
<1>3. ASSUME NEW u \in Listed(listed), Orderly, alive[s], listed[u].owner = incarnation[s]
      PROVE  u \in Owned(s)
  BY <1>2, <1>3 DEF Vouched, Once, Owned, Of
<1>4. planned.deletes \subseteq Listed(listed)
  BY PlanFacts
<1>5. ASSUME NEW u \in planned.deletes, Orderly, Current(u) PROVE FALSE
  <2>1. /\ u \in Listed(listed) /\ slices[u].service = s /\ alive[s]
        /\ listed[u].owner = incarnation[s] /\ slices[u].owner = incarnation[s]
    BY <1>2, <1>4, <1>5 DEF Current, Once
  <2>2. work[w].owner = incarnation[s]
    BY <1>1, <1>2, <1>5, <2>1 DEF Knowing, Syncing, JobOK, At, Current
  <2>3. PICK v \in Listed(listed) : listed[v].owner = work[w].owner /\ v \notin planned.deletes
    BY <2>1, <2>2, PlanChoice
  <2>4. u \in Owned(s) /\ v \in Owned(s)
    BY <1>3, <1>5, <2>1, <2>2, <2>3
  <2>5. u = v
    BY <1>1, <1>5, <2>4 DEF Orderly, Counted, Single
  <2> QED
    BY <1>5, <2>3, <2>5
<1>6. ASSUME Orderly, alive[s], work[w].owner = incarnation[s], ~planned.create
      PROVE  \E u \in Owned(s) : slices[u].content = work[w].want \/ u \in planned.updates
  <2>1. PICK u \in Listed(listed) :
          /\ listed[u].owner = work[w].owner
          /\ listed[u].content = work[w].want \/ u \in planned.updates
    BY <1>6, PlanChoice
  <2>2. u \in Owned(s)
    BY <1>3, <1>6, <2>1
  <2>3. ASSUME listed[u].content = work[w].want PROVE slices[u].content = work[w].want
    <3>1. u \in SliceId /\ slices[u] # NoSlice /\ slices[u].service = s /\ slices[u].content \in Nat
      BY <2>2, Typed DEF Owned, Of
    <3>2. work[w].want <= slices[u].content
      BY <1>2, <1>6, <2>3, <3>1 DEF Vouched
    <3>3. slices[u].content <= work[w].want
      BY <1>6, <3>1 DEF Recent, Informed, JobRecent, Ours, Orderly, Reliable, At
    <3> QED
      BY <1>1, <3>1, <3>2, <3>3
  <2> QED
    BY <2>1, <2>2, <2>3
<1> QED
  BY <1>2, <1>4, <1>5, <1>6 DEF Once

\* Each sync goes on knowing what it may count on.
LEMMA JobStep ==
    ASSUME TypeOK, TypeOK', OneWorkerPerService, Knowing, Knowing', Recent, Recent',
           Reliable => Counted, Confirmed, [Next]_vars, NEW w \in Worker, Syncing(w)'
    PROVE  JobVouched(w)'
<1> DEFINE s == work[w].service
<1>1. /\ work \in [Worker -> Job] /\ work[w] \in Job /\ s \in Service /\ Steady
      /\ JobVouched(w)
  BY Typed, SteadyStep DEF TypeOK, Confirmed
<1>2. CASE work'[w] = work[w]
  <2>1. Syncing(w)
    BY <1>2 DEF Syncing
  <2>2. ASSUME At(w, "check"), NEW u \in SliceId, work[w].listed[u] # NoSlice
        PROVE  VouchedThen(u, work[w].listed[u])
    <3>1. work[w].listed[u] \in EndpointSlice
      BY <1>1, <2>2 DEF Job, Stored
    <3>2. Once(u, work[w].listed[u])
      BY <2>1, <2>2 DEF Knowing, JobOK, At
    <3> QED
      BY <1>1, <2>2, <3>1, <3>2, VouchedLasts DEF JobVouched, ListVouched
  <2>3. (At(w, "check") => ListVouched(w))'
    BY <1>2, <2>2 DEF At, ListVouched, Vouched, VouchedThen
  <2>4. ASSUME At(w, "call") \/ At(w, "track") PROVE Spared(w)' /\ Provided(w)'
    BY <1>1, <1>2, <2>1, <2>4, SparedLasts, ProvidedLasts DEF JobVouched, Informed, At
  <2> QED
    BY <1>2, <2>3, <2>4 DEF JobVouched, At
<1>3. CASE GetService(w) \/ ListPods(w)
  <2>1. work'[w].pc \in {"pods", "slices"}
    BY <1>1, <1>3 DEF GetService, ListPods, Job
  <2> QED
    BY <2>1 DEF JobVouched, At
<1>4. CASE ListSlices(w)
  <2>1. work'[w] = [work[w] EXCEPT !.listed = List(s, cache), !.pc = "check"]
    BY <1>1, <1>4 DEF ListSlices
  <2>2. work'[w].pc = "check" /\ work'[w].listed = List(s, cache)
    BY <1>1, <2>1 DEF Job
  <2>3. UNCHANGED <<alive, incarnation, slices, cache, mishaps>>
    BY <1>4 DEF ListSlices, desired, server, informer
  <2>4. ASSUME NEW u \in SliceId, List(s, cache)[u] # NoSlice
        PROVE  /\ List(s, cache)[u] = cache[u] /\ cache[u] # NoSlice
               /\ cache[u].service = s
    BY <2>4 DEF List, Of
  <2>5. ListVouched(w)'
    BY <2>2, <2>3, <2>4 DEF ListVouched, Confirmed, CacheVouched, Vouched, Orderly, Reliable
  <2> QED
    BY <2>2, <2>5 DEF JobVouched, At
<1>5. CASE Reconcile(w)
  <2>1. At(w, "check")
    BY <1>5 DEF Reconcile
  <2>2. PICK planned \in Plans(w) : work'[w] = planned
    BY <1>1, <1>5 DEF Reconcile
  <2>3. /\ planned.service = s /\ planned.pc = "call"
        /\ planned.owner = work[w].owner /\ planned.want = work[w].want
    BY PlanFacts
  <2>4. UNCHANGED <<alive, incarnation, slices, used, mishaps>>
    BY <1>5 DEF Reconcile, desired, server
  <2>5. Spared(w)'
    BY <2>1, <2>2, <2>3, <2>4, PlanVouched DEF Spared, Current, Orderly, Reliable
  <2>6. Provided(w)'
    BY <2>1, <2>2, <2>3, <2>4, PlanVouched DEF Provided, Owned, Of, Orderly, Reliable
  <2> QED
    BY <2>2, <2>3, <2>5, <2>6 DEF JobVouched, At
<1>6. CASE Track(w)
  <2>1. At(w, "track") /\ work'[w] = [work[w] EXCEPT !.pc = "call"]
    BY <1>1, <1>6 DEF Track, GoTo
  <2>2. /\ work'[w].service = s /\ work'[w].pc = "call"
        /\ work'[w].owner = work[w].owner /\ work'[w].want = work[w].want
        /\ work'[w].deletes = work[w].deletes /\ work'[w].updates = work[w].updates
        /\ work'[w].create = work[w].create
    BY <1>1, <2>1 DEF Job
  <2>3. Spared(w)' /\ Provided(w)'
    BY <1>1, <2>1, <2>2, SparedLasts, ProvidedLasts DEF JobVouched, Syncing, Informed, At
  <2> QED
    BY <2>2, <2>3 DEF JobVouched, At
<1>7. CASE Calls(w)
  <2>1. /\ At(w, "call") /\ work'[w].pc = "track" /\ work'[w].service = s
        /\ work'[w].owner = work[w].owner /\ work'[w].want = work[w].want
        /\ work'[w].deletes \subseteq work[w].deletes
        /\ \/ CreateSlice(w)
           \/ \E u \in SliceId : UpdateSlice(w, u) /\ work'[w].updates = work[w].updates \ {u}
           \/ \E u \in SliceId : DeleteSlice(w, u) /\ work'[w].updates = work[w].updates
    BY <1>7, CallLeaves
  <2>2. Syncing(w) /\ Spared(w)' /\ Provided(w)
    BY <1>1, <2>1, SparedLasts DEF JobVouched, Syncing, At
  <2>3. CASE CreateSlice(w)
    <3> DEFINE u == used + 1
    <3>1. /\ u \in SliceId /\ slices'[u] # NoSlice /\ slices'[u].service = s
          /\ slices'[u].owner = work[w].owner /\ slices'[u].content = work[w].want
      BY <2>3, CreationKnows DEF CreateSlice
    <3>2. ASSUME work[w].owner = incarnation'[s] PROVE u \in Owned(s)'
      BY <2>1, <3>1, <3>2 DEF Owned, Of
    <3> HIDE DEF u
    <3>3. Provided(w)'
      BY <2>1, <3>1, <3>2 DEF Provided
    <3> QED
      BY <2>1, <2>2, <3>3 DEF JobVouched, At
  <2>4. ASSUME NEW u \in SliceId, UpdateSlice(w, u), work'[w].updates = work[w].updates \ {u}
        PROVE  Provided(w)'
    <3>1. slices'[u].content = work[w].want /\ ~work[w].create
      BY <2>4, UpdateKnows DEF UpdateSlice
    <3> QED
      BY <1>1, <2>1, <2>2, <2>4, <3>1, ProvidedLasts DEF Informed
  <2>5. ASSUME NEW u \in SliceId, DeleteSlice(w, u), work'[w].updates = work[w].updates
        PROVE  Provided(w)'
    <3>1. ~work[w].create
      BY <2>5 DEF DeleteSlice
    <3> QED
      BY <1>1, <2>1, <2>2, <2>5, <3>1, ProvidedLasts DEF Informed
  <2> QED
    BY <2>1, <2>2, <2>3, <2>4, <2>5 DEF JobVouched, At
<1> QED
  BY <1>2, <1>4, <1>5, <1>6, <1>7, <1>3, WorkerMoves

LEMMA ConfirmedStep ==
    ASSUME TypeOK, TypeOK', OneWorkerPerService, Knowing, Knowing', Recent, Recent',
           Reliable => Counted, Confirmed, [Next]_vars
    PROVE  Confirmed'
<1>1. CacheVouched' /\ WatchVouched'
  BY InformerVouched
<1>2. ASSUME NEW w \in Worker PROVE JobVouched(w)'
  <2>1. CASE Syncing(w)'
    BY <2>1, JobStep
  <2>2. CASE ~Syncing(w)'
    BY <2>2 DEF Syncing, JobVouched, At
  <2> QED
    BY <2>1, <2>2
<1> QED
  BY <1>1, <1>2 DEF Confirmed

\* Only a plan with nothing left ends a sync well.
LEMMA EndsWell ==
    ASSUME TypeOK, [Next]_vars, NEW w \in Worker, At(w, "call"), work'[w].pc = "ok"
    PROVE  ~work[w].create /\ work[w].updates = {}
<1>1. work \in [Worker -> Job] /\ work'[w] # work[w]
  BY DEF TypeOK, At
<1>2. ~Failover
  BY <1>1, IdleTyped DEF Failover
<1>3. Finalized(w)
  <2>1. ~Calls(w)
    <3> SUFFICES ASSUME Calls(w) PROVE FALSE
      OBVIOUS
    <3>1. ASSUME NEW rest \in Job, NEW u, NEW generation, Replied(w, rest, u, generation)
          PROVE  FALSE
      <4>1. CASE GoTo(w, "error")
        BY <1>1, <4>1 DEF GoTo, Job
      <4>2. ASSUME work' = [work EXCEPT ![w] = [rest EXCEPT !.pc = "track",
                                !.reply = [uid |-> u, generation |-> generation]]]
            PROVE  FALSE
        BY <1>1, <4>2 DEF Job
      <4> QED
        BY <3>1, <4>1, <4>2 DEF Replied
    <3>2. /\ [work[w] EXCEPT !.create = FALSE] \in Job
          /\ \A u \in SliceId : /\ [work[w] EXCEPT !.updates = @ \ {u}] \in Job
                                /\ [work[w] EXCEPT !.deletes = @ \ {u}] \in Job
      BY <1>1 DEF Job
    <3> QED
      BY <3>1, <3>2 DEF Calls, CreateSlice, UpdateSlice, DeleteSlice
  <2>2. ~CallFails(w)
    BY <1>1 DEF CallFails, GoTo, Job
  <2> QED
    BY <1>1, <1>2, <2>1, <2>2, OwnStep DEF WorkerStep, Calls, At, Get, ServiceNotFound,
                                           GetService, ListPods, ListSlices, Stale, Reconcile,
                                           Track, HandleErr
<1> QED
  BY <1>3 DEF Finalized

\* As long as no reply is lost, no process takes over and nobody else removes
\* slices, a sync that succeeds leaves its service, if it still exists, with a
\* slice that has what the pods were at its start (reconcile, with finalize):
\* however far the informer lagged when the slices were listed, and whatever
\* happened to the slices since.
THEOREM SyncsPublish == Spec => ReliablyPublished
<1> DEFINE IInv == /\ TypeOK /\ OneWorkerPerService /\ Knowing /\ Recent
                   /\ Reliable => Counted
                   /\ Confirmed
           Publishes ==
             mishaps["lost"] = 0 /\ mishaps["failover"] = 0 /\ mishaps["removed"] = 0
             => \A w \in Worker :
                  LET t == work[w].service
                  IN  /\ At(w, "call") /\ work'[w].pc = "ok"
                      /\ alive[t] /\ work[w].owner = incarnation[t]
                      => \E u \in Owned(t) : slices[u].content = work[w].want
<1>1. Init => IInv
  <2> SUFFICES ASSUME Init PROVE Counted /\ Confirmed
    BY InitKnowing, InitMutual, InitRecent
  <2>1. Confirmed
    <3>1. /\ \A w \in Worker : work[w].pc = "idle"
          /\ watch = << >> /\ \A u \in SliceId : cache[u] = NoSlice
      BY IdleTyped DEF Init
    <3> QED
      BY <3>1 DEF Confirmed, CacheVouched, WatchVouched, JobVouched, At
  <2> QED
    BY <2>1, InitCounted
<1>2. IInv /\ [Next]_vars => IInv'
  <2> SUFFICES ASSUME IInv, [Next]_vars PROVE IInv'
    OBVIOUS
  <2>1. TypeOK' /\ OneWorkerPerService' /\ Knowing'
    BY Step, KnowingStep
  <2>2. Recent'
    BY <2>1, RecentStep
  <2>3. Reliable' => Counted'
    BY <2>1, CountedStep
  <2> QED
    BY <2>1, <2>2, <2>3, ConfirmedStep
<1>3. IInv /\ [Next]_vars => [Publishes]_vars
  <2> SUFFICES ASSUME IInv, [Next]_vars, Orderly, NEW w \in Worker,
                      At(w, "call"), work'[w].pc = "ok",
                      alive[work[w].service], work[w].owner = incarnation[work[w].service]
               PROVE  \E u \in Owned(work[w].service) : slices[u].content = work[w].want
    BY DEF Orderly, Reliable
  <2>1. ~work[w].create /\ work[w].updates = {}
    BY EndsWell
  <2> QED
    BY <2>1 DEF Confirmed, JobVouched, Provided
<1>4. Publishes =>
        (mishaps["lost"] = 0 /\ mishaps["failover"] = 0 /\ mishaps["removed"] = 0
         => \A w \in Worker :
              LET t == work[w].service
              IN  /\ At(w, "call") /\ work'[w].pc = "ok"
                  /\ alive[t] /\ work[w].owner = incarnation[t]
                  => \E u \in Owned(t) : slices[u].content = work[w].want)
  OBVIOUS
<1> QED
  BY <1>1, <1>2, <1>3, <1>4, PTL DEF Spec, ReliablyPublished
==============================================================================
