------------------------- MODULE TriggerQueueProofs -------------------------
(***************************************************************************)
(* Theorems of TriggerQueue for every number of services and entries, any  *)
(* channel capacity and any number of changes.                             *)
(***************************************************************************)
EXTENDS TriggerQueue, FiniteSetTheorems, TLAPS

-----------------------------------------------------------------------------
(* Queues.                                                                 *)

\* Appending adds one member.
LEMMA AppendMembers ==
  ASSUME NEW S, NEW queue \in Seq(S), NEW x \in S
  PROVE  /\ Append(queue, x) \in Seq(S)
         /\ Members(Append(queue, x)) = Members(queue) \cup {x}
         /\ Len(Append(queue, x)) = Len(queue) + 1
<1>. DEFINE longer == Append(queue, x)
<1>1. /\ longer \in Seq(S) /\ Len(longer) = Len(queue) + 1 /\ Len(queue) \in Nat
      /\ longer[Len(queue) + 1] = x
      /\ \A i \in 1..Len(queue) : longer[i] = queue[i]
  OBVIOUS
<1>2. DOMAIN queue = 1..Len(queue) /\ DOMAIN longer = 1..(Len(queue) + 1)
  BY <1>1
<1>3. 1..(Len(queue) + 1) = 1..Len(queue) \cup {Len(queue) + 1}
  BY <1>1
<1>4. Members(longer) = {longer[i] : i \in 1..Len(queue)} \cup {longer[Len(queue) + 1]}
  BY <1>2, <1>3, Zenon DEF Members
<1>5. {longer[i] : i \in 1..Len(queue)} = {queue[i] : i \in 1..Len(queue)}
  BY <1>1, Zenon
<1>. QED BY <1>1, <1>2, <1>4, <1>5, Zenon DEF Members

\* Adding a request makes it a member and drops none.
LEMMA EnqueueMembers ==
  ASSUME NEW S, NEW queue \in Seq(S), NEW x \in S
  PROVE  /\ Enqueue(queue, x) \in Seq(S)
         /\ Members(Enqueue(queue, x)) = Members(queue) \cup {x}
<1>1. CASE x \in Members(queue)
  BY <1>1 DEF Enqueue
<1>2. CASE x \notin Members(queue)
  BY <1>2, AppendMembers, Zenon DEF Enqueue
<1>. QED BY <1>1, <1>2

\* The head and the members of the tail are all there is.
LEMMA TailMembers ==
  ASSUME NEW S, NEW queue \in Seq(S), queue # << >>
  PROVE  /\ Head(queue) \in S
         /\ Tail(queue) \in Seq(S)
         /\ Members(queue) = {Head(queue)} \cup Members(Tail(queue))
         /\ Len(Tail(queue)) = Len(queue) - 1
<1>1. /\ Tail(queue) \in Seq(S) /\ Len(Tail(queue)) = Len(queue) - 1
      /\ Len(queue) \in Nat /\ Len(queue) >= 1
      /\ Head(queue) = queue[1] /\ queue[1] \in S
      /\ \A i \in 1..(Len(queue) - 1) : Tail(queue)[i] = queue[i + 1]
  OBVIOUS
<1>2. DOMAIN queue = 1..Len(queue) /\ DOMAIN Tail(queue) = 1..(Len(queue) - 1)
  BY <1>1
<1>3. ASSUME NEW i \in 1..Len(queue)
      PROVE  queue[i] \in {Head(queue)} \cup Members(Tail(queue))
  <2>1. CASE i = 1
    BY <1>1, <2>1
  <2>2. CASE i # 1
    <3>1. i - 1 \in 1..(Len(queue) - 1) /\ (i - 1) + 1 = i
      BY <1>1, <2>2
    <3>2. Tail(queue)[i - 1] = queue[i]
      BY <1>1, <3>1
    <3>. QED BY <3>1, <3>2, <1>2, Zenon DEF Members
  <2>. QED BY <2>1, <2>2
<1>4. ASSUME NEW i \in 1..(Len(queue) - 1)
      PROVE  Tail(queue)[i] \in Members(queue)
  <2>1. i + 1 \in 1..Len(queue)
    BY <1>1
  <2>. QED BY <1>1, <1>2, <2>1, Zenon DEF Members
<1>5. Head(queue) \in Members(queue)
  <2>1. 1 \in 1..Len(queue)
    BY <1>1
  <2>. QED BY <1>1, <1>2, <2>1, Zenon DEF Members
<1>6. \A x \in Members(queue) : x \in {Head(queue)} \cup Members(Tail(queue))
  BY <1>2, <1>3, Zenon DEF Members
<1>7. \A x \in Members(Tail(queue)) : x \in Members(queue)
  BY <1>2, <1>4, Zenon DEF Members
<1>. QED BY <1>1, <1>5, <1>6, <1>7

\* Listed in any order, the requests are those and no others.
LEMMA OrdersMembers ==
  ASSUME NEW S, IsFiniteSet(S), NEW requests \in SUBSET S, NEW queue \in Orders(requests)
  PROVE  queue \in Seq(S) /\ Members(queue) = requests
<1>1. IsFiniteSet(requests)
  BY FS_Subset
<1>2. Cardinality(requests) \in Nat
  BY <1>1, FS_CardinalityType
<1>3. queue \in [1..Cardinality(requests) -> requests] /\ Members(queue) = requests
  BY DEF Orders
<1>. QED BY <1>2, <1>3

-----------------------------------------------------------------------------
(* Types.                                                                  *)

\* Objects keep their type, whatever is written, delivered or listed anew.
LEMMA ObjectTypes ==
  ASSUME NEW V, NEW o \in ObjectOf(V), NEW v \in V
  PROVE  /\ Write(o, v) \in ObjectOf(V)
         /\ Deliver(o, v) \in ObjectOf(V)
         /\ Relist(o) \in ObjectOf(V)
         /\ Cached(v) \in ObjectOf(V)
BY DEF ObjectOf, Write, Deliver, Relist, Cached

\* The queue of a start holds the annotated Endpoints.
LEMMA ListingMembers ==
  ASSUME NEW queue \in Listing
  PROVE  /\ queue \in Seq(Service)
         /\ Members(queue) = {s \in Service : Passes(endpoints[s].stored)}
BY OrdersMembers, TriggerAssumption DEF Listing

-----------------------------------------------------------------------------
(* Type correctness.                                                       *)

\* The state has its type when the manager starts.
LEMMA InitTypes ==
  ASSUME Init
  PROVE  TypeOK
<1>1. endpoints \in [Service -> ObjectOf(EndpointsVersions)]
  <2>1. \A a \in BOOLEAN : Cached([rv |-> 1, present |-> TRUE, annotated |-> a]) \in ObjectOf(EndpointsVersions)
    BY DEF ObjectOf, EndpointsVersions, Cached
  <2>. QED BY <2>1 DEF Init
<1>2. entries \in [Entry -> ObjectOf(EntryVersions)]
  <2>1. \A p \in BOOLEAN : Cached([rv |-> 1, present |-> p]) \in ObjectOf(EntryVersions)
    BY DEF ObjectOf, EntryVersions, Cached
  <2>. QED BY <2>1 DEF Init
<1>3. endpointsQueue \in Seq(Service)
  BY ListingMembers DEF Init
<1>4. /\ channel \in Seq(Entry) /\ Len(channel) <= ChannelCapacity
      /\ syncQueue \in Seq(Entry) /\ changes \in 0..MaxChanges
  BY TriggerAssumption DEF Init
<1>. QED BY <1>1, <1>2, <1>3, <1>4 DEF Init, TypeOK

\* Every step keeps the types; the channel is sent to only while it has room.
LEMMA NextTypes ==
  ASSUME TypeOK, [Next]_vars
  PROVE  TypeOK'
<1>. USE DEF objects, endpointsVars, syncVars, history
<1>0. CASE UNCHANGED vars
  BY <1>0 DEF TypeOK, vars
<1>1. ASSUME NEW s \in Service, ChangeEndpoints(s) \/ AnnotateEndpoints(s)
      PROVE  TypeOK'
  <2>1. PICK p \in BOOLEAN, a \in BOOLEAN : PutEndpoints(s, p, a)
    BY <1>1 DEF ChangeEndpoints, AnnotateEndpoints, TypeOK, ObjectOf, EndpointsVersions
  <2>2. [rv |-> endpoints[s].stored.rv + 1, present |-> p, annotated |-> a] \in EndpointsVersions
    BY DEF TypeOK, ObjectOf, EndpointsVersions
  <2>3. endpoints' \in [Service -> ObjectOf(EndpointsVersions)]
    BY <2>1, <2>2, ObjectTypes DEF TypeOK, PutEndpoints
  <2>. QED BY <2>1, <2>3, TriggerAssumption DEF TypeOK, PutEndpoints, Change
<1>2. ASSUME NEW e \in Entry, CreateServiceEntry(e) \/ CollectEntry(e)
      PROVE  TypeOK'
  <2>1. PICK p \in BOOLEAN : PutEntry(e, p)
    BY <1>2 DEF CreateServiceEntry, CollectEntry
  <2>2. [rv |-> entries[e].stored.rv + 1, present |-> p] \in EntryVersions
    BY DEF TypeOK, ObjectOf, EntryVersions
  <2>3. entries' \in [Entry -> ObjectOf(EntryVersions)]
    BY <2>1, <2>2, ObjectTypes DEF TypeOK, PutEntry
  <2>. QED BY <2>1, <2>3, TriggerAssumption DEF TypeOK, PutEntry, Change
<1>3. ASSUME NEW e \in Entry, WeightOptimizerEvent(e)
      PROVE  TypeOK'
  <2>1. syncQueue' \in Seq(Entry)
    BY <1>3, EnqueueMembers DEF TypeOK, WeightOptimizerEvent
  <2>2. changes' \in 0..MaxChanges
    BY <1>3, TriggerAssumption DEF TypeOK, WeightOptimizerEvent, Change
  <2>. QED BY <1>3, <2>1, <2>2 DEF TypeOK, WeightOptimizerEvent
<1>4. CASE Restart
  <2>1. /\ endpoints' \in [Service -> ObjectOf(EndpointsVersions)]
        /\ entries' \in [Entry -> ObjectOf(EntryVersions)]
    BY <1>4 DEF TypeOK, Restart, ObjectOf, Relist, Cached
  <2>2. endpointsQueue' \in Seq(Service)
    BY <1>4, ListingMembers DEF Restart
  <2>3. changes' \in 0..MaxChanges
    BY <1>4, TriggerAssumption DEF TypeOK, Restart, Change
  <2>. QED BY <1>4, <2>1, <2>2, <2>3, TriggerAssumption DEF TypeOK, Restart
<1>5. ASSUME NEW s \in Service, DeliverEndpoints(s)
      PROVE  TypeOK'
  <2>1. PICK v \in endpoints[s].watch :
          /\ endpoints' = [endpoints EXCEPT ![s] = Deliver(@, v)]
          /\ endpointsQueue' = IF Passes(v) THEN Enqueue(endpointsQueue, s) ELSE endpointsQueue
    BY <1>5 DEF DeliverEndpoints
  <2>2. v \in EndpointsVersions
    BY DEF TypeOK, ObjectOf
  <2>3. endpoints' \in [Service -> ObjectOf(EndpointsVersions)]
    BY <2>1, <2>2, ObjectTypes DEF TypeOK
  <2>4. endpointsQueue' \in Seq(Service)
    BY <2>1, EnqueueMembers DEF TypeOK
  <2>. QED BY <1>5, <2>3, <2>4 DEF TypeOK, DeliverEndpoints
<1>6. ASSUME NEW e \in Entry, DeliverEntry(e)
      PROVE  TypeOK'
  <2>1. PICK v \in entries[e].watch : entries' = [entries EXCEPT ![e] = Deliver(@, v)]
    BY <1>6 DEF DeliverEntry
  <2>2. v \in EntryVersions
    BY DEF TypeOK, ObjectOf
  <2>3. entries' \in [Entry -> ObjectOf(EntryVersions)]
    BY <2>1, <2>2, ObjectTypes DEF TypeOK
  <2>4. endpoints[ServiceOf[e]].cached.rv \in Nat
    BY TriggerAssumption DEF TypeOK, ObjectOf, EndpointsVersions
  <2>. QED BY <1>6, <2>3, <2>4 DEF TypeOK, DeliverEntry
<1>7. CASE FetchEndpoints
  <2>1. /\ Head(endpointsQueue) \in Service
        /\ Tail(endpointsQueue) \in Seq(Service)
        /\ Append(Tail(endpointsQueue), Head(endpointsQueue)) \in Seq(Service)
    BY <1>7, TailMembers, AppendMembers DEF TypeOK, FetchEndpoints
  <2>2. endpointsQueue' \in Seq(Service)
    BY <1>7, <2>1, Zenon DEF FetchEndpoints, Retried
  <2>3. \/ endpointsWorker' = endpointsWorker
        \/ endpointsWorker' \in [pc : {"list"}, service : Service]
    BY <1>7, <2>1 DEF FetchEndpoints
  <2>. QED BY <1>7, <2>2, <2>3 DEF TypeOK, FetchEndpoints
<1>8. CASE ListServiceEntries
  BY <1>8 DEF TypeOK, ListServiceEntries, ToSend, Listed
<1>9. CASE SendTrigger
  <2>1. PICK e \in endpointsWorker.rest :
          /\ channel' = Append(channel, e)
          /\ endpointsWorker' = ToSend(Left(endpointsWorker.rest, e))
    BY <1>9 DEF SendTrigger
  <2>2. endpointsWorker.rest \in SUBSET Entry
    BY <1>9 DEF TypeOK, SendTrigger, EndpointsIdle
  <2>3. channel' \in Seq(Entry) /\ Len(channel') <= ChannelCapacity
    BY <1>9, <2>1, <2>2, AppendMembers, TriggerAssumption DEF TypeOK, SendTrigger, ChannelHasRoom
  <2>4. \/ endpointsWorker' = EndpointsIdle
        \/ endpointsWorker' \in [pc : {"send"}, rest : SUBSET Entry]
    BY <2>1, <2>2 DEF ToSend, Left
  <2>. QED BY <1>9, <2>3, <2>4 DEF TypeOK, SendTrigger
<1>10. CASE ForwardTrigger
  <2>1. /\ Head(channel) \in Entry /\ channel' \in Seq(Entry) /\ Len(channel') <= ChannelCapacity
    BY <1>10, TailMembers, TriggerAssumption DEF TypeOK, ForwardTrigger
  <2>2. syncQueue' \in Seq(Entry)
    BY <1>10, <2>1, EnqueueMembers DEF TypeOK, ForwardTrigger
  <2>. QED BY <1>10, <2>1, <2>2 DEF TypeOK, ForwardTrigger
<1>11. CASE StartSync
  BY <1>11, TailMembers DEF TypeOK, StartSync
<1>12. CASE ReadEndpoints
  <2>1. syncWorker.entry \in Entry
    BY <1>12 DEF TypeOK, ReadEndpoints, SyncIdle
  <2>2. endpoints[ServiceOf[syncWorker.entry]].cached.rv \in Nat
    BY <2>1, TriggerAssumption DEF TypeOK, ObjectOf, EndpointsVersions
  <2>. QED BY <1>12, <2>1, <2>2 DEF TypeOK, ReadEndpoints
<1>13. CASE FinishSync
  <2>1. syncWorker.entry \in Entry
    BY <1>13 DEF TypeOK, FinishSync, SyncIdle
  <2>2. syncQueue' \in Seq(Entry)
    <3>1. Enqueue(syncQueue, syncWorker.entry) \in Seq(Entry)
      BY <2>1, EnqueueMembers DEF TypeOK
    <3>. QED BY <1>13, <3>1 DEF TypeOK, FinishSync
  <2>3. changes' \in 0..MaxChanges
    BY <1>13, TriggerAssumption DEF TypeOK, FinishSync, Change
  <2>. QED BY <1>13, <2>2, <2>3 DEF TypeOK, FinishSync
<1>. QED
  BY <1>0, <1>1, <1>2, <1>3, <1>4, <1>5, <1>6, <1>7, <1>8, <1>9, <1>10, <1>11, <1>12, <1>13
  DEF Next, Environment, Informers, EndpointsReconcile, SyncReconcile

\* The state keeps its type and the channel, which all services share, its
\* capacity (EndpointReconciler sends, cmd/main.go makes the channel).
THEOREM TypeCorrectness == Spec => []TypeOK
<1>1. Init => TypeOK
  BY InitTypes
<1>2. TypeOK /\ [Next]_vars => TypeOK'
  BY NextTypes
<1>. QED BY <1>1, <1>2, PTL DEF Spec

-----------------------------------------------------------------------------
(* No trigger is lost.                                                     *)

\* A step that touches neither objects nor history changes nothing about what
\* is due and what is up to date.
LEMMA SameDue ==
  ASSUME UNCHANGED <<objects, history>>, NEW e \in Entry
  PROVE  Due(e)' = Due(e) /\ UpToDate(e)' = UpToDate(e)
BY DEF objects, history, Due, UpToDate

\* Such a step loses nothing if whatever was pending still is.
LEMMA KeepsPending ==
  ASSUME NoTriggerLost, UNCHANGED <<objects, history>>,
         \A e \in Entry : Due(e) /\ Pending(e) => Pending(e)'
  PROVE  NoTriggerLost'
<1>. SUFFICES ASSUME NEW e \in Entry, Due(e)', ~UpToDate(e)'
              PROVE  Pending(e)'
  BY DEF NoTriggerLost
<1>1. Due(e) /\ ~UpToDate(e)
  BY SameDue
<1>. QED BY <1>1 DEF NoTriggerLost

\* A manager that starts has a request for every annotated Endpoints.
LEMMA ListedArePending ==
  ASSUME Members(endpointsQueue) = {s \in Service : Passes(endpoints[s].cached)}
  PROVE  NoTriggerLost
<1>. SUFFICES ASSUME NEW e \in Entry, Due(e)
              PROVE  Pending(e)
  BY DEF NoTriggerLost
<1>1. ServiceOf[e] \in Service /\ Passes(endpoints[ServiceOf[e]].cached)
  BY TriggerAssumption DEF Due
<1>. QED BY <1>1 DEF Pending

\* Nothing is lost when the manager starts.
LEMMA InitNoTriggerLost ==
  ASSUME Init
  PROVE  NoTriggerLost
<1>1. ASSUME NEW s \in Service
      PROVE  endpoints[s].cached = endpoints[s].stored
  <2>1. PICK a \in BOOLEAN : endpoints[s] = Cached([rv |-> 1, present |-> TRUE, annotated |-> a])
    BY DEF Init
  <2>. QED BY <2>1 DEF Cached
<1>2. Members(endpointsQueue) = {s \in Service : Passes(endpoints[s].cached)}
  <2>1. endpointsQueue \in Listing
    BY DEF Init
  <2>2. Members(endpointsQueue) = {s \in Service : Passes(endpoints[s].stored)}
    BY <2>1, ListingMembers
  <2>. QED BY <1>1, <2>2
<1>. QED BY <1>2, ListedArePending

\* Endpoints that are delivered are requested, if their event passes.
LEMMA DeliverEndpointsLosesNone ==
  ASSUME TypeOK, NoTriggerLost, NEW s \in Service, DeliverEndpoints(s)
  PROVE  NoTriggerLost'
<1>1. PICK v \in endpoints[s].watch :
        /\ endpoints' = [endpoints EXCEPT ![s] = Deliver(@, v)]
        /\ endpointsQueue' = IF Passes(v) THEN Enqueue(endpointsQueue, s) ELSE endpointsQueue
  BY DEF DeliverEndpoints
<1>2. /\ UNCHANGED <<entries, endpointsWorker, channel, syncQueue, syncWorker, since, synced>>
  BY DEF DeliverEndpoints, syncVars, history
<1>3. endpoints'[s].cached = v /\ \A t \in Service \ {s} : endpoints'[t] = endpoints[t]
  BY <1>1 DEF TypeOK, Deliver
<1>4. /\ Members(endpointsQueue) \subseteq Members(endpointsQueue')
      /\ Passes(v) => s \in Members(endpointsQueue')
  <2>1. Members(Enqueue(endpointsQueue, s)) = Members(endpointsQueue) \cup {s}
    BY EnqueueMembers DEF TypeOK
  <2>. QED BY <1>1, <2>1
<1>. SUFFICES ASSUME NEW e \in Entry, Due(e)', ~UpToDate(e)'
              PROVE  Pending(e)'
  BY DEF NoTriggerLost
<1>. ServiceOf[e] \in Service
  BY TriggerAssumption
<1>5. CASE ServiceOf[e] = s
  <2>1. Passes(v)
    BY <1>3, <1>5 DEF Due, Passes
  <2>. QED BY <1>4, <1>5, <2>1 DEF Pending
<1>6. CASE ServiceOf[e] # s
  <2>1. Due(e) /\ ~UpToDate(e)
    BY <1>2, <1>3, <1>6 DEF Due, UpToDate, Passes
  <2>2. Pending(e)
    BY <2>1 DEF NoTriggerLost
  <2>. QED BY <1>2, <1>4, <2>2 DEF Pending
<1>. QED BY <1>5, <1>6

\* An entry new to the cache was made from Endpoints at least as new.
LEMMA DeliverEntryLosesNone ==
  ASSUME TypeOK, NoTriggerLost, NEW n \in Entry, DeliverEntry(n)
  PROVE  NoTriggerLost'
<1>. SUFFICES ASSUME NEW e \in Entry, Due(e)', ~UpToDate(e)'
              PROVE  Pending(e)'
  BY DEF NoTriggerLost
<1>1. UNCHANGED <<endpoints, endpointsQueue, endpointsWorker, channel, syncQueue, syncWorker, synced>>
  BY DEF DeliverEntry, endpointsVars, syncVars
<1>2. e # n
  <2>1. SUFFICES ASSUME e = n
                 PROVE  FALSE
    OBVIOUS
  <2>2. since'[e] = endpoints[ServiceOf[e]].cached.rv
    BY <2>1 DEF DeliverEntry, TypeOK
  <2>3. endpoints[ServiceOf[e]].cached.rv \in Nat
    BY TriggerAssumption DEF TypeOK, ObjectOf, EndpointsVersions
  <2>. QED BY <1>1, <2>2, <2>3 DEF Due
<1>3. entries'[e] = entries[e] /\ since'[e] = since[e]
  BY <1>2 DEF DeliverEntry, TypeOK
<1>4. Due(e) /\ ~UpToDate(e)
  BY <1>1, <1>3 DEF Due, UpToDate, Passes
<1>5. Pending(e)
  BY <1>4 DEF NoTriggerLost
<1>. QED BY <1>1, <1>5 DEF Pending

\* The worker keeps hold of a service from the queue to the List.
LEMMA FetchEndpointsLosesNone ==
  ASSUME TypeOK, NoTriggerLost, FetchEndpoints
  PROVE  NoTriggerLost'
<1>. DEFINE s == Head(endpointsQueue)
<1>1. UNCHANGED <<endpoints, entries, since, synced, channel, syncQueue, syncWorker>>
  BY DEF FetchEndpoints, objects, history, syncVars
<1>2. /\ Members(endpointsQueue) = {s} \cup Members(Tail(endpointsQueue))
      /\ Members(Append(Tail(endpointsQueue), s)) = Members(Tail(endpointsQueue)) \cup {s}
  <2>1. endpointsQueue \in Seq(Service) /\ endpointsQueue # << >>
    BY DEF TypeOK, FetchEndpoints
  <2>2. /\ s \in Service /\ Tail(endpointsQueue) \in Seq(Service)
        /\ Members(endpointsQueue) = {s} \cup Members(Tail(endpointsQueue))
    BY <2>1, TailMembers
  <2>3. Members(Append(Tail(endpointsQueue), s)) = Members(Tail(endpointsQueue)) \cup {s}
    <3>1. \A queue \in Seq(Service), x \in Service :
            Members(Append(queue, x)) = Members(queue) \cup {x}
      BY AppendMembers
    <3>. QED BY <2>2, <3>1, Zenon
  <2>. HIDE DEF s
  <2>. QED BY <2>2, <2>3, Zenon
<1>3. \/ endpointsQueue' = Tail(endpointsQueue) /\ endpointsWorker' = [pc |-> "list", service |-> s]
      \/ endpointsQueue' = Append(Tail(endpointsQueue), s) /\ endpointsWorker' = endpointsWorker
  BY DEF FetchEndpoints, Retried
<1>4. \/ Members(endpointsQueue') = Members(endpointsQueue)
      \/ /\ Members(endpointsQueue) \subseteq Members(endpointsQueue') \cup {s}
         /\ endpointsWorker' = [pc |-> "list", service |-> s]
  BY <1>2, <1>3
<1>5. ASSUME NEW e \in Entry, Pending(e)
      PROVE  Pending(e)'
  <2>1. endpointsWorker.pc = "idle"
    BY DEF FetchEndpoints
  <2>. QED BY <1>1, <1>3, <1>4, <1>5, <2>1 DEF Pending
<1>. QED BY <1>1, <1>5, KeepsPending DEF objects, history

\* The List finds every entry the cache has of the service.
LEMMA ListLosesNone ==
  ASSUME TypeOK, NoTriggerLost, ListServiceEntries
  PROVE  NoTriggerLost'
<1>1. UNCHANGED <<objects, history, endpointsQueue, channel, syncQueue, syncWorker>>
  BY DEF ListServiceEntries, syncVars
<1>2. ASSUME NEW e \in Entry, Due(e), Pending(e)
      PROVE  Pending(e)'
  <2>1. CASE endpointsWorker.service = ServiceOf[e]
    <3>1. e \in Listed(endpointsWorker.service)
      BY <1>2, <2>1 DEF Due, Listed
    <3>2. endpointsWorker' = [pc |-> "send", rest |-> Listed(endpointsWorker.service)]
      BY <3>1 DEF ListServiceEntries, ToSend
    <3>. QED BY <3>1, <3>2 DEF Pending
  <2>2. CASE endpointsWorker.service # ServiceOf[e]
    BY <1>1, <1>2, <2>2 DEF Pending, ListServiceEntries
  <2>. QED BY <2>1, <2>2
<1>. QED BY <1>1, <1>2, KeepsPending

\* What is sent is in the channel, what is not sent yet stays in the worker's hands.
LEMMA SendLosesNone ==
  ASSUME TypeOK, NoTriggerLost, SendTrigger
  PROVE  NoTriggerLost'
<1>1. UNCHANGED <<objects, history, endpointsQueue, syncQueue, syncWorker>>
  BY DEF SendTrigger, syncVars
<1>2. PICK sent \in endpointsWorker.rest :
        channel' = Append(channel, sent) /\ endpointsWorker' = ToSend(endpointsWorker.rest \ {sent})
  BY DEF SendTrigger, Left
<1>3. endpointsWorker.pc = "send" /\ endpointsWorker.rest \in SUBSET Entry
  BY DEF TypeOK, SendTrigger, EndpointsIdle
<1>4. Members(channel') = Members(channel) \cup {sent}
  BY <1>2, <1>3, AppendMembers DEF TypeOK
<1>5. ASSUME NEW e \in Entry, Pending(e)
      PROVE  Pending(e)'
  <2>1. CASE e \in endpointsWorker.rest /\ e # sent
    <3>1. endpointsWorker' = [pc |-> "send", rest |-> endpointsWorker.rest \ {sent}]
      BY <1>2, <2>1 DEF ToSend
    <3>. QED BY <2>1, <3>1 DEF Pending
  <2>2. CASE e = sent
    BY <1>4, <2>2 DEF Pending
  <2>3. CASE e \notin endpointsWorker.rest
    BY <1>1, <1>3, <1>4, <1>5, <2>3 DEF Pending
  <2>. QED BY <2>1, <2>2, <2>3
<1>. QED BY <1>1, <1>5, KeepsPending

\* The channel source moves a trigger to the work queue.
LEMMA ForwardLosesNone ==
  ASSUME TypeOK, NoTriggerLost, ForwardTrigger
  PROVE  NoTriggerLost'
<1>1. UNCHANGED <<objects, history, endpointsQueue, endpointsWorker, syncWorker>>
  BY DEF ForwardTrigger, endpointsVars
<1>2. /\ Head(channel) \in Entry
      /\ Members(channel) = {Head(channel)} \cup Members(channel')
  <2>1. channel \in Seq(Entry) /\ channel # << >> /\ channel' = Tail(channel)
    BY DEF TypeOK, ForwardTrigger
  <2>. QED BY <2>1, TailMembers
<1>3. Members(syncQueue') = Members(syncQueue) \cup {Head(channel)}
  <2>1. syncQueue \in Seq(Entry) /\ syncQueue' = Enqueue(syncQueue, Head(channel))
    BY DEF TypeOK, ForwardTrigger
  <2>. QED BY <1>2, <2>1, EnqueueMembers
<1>4. ASSUME NEW e \in Entry, Pending(e)
      PROVE  Pending(e)'
  BY <1>1, <1>2, <1>3, <1>4 DEF Pending
<1>. QED BY <1>1, <1>4, KeepsPending

\* A request that is taken is about to read the Endpoints, unless its entry is
\* gone, and then nothing is due.
LEMMA StartSyncLosesNone ==
  ASSUME TypeOK, NoTriggerLost, StartSync
  PROVE  NoTriggerLost'
<1>1. UNCHANGED <<objects, history, endpointsQueue, endpointsWorker, channel>>
  BY DEF StartSync, endpointsVars
<1>2. Members(syncQueue) = {Head(syncQueue)} \cup Members(syncQueue')
  BY TailMembers DEF TypeOK, StartSync
<1>3. ASSUME NEW e \in Entry, Due(e), Pending(e)
      PROVE  Pending(e)'
  <2>1. CASE e = Head(syncQueue)
    <3>1. syncWorker' = [pc |-> "read", entry |-> e]
      BY <1>3, <2>1 DEF StartSync, Due
    <3>. QED BY <3>1 DEF Pending
  <2>2. CASE e # Head(syncQueue)
    BY <1>1, <1>2, <1>3, <2>2 DEF Pending, StartSync
  <2>. QED BY <2>1, <2>2
<1>. QED BY <1>1, <1>3, KeepsPending

\* A reconcile that has read the Endpoints is up to date with them.
LEMMA ReadEndpointsLosesNone ==
  ASSUME TypeOK, NoTriggerLost, ReadEndpoints
  PROVE  NoTriggerLost'
<1>. DEFINE r == syncWorker.entry
            ep == endpoints[ServiceOf[r]].cached
<1>. SUFFICES ASSUME NEW e \in Entry, Due(e)', ~UpToDate(e)'
              PROVE  Pending(e)'
  BY DEF NoTriggerLost
<1>1. UNCHANGED <<endpoints, entries, endpointsQueue, endpointsWorker, channel, syncQueue, since>>
  BY DEF ReadEndpoints, objects, endpointsVars
<1>2. synced' = IF ep.present THEN [synced EXCEPT ![r] = ep.rv] ELSE synced
  BY DEF ReadEndpoints
<1>3. Due(e)
  BY <1>1 DEF Due, Passes
<1>4. e # r
  <2>1. SUFFICES ASSUME e = r
                 PROVE  FALSE
    OBVIOUS
  <2>2. ep.present
    BY <1>3, <2>1 DEF Due, Passes
  <2>3. synced'[e] = ep.rv
    BY <1>2, <2>1, <2>2 DEF TypeOK
  <2>. QED BY <1>1, <2>1, <2>3 DEF UpToDate
<1>5. synced'[e] = synced[e]
  BY <1>2, <1>4 DEF TypeOK
<1>6. ~UpToDate(e)
  BY <1>1, <1>5 DEF UpToDate
<1>7. Pending(e)
  BY <1>3, <1>6 DEF NoTriggerLost
<1>. QED BY <1>1, <1>4, <1>7 DEF Pending

\* A failed reconcile comes back, a finished one has nothing left to read.
LEMMA FinishSyncLosesNone ==
  ASSUME TypeOK, NoTriggerLost, FinishSync
  PROVE  NoTriggerLost'
<1>1. UNCHANGED <<objects, history, endpointsQueue, endpointsWorker, channel>> /\ syncWorker.pc = "weights"
  BY DEF FinishSync, endpointsVars
<1>2. Members(syncQueue) \subseteq Members(syncQueue')
  <2>1. syncWorker.entry \in Entry
    BY DEF TypeOK, FinishSync, SyncIdle
  <2>2. Members(Enqueue(syncQueue, syncWorker.entry)) = Members(syncQueue) \cup {syncWorker.entry}
    BY <2>1, EnqueueMembers DEF TypeOK
  <2>. QED BY <2>2 DEF FinishSync
<1>3. ASSUME NEW e \in Entry, Pending(e)
      PROVE  Pending(e)'
  BY <1>1, <1>2, <1>3 DEF Pending
<1>. QED BY <1>1, <1>3, KeepsPending

\* No trigger is lost between the informer and the reconcile of the entry, for
\* any number of services that share the channel (EndpointReconciler.Reconcile).
THEOREM NothingLost == Spec => []NoTriggerLost
<1>. DEFINE Inv == TypeOK /\ NoTriggerLost
<1>1. Init => Inv
  BY InitTypes, InitNoTriggerLost
<1>2. ASSUME Inv, [Next]_vars
      PROVE  NoTriggerLost'
  <2>. USE <1>2
  <2>1. CASE UNCHANGED vars
    BY <2>1, KeepsPending DEF vars, objects, history, endpointsVars, syncVars, Pending
  <2>2. ASSUME NEW s \in Service, ChangeEndpoints(s) \/ AnnotateEndpoints(s)
        PROVE  NoTriggerLost'
    <3>1. PICK p \in BOOLEAN, a \in BOOLEAN : PutEndpoints(s, p, a)
      BY <2>2 DEF ChangeEndpoints, AnnotateEndpoints, TypeOK, ObjectOf, EndpointsVersions
    <3>2. /\ UNCHANGED <<entries, endpointsQueue, endpointsWorker, channel, syncQueue, syncWorker, since, synced>>
          /\ \A t \in Service : endpoints'[t].cached = endpoints[t].cached
      BY <3>1 DEF PutEndpoints, TypeOK, Write, endpointsVars, syncVars, history
    <3>. QED BY <3>2, TriggerAssumption DEF NoTriggerLost, Due, UpToDate, Pending, Passes
  <2>3. ASSUME NEW n \in Entry, CreateServiceEntry(n) \/ CollectEntry(n)
        PROVE  NoTriggerLost'
    <3>1. PICK p \in BOOLEAN : PutEntry(n, p)
      BY <2>3 DEF CreateServiceEntry, CollectEntry
    <3>2. /\ UNCHANGED <<endpoints, endpointsQueue, endpointsWorker, channel, syncQueue, syncWorker, since, synced>>
          /\ \A e \in Entry : entries'[e].cached = entries[e].cached
      BY <3>1 DEF PutEntry, TypeOK, Write, endpointsVars, syncVars, history
    <3>. QED BY <3>2 DEF NoTriggerLost, Due, UpToDate, Pending, Passes
  <2>4. ASSUME NEW n \in Entry, WeightOptimizerEvent(n)
        PROVE  NoTriggerLost'
    <3>1. Members(syncQueue') = Members(syncQueue) \cup {n}
      BY <2>4, EnqueueMembers DEF TypeOK, WeightOptimizerEvent
    <3>2. UNCHANGED <<objects, history, endpointsQueue, endpointsWorker, channel, syncWorker>>
      BY <2>4 DEF WeightOptimizerEvent, endpointsVars
    <3>3. ASSUME NEW e \in Entry, Pending(e)
          PROVE  Pending(e)'
      BY <3>1, <3>2, <3>3 DEF Pending
    <3>. QED BY <3>2, <3>3, KeepsPending
  <2>5. CASE Restart
    <3>1. Members(endpointsQueue') = {s \in Service : Passes(endpoints'[s].cached)}
      <4>1. \A s \in Service : endpoints'[s].cached = endpoints[s].stored
        BY <2>5 DEF Restart, Relist, Cached
      <4>2. Members(endpointsQueue') = {s \in Service : Passes(endpoints[s].stored)}
        BY <2>5, ListingMembers DEF Restart
      <4>. QED BY <4>1, <4>2
    <3>. SUFFICES ASSUME NEW e \in Entry, Due(e)'
                  PROVE  Pending(e)'
      BY DEF NoTriggerLost
    <3>2. ServiceOf[e] \in Service /\ Passes(endpoints'[ServiceOf[e]].cached)
      BY TriggerAssumption DEF Due, Passes
    <3>. QED BY <3>1, <3>2 DEF Pending
  <2>. QED
    BY <2>1, <2>2, <2>3, <2>4, <2>5, DeliverEndpointsLosesNone, DeliverEntryLosesNone,
       FetchEndpointsLosesNone, ListLosesNone, SendLosesNone, ForwardLosesNone,
       StartSyncLosesNone, ReadEndpointsLosesNone, FinishSyncLosesNone
    DEF Next, Environment, Informers, EndpointsReconcile, SyncReconcile
<1>3. Inv /\ [Next]_vars => Inv'
  BY <1>2, NextTypes
<1>. QED BY <1>1, <1>3, PTL DEF Spec
=============================================================================
