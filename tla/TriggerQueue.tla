---------------------------- MODULE TriggerQueue ----------------------------
(***************************************************************************)
(* The way of an Endpoints event to the service entries of its service.    *)
(*                                                                         *)
(*   watch -> endpointsQueue -> EndpointReconciler -> channel              *)
(*         -> source.Channel -> syncQueue -> ServiceEntryReconciler        *)
(*                                                                         *)
(* ServiceEntrySync follows one ServiceEntry.  Here a service has one for  *)
(* each of its ports, all services share both workers and the channel, and *)
(* Endpoints and service entries come and go.  Of what a reconcile does to *)
(* its ServiceEntry only the read of the Endpoints is left.                *)
(***************************************************************************)
EXTENDS Integers, Sequences, FiniteSets, CachedObject

CONSTANTS
  Service,          \* the services, and by name their Endpoints
  Entry,            \* the service entries
  ServiceOf,        \* the service that the label of an entry names
  ChannelCapacity,  \* capacity of ServiceEntryReconcileTriggerChannel
  MaxChanges        \* bound: steps of the environment and failing reconciles

ASSUME TriggerAssumption ==
  /\ IsFiniteSet(Service)
  /\ ServiceOf \in [Entry -> Service]
  /\ ChannelCapacity \in Nat \ {0}
  /\ MaxChanges \in Nat

VARIABLES
  endpoints,        \* a version is [rv, present, annotated]
  entries,          \* a version is [rv, present]
  endpointsQueue,   \* work queue of the EndpointReconciler
  endpointsWorker,  \* its worker, with the service it fetched or the entries left to send
  channel,          \* ServiceEntryReconcileTriggerChannel
  syncQueue,        \* work queue of the ServiceEntryReconciler
  syncWorker,       \* its worker, with the entry of its request
  changes,
  \* History.  since: the version of the Endpoints that the cache held when it
  \* learnt of the entry; synced: the last one that a reconcile of it read.
  since, synced

objects == <<endpoints, entries>>
endpointsVars == <<endpointsQueue, endpointsWorker>>
syncVars == <<syncQueue, syncWorker>>
history == <<since, synced>>
vars == <<objects, endpointsVars, channel, syncVars, changes, history>>

-----------------------------------------------------------------------------
Members(queue) == {queue[i] : i \in DOMAIN queue}

\* A work queue holds a request once, however often it is added.
Enqueue(queue, request) == IF request \in Members(queue) THEN queue ELSE Append(queue, request)

\* The requests in any order.
Orders(requests) ==
  {queue \in [1..Cardinality(requests) -> requests] : Members(queue) = requests}

EndpointsIdle == [pc |-> "idle"]
SyncIdle == [pc |-> "idle"]

\* namespaceAndAnnotationPredicate, which also drops deletions.
Passes(ep) == ep.present /\ ep.annotated

\* The requests a manager that starts makes of the Endpoints it lists.
Listing == Orders({s \in Service : Passes(endpoints[s].stored)})

\* A variant that finds one service entry of a service only.
ListedByName(service) ==
  {e \in Entry : /\ ServiceOf[e] = service /\ entries[e].cached.present
                 /\ e = CHOOSE other \in Entry : ServiceOf[other] = service}

\* What the List by label finds.
Listed(service) == {e \in Entry : ServiceOf[e] = service /\ entries[e].cached.present}

\* What MaxChanges bounds.
Change == changes < MaxChanges /\ changes' = changes + 1

-----------------------------------------------------------------------------
(***************************************************************************)
(* The manager starts on a cluster where some services are optimized.      *)
(***************************************************************************)
Init ==
  /\ endpoints \in [Service -> {Cached([rv |-> 1, present |-> TRUE, annotated |-> a]) : a \in BOOLEAN}]
  /\ entries \in [Entry -> {Cached([rv |-> 1, present |-> p]) : p \in BOOLEAN}]
  /\ endpointsQueue \in Listing
  /\ endpointsWorker = EndpointsIdle
  /\ channel = << >>
  /\ syncQueue = << >>
  /\ syncWorker = SyncIdle
  /\ changes = 0
  /\ since = [e \in Entry |-> 0]
  /\ synced = [e \in Entry |-> 0]

-----------------------------------------------------------------------------
(* The environment.                                                        *)

PutEndpoints(s, present, annotated) ==
  /\ Change
  /\ endpoints' = [endpoints EXCEPT ![s] =
       Write(@, [rv |-> @.stored.rv + 1, present |-> present, annotated |-> annotated])]
  /\ UNCHANGED <<entries, endpointsVars, channel, syncVars, history>>

\* Pods come and go, the service is deleted and made anew; a new Endpoints has no
\* annotation yet.
ChangeEndpoints(s) ==
  \E present \in BOOLEAN :
    /\ endpoints[s].stored.present \/ present
    /\ PutEndpoints(s, present, present /\ endpoints[s].stored.annotated)

\* The IstioAdaptiveRequestOptimizerReconciler sets the annotation, and removes it
\* when the optimizer goes.
AnnotateEndpoints(s) ==
  /\ endpoints[s].stored.present
  /\ PutEndpoints(s, TRUE, ~endpoints[s].stored.annotated)

PutEntry(e, present) ==
  /\ Change
  /\ entries[e].stored.present # present
  /\ entries' = [entries EXCEPT ![e] = Write(@, [rv |-> @.stored.rv + 1, present |-> present])]
  /\ UNCHANGED <<endpoints, endpointsVars, channel, syncVars, history>>

CreateServiceEntry(e) == PutEntry(e, TRUE)

\* The garbage collector.
CollectEntry(e) == PutEntry(e, FALSE)

\* An event of the entry's WeightOptimizer.
WeightOptimizerEvent(e) ==
  /\ Change
  /\ syncQueue' = Enqueue(syncQueue, e)
  /\ UNCHANGED <<objects, endpointsVars, channel, syncWorker, history>>

\* What was in memory is gone, the triggers in the channel included; the
\* caches are listed anew and every listed Endpoints is an event.  So is every
\* WeightOptimizer, if there is one: WeightOptimizerEvent.
Restart ==
  /\ Change
  /\ endpoints' = [s \in Service |-> Relist(endpoints[s])]
  /\ entries' = [e \in Entry |-> Relist(entries[e])]
  /\ endpointsQueue' \in Listing
  /\ endpointsWorker' = EndpointsIdle
  /\ channel' = << >>
  /\ syncQueue' = << >>
  /\ syncWorker' = SyncIdle
  /\ since' = [e \in Entry |-> 0]
  /\ synced' = [e \in Entry |-> 0]

-----------------------------------------------------------------------------
(* The informers; nothing is enqueued for a ServiceEntry.                  *)

DeliverEndpoints(s) ==
  /\ \E v \in endpoints[s].watch :
       /\ endpoints' = [endpoints EXCEPT ![s] = Deliver(@, v)]
       /\ endpointsQueue' = IF Passes(v) THEN Enqueue(endpointsQueue, s) ELSE endpointsQueue
  /\ UNCHANGED <<entries, endpointsWorker, channel, syncVars, changes, history>>

DeliverEntry(e) ==
  /\ \E v \in entries[e].watch : entries' = [entries EXCEPT ![e] = Deliver(@, v)]
  /\ since' = [since EXCEPT ![e] = endpoints[ServiceOf[e]].cached.rv]
  /\ UNCHANGED <<endpoints, endpointsVars, channel, syncVars, changes, synced>>

-----------------------------------------------------------------------------
(***************************************************************************)
(* EndpointReconciler.Reconcile.                                           *)
(***************************************************************************)
\* A variant that does not let the other requests go first.
RetriedAtOnce(queue, s) == <<s>> \o queue

\* A request whose reconcile returned an error.
Retried(queue, s) == Append(queue, s)

\* An Endpoints that is gone from the cache is an error, so its request comes
\* back for as long as it stays away.
FetchEndpoints ==
  /\ endpointsWorker.pc = "idle"
  /\ endpointsQueue # << >>
  /\ LET s == Head(endpointsQueue)
     IN  \/ /\ endpoints[s].cached.present
            /\ endpointsQueue' = Tail(endpointsQueue)
            /\ endpointsWorker' = [pc |-> "list", service |-> s]
         \/ /\ ~endpoints[s].cached.present
            /\ endpointsQueue' = Retried(Tail(endpointsQueue), s)
            /\ UNCHANGED endpointsWorker
  /\ UNCHANGED <<objects, channel, syncVars, changes, history>>

\* The worker with the entries it has still to send.
ToSend(rest) == IF rest = {} THEN EndpointsIdle ELSE [pc |-> "send", rest |-> rest]

ListServiceEntries ==
  /\ endpointsWorker.pc = "list"
  /\ endpointsWorker' = ToSend(Listed(endpointsWorker.service))
  /\ UNCHANGED <<objects, endpointsQueue, channel, syncVars, changes, history>>

\* The loop over the listed entries, in the order of the list, which is any.
Left(rest, e) == rest \ {e}

ChannelHasRoom == Len(channel) < ChannelCapacity

\* A variant whose send has a default case: a full channel drops the event.
SendTriggerUnlessFull ==
  /\ endpointsWorker.pc = "send"
  /\ \E e \in endpointsWorker.rest :
       /\ channel' = IF ChannelHasRoom THEN Append(channel, e) ELSE channel
       /\ endpointsWorker' = ToSend(Left(endpointsWorker.rest, e))
  /\ UNCHANGED <<objects, endpointsQueue, syncVars, changes, history>>

\* The send waits while the channel is full, and the worker with it.
SendTrigger ==
  /\ endpointsWorker.pc = "send"
  /\ ChannelHasRoom
  /\ \E e \in endpointsWorker.rest :
       /\ channel' = Append(channel, e)
       /\ endpointsWorker' = ToSend(Left(endpointsWorker.rest, e))
  /\ UNCHANGED <<objects, endpointsQueue, syncVars, changes, history>>

-----------------------------------------------------------------------------
\* source.Channel: the predicate of the ServiceEntryReconciler has no
\* GenericFunc, so every event goes to the work queue.
ForwardTrigger ==
  /\ channel # << >>
  /\ channel' = Tail(channel)
  /\ syncQueue' = Enqueue(syncQueue, Head(channel))
  /\ UNCHANGED <<objects, endpointsVars, syncWorker, changes, history>>

(***************************************************************************)
(* ServiceEntryReconciler.Reconcile.                                       *)
(***************************************************************************)
\* HandleEndpointUpdate, the first Get.  An entry that is not found has no
\* label, and the reconcile goes on to the weights.
StartSync ==
  /\ syncWorker.pc = "idle"
  /\ syncQueue # << >>
  /\ LET e == Head(syncQueue)
     IN  syncWorker' = [pc |-> IF entries[e].cached.present THEN "read" ELSE "weights", entry |-> e]
  /\ syncQueue' = Tail(syncQueue)
  /\ UNCHANGED <<objects, endpointsVars, channel, changes, history>>

\* HandleEndpointUpdate, the second Get.  Endpoints that are not found are an
\* error that Reconcile ignores.
ReadEndpoints ==
  /\ syncWorker.pc = "read"
  /\ LET e == syncWorker.entry
         ep == endpoints[ServiceOf[e]].cached
     IN  /\ synced' = IF ep.present THEN [synced EXCEPT ![e] = ep.rv] ELSE synced
         /\ syncWorker' = [pc |-> "weights", entry |-> e]
  /\ UNCHANGED <<objects, endpointsVars, channel, syncQueue, changes, since>>

\* An error of ValidateAndUpdateWeights sends the request round again.
FinishSync ==
  /\ syncWorker.pc = "weights"
  /\ \/ UNCHANGED <<syncQueue, changes>>
     \/ Change /\ syncQueue' = Enqueue(syncQueue, syncWorker.entry)
  /\ syncWorker' = SyncIdle
  /\ UNCHANGED <<objects, endpointsVars, channel, history>>

-----------------------------------------------------------------------------
Environment ==
  \/ \E s \in Service : ChangeEndpoints(s) \/ AnnotateEndpoints(s)
  \/ \E e \in Entry : CreateServiceEntry(e) \/ CollectEntry(e) \/ WeightOptimizerEvent(e)
  \/ Restart

Informers == (\E s \in Service : DeliverEndpoints(s)) \/ (\E e \in Entry : DeliverEntry(e))

EndpointsReconcile == FetchEndpoints \/ ListServiceEntries \/ SendTrigger

SyncReconcile == StartSync \/ ReadEndpoints \/ FinishSync

Next == Environment \/ Informers \/ EndpointsReconcile \/ ForwardTrigger \/ SyncReconcile

Spec == Init /\ [][Next]_vars

\* Watches deliver, both workers and the channel source go on.  The queues are
\* first in, first out, so weak fairness of a worker serves every request.
Fairness ==
  /\ WF_vars(Informers)
  /\ WF_vars(EndpointsReconcile)
  /\ WF_vars(ForwardTrigger)
  /\ WF_vars(SyncReconcile)

FairSpec == Spec /\ Fairness

-----------------------------------------------------------------------------
EndpointsVersions == [rv : Nat, present : BOOLEAN, annotated : BOOLEAN]
EntryVersions == [rv : Nat, present : BOOLEAN]
ObjectOf(versions) == [stored : versions, cached : versions, watch : SUBSET versions]

\* The types of the state.
TypeOK ==
  /\ endpoints \in [Service -> ObjectOf(EndpointsVersions)]
  /\ entries \in [Entry -> ObjectOf(EntryVersions)]
  /\ endpointsQueue \in Seq(Service)
  /\ endpointsWorker \in {EndpointsIdle} \cup [pc : {"list"}, service : Service]
                           \cup [pc : {"send"}, rest : SUBSET Entry]
  /\ channel \in Seq(Entry) /\ Len(channel) <= ChannelCapacity
  /\ syncQueue \in Seq(Entry)
  /\ syncWorker \in {SyncIdle} \cup [pc : {"read", "weights"}, entry : Entry]
  /\ changes \in 0..MaxChanges
  /\ since \in [Entry -> Nat]
  /\ synced \in [Entry -> Nat]

\* The cache has annotated Endpoints, delivered after it learnt of the entry.
Due(e) ==
  LET ep == endpoints[ServiceOf[e]].cached
  IN  entries[e].cached.present /\ Passes(ep) /\ ep.rv > since[e]

UpToDate(e) == synced[e] = endpoints[ServiceOf[e]].cached.rv

\* Somewhere between the informer and the reconcile of the entry there is a
\* request for it, or for its service.
Pending(e) ==
  \/ ServiceOf[e] \in Members(endpointsQueue)
  \/ endpointsWorker.pc = "list" /\ endpointsWorker.service = ServiceOf[e]
  \/ endpointsWorker.pc = "send" /\ e \in endpointsWorker.rest
  \/ e \in Members(channel)
  \/ e \in Members(syncQueue)
  \/ syncWorker.pc = "read" /\ syncWorker.entry = e

\* No trigger is lost on the way: an entry whose last reconcile read older
\* Endpoints than the cache holds has a request pending, however full the
\* channel was, whatever was deleted, made anew or restarted meanwhile
\* (EndpointReconciler.Reconcile and the channel it shares).
NoTriggerLost == \A e \in Entry : Due(e) => UpToDate(e) \/ Pending(e)

\* Once Endpoints and entries stop changing, every entry is reconciled with
\* the Endpoints' last version: no service waits for ever behind a full channel
\* or behind a service whose Endpoints are gone (the loop of
\* EndpointReconciler.Reconcile, and the error it returns for a missing one).
EveryEntryCatchesUp == <>[](\A e \in Entry : Due(e) => UpToDate(e))
=============================================================================
