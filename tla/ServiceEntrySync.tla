-------------------------- MODULE ServiceEntrySync --------------------------
(***************************************************************************)
(* How the ServiceEntry of one service port follows the Endpoints of its   *)
(* service and the weights of its WeightOptimizer.                         *)
(*                                                                         *)
(* Three reconcilers of the manager take part, each with one worker:       *)
(*                                                                         *)
(*   IstioAdaptiveRequestOptimizerReconciler annotates the Endpoints and   *)
(*     creates the ServiceEntry;                                           *)
(*   EndpointReconciler turns every event of an annotated Endpoints into   *)
(*     an event on the trigger channel;                                    *)
(*   ServiceEntryReconciler merges the Endpoints' addresses into the       *)
(*     ServiceEntry and applies the weights of the WeightOptimizer.        *)
(*                                                                         *)
(* Every Get and every Update is a step of its own, because between them   *)
(* the objects change and the cache catches up.  A WeightOptimizer is      *)
(* written here by the environment; module WeightOptimizer models its      *)
(* writer.                                                                 *)
(***************************************************************************)
EXTENDS WeightMath, CachedObject

CONSTANTS
  Addr,                  \* the addresses pods may have
  Published,             \* the weight maps a WeightOptimizer may hold
  ChannelCapacity,       \* capacity of ServiceEntryReconcileTriggerChannel
  Installed,             \* TRUE: the manager starts on a cluster it managed before
  MaxEndpointsVersions,  \* bound: changes of the Endpoints stop at this version
  MaxPublished,          \* bound: versions of the WeightOptimizer
  MaxFaults              \* bound: restarts of the manager and calls that fail

\* A cluster has finitely many pod addresses, a weight is a uint32.
ASSUME SyncAssumption ==
  /\ IsFiniteSet(Addr)
  /\ \A weights \in Published :
       DOMAIN weights \subseteq Addr /\ \A a \in DOMAIN weights : weights[a] \in Nat
  /\ ChannelCapacity \in Nat \ {0}
  /\ Installed \in BOOLEAN
  /\ MaxEndpointsVersions \in Nat
  /\ MaxPublished \in Nat
  /\ MaxFaults \in Nat

VARIABLES
  \* Objects.  The version of an Endpoints is [rv, addrs, annotated], of a
  \* WeightOptimizer [rv, weights], of a ServiceEntry [rv, weights, epv, wov]:
  \* the history fields epv and wov name the versions of the Endpoints and of
  \* the WeightOptimizer whose addresses and weights were written last.
  endpoints, weightOptimizer, serviceEntry,
  optimizerQueue,    \* work queue of the IstioAdaptiveRequestOptimizerReconciler
  optimizer,         \* its worker: [pc, ep], ep the Endpoints it fetched
  endpointsQueue,    \* work queue of the EndpointReconciler
  endpointsWorker,   \* its worker: "idle", or "send" before the channel send
  channel,           \* events in ServiceEntryReconcileTriggerChannel
  syncQueue,         \* work queue of the ServiceEntryReconciler
  worker,            \* its worker: [pc, se, wo], se and wo the copies it fetched
  faults

objects == <<endpoints, weightOptimizer, serviceEntry>>
optimizerVars == <<optimizerQueue, optimizer>>
endpointsVars == <<endpointsQueue, endpointsWorker>>
syncVars == <<syncQueue, worker>>
vars == <<objects, optimizerVars, endpointsVars, channel, syncVars, faults>>

-----------------------------------------------------------------------------
NoWeights == [a \in {} |-> 0]
NoWeightOptimizer == [rv |-> 0, weights |-> NoWeights]
NoServiceEntry == [rv |-> 0, weights |-> NoWeights, epv |-> 0, wov |-> 0]
NoEndpoints == [rv |-> 0, addrs |-> {}, annotated |-> FALSE]

\* The worker of the ServiceEntryReconciler at pc, with the copies it holds.
At(pc, se, wo) == [pc |-> pc, se |-> se, wo |-> wo]
Idle == At("idle", NoServiceEntry, NoWeightOptimizer)

OptimizerIdle == [pc |-> "idle", ep |-> NoEndpoints]

\* The constant of the same name.
DefaultWeightForNewEndpoints == 1000

\* The ServiceEntry createServiceEntry builds from the Endpoints it was given.
NewServiceEntry(ep) ==
  [rv |-> 1, weights |-> [a \in ep.addrs |-> DefaultWeightForNewEndpoints], epv |-> ep.rv, wov |-> 0]

MergeEndpoints(se, ep) ==
  [rv |-> se.rv, weights |-> MergedWeights(se.weights, ep.addrs), epv |-> ep.rv, wov |-> se.wov]

\* A variant that compares the number of addresses only.
AddressesChangedByNumber(existing, new) == Cardinality(existing) # Cardinality(new)

\* addressesChanged: another number of addresses, or one that was not there.
AddressesChanged(existing, new) ==
  \/ Cardinality(existing) # Cardinality(new)
  \/ \E a \in new : a \notin existing

ApplyWeights(se, wo) ==
  [rv |-> se.rv, weights |-> AppliedWeights(se.weights, wo.weights), epv |-> se.epv, wov |-> wo.rv]

\* A variant whose Update carries no resourceVersion.
UpdateAcceptedUnversioned(se) == Exists(serviceEntry.stored)

\* Whether the API server takes the Update of a fetched and modified copy.
UpdateAccepted(se) == Accepts(serviceEntry, se)

\* The ServiceEntry after an accepted Update.  The API server makes no new
\* version of an object whose content is what it holds.
Put(se) ==
  IF se.weights = serviceEntry.stored.weights THEN serviceEntry
  ELSE Write(serviceEntry, [rv |-> serviceEntry.stored.rv + 1, weights |-> se.weights,
                            epv |-> se.epv, wov |-> se.wov])

-----------------------------------------------------------------------------
(***************************************************************************)
(* Installed = FALSE: the optimizer has just been created for a service    *)
(* nobody optimized.  Installed = TRUE: the manager starts where an        *)
(* earlier one left the Endpoints annotated and the ServiceEntry in step.  *)
(***************************************************************************)
Init ==
  /\ \E addrs \in SUBSET Addr :
       LET ep == [rv |-> 1, addrs |-> addrs, annotated |-> Installed]
       IN  /\ endpoints = Cached(ep)
           /\ serviceEntry = Cached(IF Installed THEN NewServiceEntry(ep) ELSE NoServiceEntry)
  /\ weightOptimizer = Cached(NoWeightOptimizer)
  /\ optimizerQueue = TRUE
  /\ optimizer = OptimizerIdle
  /\ endpointsQueue = Installed
  /\ endpointsWorker = "idle"
  /\ channel = 0
  /\ syncQueue = FALSE
  /\ worker = Idle
  /\ faults = 0

-----------------------------------------------------------------------------
\* What MaxFaults bounds.
Fault == faults < MaxFaults /\ faults' = faults + 1

(* The environment: pods come and go, the weights are optimized.           *)

ChangeEndpoints ==
  /\ endpoints.stored.rv < MaxEndpointsVersions
  /\ \E addrs \in SUBSET Addr \ {endpoints.stored.addrs} :
       endpoints' = Write(endpoints, [rv |-> endpoints.stored.rv + 1, addrs |-> addrs,
                                      annotated |-> endpoints.stored.annotated])
  /\ UNCHANGED <<weightOptimizer, serviceEntry, optimizerVars, endpointsVars, channel, syncVars, faults>>

PublishWeights ==
  /\ weightOptimizer.stored.rv < MaxPublished
  /\ \E weights \in Published :
       weightOptimizer' = Write(weightOptimizer, [rv |-> weightOptimizer.stored.rv + 1, weights |-> weights])
  /\ UNCHANGED <<endpoints, serviceEntry, optimizerVars, endpointsVars, channel, syncVars, faults>>

-----------------------------------------------------------------------------
(* The informers.  An event reaches a controller whose predicate lets it   *)
(* pass; nothing watches the ServiceEntry.                                 *)

DeliverEndpoints ==
  /\ \E v \in endpoints.watch :
       /\ endpoints' = Deliver(endpoints, v)
       /\ endpointsQueue' = (endpointsQueue \/ v.annotated)
  /\ UNCHANGED <<weightOptimizer, serviceEntry, optimizerVars, endpointsWorker, channel, syncVars, faults>>

DeliverWeightOptimizer ==
  /\ \E v \in weightOptimizer.watch : weightOptimizer' = Deliver(weightOptimizer, v)
  /\ syncQueue' = TRUE
  /\ UNCHANGED <<endpoints, serviceEntry, optimizerVars, endpointsVars, channel, worker, faults>>

DeliverServiceEntry ==
  /\ \E v \in serviceEntry.watch : serviceEntry' = Deliver(serviceEntry, v)
  /\ UNCHANGED <<endpoints, weightOptimizer, optimizerVars, endpointsVars, channel, syncVars, faults>>

\* An event of the optimizer itself: its finalizer, its status, an edit.
OptimizerEvent ==
  /\ optimizerQueue' = TRUE
  /\ UNCHANGED <<objects, optimizer, endpointsVars, channel, syncVars, faults>>

\* The periodic resync of the informers (10 hours by default) hands every
\* cached object to the controllers once more.
Resync ==
  /\ optimizerQueue' = TRUE
  /\ endpointsQueue' = (endpointsQueue \/ endpoints.cached.annotated)
  /\ syncQueue' = (syncQueue \/ Exists(weightOptimizer.cached))
  /\ UNCHANGED <<objects, optimizer, endpointsWorker, channel, worker, faults>>

\* The manager stops at any point and starts again: what was in memory is
\* gone, the caches are listed anew, every listed object is an event.
Restart ==
  /\ Fault
  /\ endpoints' = Relist(endpoints)
  /\ weightOptimizer' = Relist(weightOptimizer)
  /\ serviceEntry' = Relist(serviceEntry)
  /\ optimizerQueue' = TRUE
  /\ optimizer' = OptimizerIdle
  /\ endpointsQueue' = endpoints.stored.annotated
  /\ endpointsWorker' = "idle"
  /\ channel' = 0
  /\ syncQueue' = Exists(weightOptimizer.stored)
  /\ worker' = Idle

-----------------------------------------------------------------------------
(***************************************************************************)
(* IstioAdaptiveRequestOptimizerReconciler.Reconcile for one port, of an   *)
(* optimizer that names it and whose finalizer is in place: fetch the      *)
(* Endpoints, annotate it, create the ServiceEntry where there is none.    *)
(***************************************************************************)
FetchEndpoints ==
  /\ optimizer.pc = "idle"
  /\ optimizerQueue
  /\ optimizerQueue' = FALSE
  /\ optimizer' = [pc |-> "annotate", ep |-> endpoints.cached]
  /\ UNCHANGED <<objects, endpointsVars, channel, syncVars, faults>>

\* annotateEndpoints writes back the whole Endpoints it was handed.
AnnotateEndpoints ==
  /\ optimizer.pc = "annotate"
  /\ Accepts(endpoints, optimizer.ep)
  /\ endpoints' = IF endpoints.stored.annotated THEN endpoints
                  ELSE Write(endpoints, [rv |-> endpoints.stored.rv + 1, addrs |-> optimizer.ep.addrs,
                                           annotated |-> TRUE])
  /\ optimizer' = [pc |-> "create", ep |-> optimizer.ep]
  /\ UNCHANGED <<weightOptimizer, serviceEntry, optimizerQueue, endpointsVars, channel, syncVars, faults>>

\* A rejected or failed annotation ends the reconcile with an error.
RetryAnnotation ==
  /\ optimizer.pc = "annotate"
  /\ \/ ~Accepts(endpoints, optimizer.ep) /\ UNCHANGED faults
     \/ Fault
  /\ optimizer' = OptimizerIdle
  /\ optimizerQueue' = TRUE
  /\ UNCHANGED <<objects, endpointsVars, channel, syncVars>>

\* createServiceEntry.  It looks for the ServiceEntry in the cache; a Create
\* that fails, be it with AlreadyExists, is logged and not retried.
CreateServiceEntry ==
  /\ optimizer.pc = "create"
  /\ \/ /\ ~Exists(serviceEntry.cached)
        /\ ~Exists(serviceEntry.stored)
        /\ serviceEntry' = Write(serviceEntry, NewServiceEntry(optimizer.ep))
        /\ UNCHANGED faults
     \/ /\ Exists(serviceEntry.cached) \/ Exists(serviceEntry.stored)
        /\ UNCHANGED <<serviceEntry, faults>>
     \/ /\ ~Exists(serviceEntry.cached)
        /\ Fault
        /\ UNCHANGED serviceEntry
  /\ optimizer' = OptimizerIdle
  /\ UNCHANGED <<endpoints, weightOptimizer, optimizerQueue, endpointsVars, channel, syncVars>>

-----------------------------------------------------------------------------
(***************************************************************************)
(* EndpointReconciler.Reconcile: list the service entries of the service   *)
(* and send an event for each, waiting while the channel is full.          *)
(***************************************************************************)
ListServiceEntries ==
  /\ endpointsWorker = "idle"
  /\ endpointsQueue
  /\ endpointsQueue' = FALSE
  /\ endpointsWorker' = IF Exists(serviceEntry.cached) THEN "send" ELSE "idle"
  /\ UNCHANGED <<objects, optimizerVars, channel, syncVars, faults>>

ChannelHasRoom == channel < ChannelCapacity

SendTrigger ==
  /\ endpointsWorker = "send"
  /\ ChannelHasRoom
  /\ channel' = channel + 1
  /\ endpointsWorker' = "idle"
  /\ UNCHANGED <<objects, optimizerVars, endpointsQueue, syncVars, faults>>

\* source.Channel moves an event from the channel to the work queue.
ForwardTrigger ==
  /\ channel > 0
  /\ channel' = channel - 1
  /\ syncQueue' = TRUE
  /\ UNCHANGED <<objects, optimizerVars, endpointsVars, worker, faults>>

-----------------------------------------------------------------------------
(***************************************************************************)
(* ServiceEntryReconciler.Reconcile.                                       *)
(*                                                                         *)
(*   idle -> merge -> putMerged -> fetchWeights -> apply -> putWeights     *)
(*                                                                         *)
(* HandleEndpointUpdate is merge and putMerged, ValidateAndUpdateWeights   *)
(* is apply and putWeights.                                                *)
(***************************************************************************)
Finish == worker' = Idle /\ UNCHANGED syncQueue

\* Reconcile returns an error, so the request goes back to the work queue.
FinishWithError == worker' = Idle /\ syncQueue' = TRUE

StartSync ==
  /\ worker.pc = "idle"
  /\ syncQueue
  /\ syncQueue' = FALSE
  /\ worker' = IF Exists(serviceEntry.cached)
               THEN At("merge", serviceEntry.cached, NoWeightOptimizer)
               ELSE At("fetchWeights", NoServiceEntry, NoWeightOptimizer)
  /\ UNCHANGED <<objects, optimizerVars, endpointsVars, channel, faults>>

MergeAddresses ==
  /\ worker.pc = "merge"
  /\ LET merged == MergeEndpoints(worker.se, endpoints.cached)
     IN  worker' = IF AddressesChanged(DOMAIN worker.se.weights, DOMAIN merged.weights)
                   THEN At("putMerged", merged, NoWeightOptimizer)
                   ELSE At("fetchWeights", NoServiceEntry, NoWeightOptimizer)
  /\ UNCHANGED <<objects, optimizerVars, endpointsVars, channel, syncQueue, faults>>

\* The error of this Update is logged and dropped: the reconcile goes on.
UpdateAddresses ==
  /\ worker.pc = "putMerged"
  /\ \/ /\ UpdateAccepted(worker.se)
        /\ serviceEntry' = Put(worker.se)
        /\ UNCHANGED faults
     \/ /\ ~UpdateAccepted(worker.se)
        /\ UNCHANGED <<serviceEntry, faults>>
     \/ /\ Fault
        /\ UNCHANGED serviceEntry
  /\ worker' = At("fetchWeights", NoServiceEntry, NoWeightOptimizer)
  /\ UNCHANGED <<endpoints, weightOptimizer, optimizerVars, endpointsVars, channel, syncQueue>>

FetchWeightOptimizer ==
  /\ worker.pc = "fetchWeights"
  /\ \/ /\ ~Exists(weightOptimizer.cached)
        /\ Finish
     \/ /\ Exists(weightOptimizer.cached)
        /\ worker' = At("apply", NoServiceEntry, weightOptimizer.cached)
        /\ UNCHANGED syncQueue
  /\ UNCHANGED <<objects, optimizerVars, endpointsVars, channel, faults>>

\* The ServiceEntry is fetched a second time.  One that is not found is
\* ignored, and the Update of the empty object that follows fails.
ApplyPublishedWeights ==
  /\ worker.pc = "apply"
  /\ \/ /\ ~Exists(serviceEntry.cached)
        /\ FinishWithError
     \/ /\ Exists(serviceEntry.cached)
        /\ worker' = At("putWeights", ApplyWeights(serviceEntry.cached, worker.wo), worker.wo)
        /\ UNCHANGED syncQueue
  /\ UNCHANGED <<objects, optimizerVars, endpointsVars, channel, faults>>

\* A variant that drops the conflict as HandleEndpointUpdate does.
WeightsConflictDropped ==
  ~UpdateAccepted(worker.se) /\ Finish /\ UNCHANGED <<serviceEntry, faults>>

WeightsConflict ==
  ~UpdateAccepted(worker.se) /\ FinishWithError /\ UNCHANGED <<serviceEntry, faults>>

\* A failed Update may have been stored all the same, its answer lost.
UpdateWeights ==
  /\ worker.pc = "putWeights"
  /\ \/ /\ UpdateAccepted(worker.se)
        /\ serviceEntry' = Put(worker.se)
        /\ \/ Finish /\ UNCHANGED faults
           \/ FinishWithError /\ Fault
     \/ WeightsConflict
     \/ /\ Fault
        /\ FinishWithError
        /\ UNCHANGED serviceEntry
  /\ UNCHANGED <<endpoints, weightOptimizer, optimizerVars, endpointsVars, channel>>

-----------------------------------------------------------------------------
Environment == ChangeEndpoints \/ PublishWeights \/ OptimizerEvent \/ Resync \/ Restart

Informers == DeliverEndpoints \/ DeliverWeightOptimizer \/ DeliverServiceEntry

OptimizerReconcile == FetchEndpoints \/ AnnotateEndpoints \/ RetryAnnotation \/ CreateServiceEntry

EndpointsReconcile == ListServiceEntries \/ SendTrigger

Sync ==
  \/ StartSync \/ MergeAddresses \/ UpdateAddresses
  \/ FetchWeightOptimizer \/ ApplyPublishedWeights \/ UpdateWeights

Next == Environment \/ Informers \/ OptimizerReconcile \/ EndpointsReconcile \/ ForwardTrigger \/ Sync

Spec == Init /\ [][Next]_vars

(***************************************************************************)
(* Fairness: the watch delivers what was written, a worker goroutine takes *)
(* its next step, and the channel source forwards.  Nothing is assumed of  *)
(* pods, of the optimization, of restarts, of failing calls, of optimizer  *)
(* events or of the resync timer.                                          *)
(***************************************************************************)
Fairness ==
  /\ WF_vars(Informers)
  /\ WF_vars(OptimizerReconcile)
  /\ WF_vars(EndpointsReconcile)
  /\ WF_vars(ForwardTrigger)
  /\ WF_vars(Sync)

FairSpec == Spec /\ Fairness

-----------------------------------------------------------------------------
ServiceEntryVersion(v) ==
  /\ v.rv \in Nat
  /\ DOMAIN v.weights \subseteq Addr
  /\ v.epv \in Nat
  /\ v.wov \in Nat

WeightOptimizerVersion(v) ==
  /\ v.rv \in Nat
  /\ DOMAIN v.weights \subseteq Addr

EndpointsVersions == [rv : Nat, addrs : SUBSET Addr, annotated : BOOLEAN]

\* The types of the state, with the capacity of the trigger channel that
\* EndpointReconciler's send respects (cmd/main.go makes it with capacity 100).
TypeOK ==
  /\ endpoints.stored \in EndpointsVersions
  /\ endpoints.cached \in EndpointsVersions
  /\ endpoints.watch \subseteq EndpointsVersions
  /\ \A v \in serviceEntry.watch \cup {serviceEntry.stored, serviceEntry.cached, worker.se} :
       ServiceEntryVersion(v)
  /\ \A v \in weightOptimizer.watch \cup {weightOptimizer.stored, weightOptimizer.cached, worker.wo} :
       WeightOptimizerVersion(v)
  /\ optimizer \in [pc : {"idle", "annotate", "create"}, ep : EndpointsVersions]
  /\ worker.pc \in {"idle", "merge", "putMerged", "fetchWeights", "apply", "putWeights"}
  /\ optimizerQueue \in BOOLEAN /\ endpointsQueue \in BOOLEAN /\ syncQueue \in BOOLEAN
  /\ endpointsWorker \in {"idle", "send"}
  /\ channel \in 0..ChannelCapacity
  /\ faults \in 0..MaxFaults

(***************************************************************************)
(* Safety.                                                                 *)
(***************************************************************************)
\* A ServiceEntry written from the Endpoints' current version lists exactly
\* its addresses: the merge drops the pods that left, whichever copy of the
\* ServiceEntry it started from (HandleEndpointUpdate, createServiceEntry).
MirrorIsFaithful ==
  Exists(serviceEntry.stored) /\ serviceEntry.stored.epv = endpoints.stored.rv
    => DOMAIN serviceEntry.stored.weights = endpoints.stored.addrs

\* The addresses of the ServiceEntry never go back to those of an older
\* Endpoints version, although both updates of a reconcile are computed from
\* cached copies that may be stale (HandleEndpointUpdate, ValidateAndUpdateWeights).
AddressesNeverRollBack ==
  [][serviceEntry'.stored.epv >= serviceEntry.stored.epv]_serviceEntry

\* The weights of an older WeightOptimizer version never replace those of a
\* newer one: neither a merge that carries the old weights over nor a second
\* reconcile undoes ValidateAndUpdateWeights.
WeightsNeverRollBack ==
  [][serviceEntry'.stored.wov >= serviceEntry.stored.wov]_serviceEntry

\* One step on an existing ServiceEntry either changes its addresses, and then
\* the ones that stay keep their weights, or it keeps the addresses and gives
\* some of them the weight a WeightOptimizer version published.
SurvivorsKeepWeight ==
  [][Exists(serviceEntry.stored) =>
       LET old == serviceEntry.stored.weights
           new == serviceEntry'.stored.weights
       IN  \A a \in DOMAIN old \cap DOMAIN new :
             new[a] # old[a] => /\ DOMAIN old = DOMAIN new
                                /\ new[a] = PublishedWeight(worker.wo.weights, a)]_serviceEntry

\* No endpoint is ever cut off from traffic by a weight of 0, which a merge of
\* missing values or a WeightOptimizer entry of 0 could bring in.
NoZeroWeight ==
  \A a \in DOMAIN serviceEntry.stored.weights : serviceEntry.stored.weights[a] > 0

\* No event is under way, no request queued, no worker at work.
AtRest ==
  /\ endpoints.watch = {} /\ weightOptimizer.watch = {} /\ serviceEntry.watch = {}
  /\ ~optimizerQueue /\ optimizer.pc = "idle"
  /\ ~endpointsQueue /\ endpointsWorker = "idle"
  /\ channel = 0
  /\ ~syncQueue /\ worker.pc = "idle"

\* Every nonzero weight of the WeightOptimizer is in the ServiceEntry.
WeightsInPlace ==
  \A a \in DOMAIN serviceEntry.stored.weights :
    LET weight == PublishedWeight(weightOptimizer.stored.weights, a)
    IN  weight # 0 => serviceEntry.stored.weights[a] = weight

\* When the manager is at rest the published weights are in place: the
\* conflicts a stale ServiceEntry causes have been retried (Reconcile returns
\* the error of ValidateAndUpdateWeights), also those of weights published
\* before there was a ServiceEntry.
WeightsInPlaceAtRest == AtRest => WeightsInPlace

\* What the comment over HandleEndpointUpdate says ("checks for changes in the
\* Endpoints and updates the ServiceEntry if necessary"): when the manager is
\* at rest the ServiceEntry lists the addresses of the Endpoints.
AddressesInPlaceAtRest ==
  AtRest /\ Exists(serviceEntry.stored)
    => DOMAIN serviceEntry.stored.weights = endpoints.stored.addrs

(***************************************************************************)
(* The inductive invariant behind these properties: what a fetched copy    *)
(* still tells once the object has moved on.                               *)
(***************************************************************************)
Caches == Coherent(endpoints) /\ Coherent(weightOptimizer) /\ Coherent(serviceEntry)

\* What was written to the ServiceEntry was read from the caches.
WrittenFromCache ==
  /\ serviceEntry.stored.epv <= endpoints.cached.rv
  /\ serviceEntry.stored.wov <= weightOptimizer.cached.rv
  /\ Exists(serviceEntry.stored) /\ serviceEntry.stored.epv = endpoints.cached.rv
       => DOMAIN serviceEntry.stored.weights = endpoints.cached.addrs
  /\ ~Exists(serviceEntry.stored) => serviceEntry.stored = NoServiceEntry

OptimizerCopy ==
  /\ optimizer.ep.rv <= endpoints.cached.rv
  /\ optimizer.pc # "idle" /\ optimizer.ep.rv = endpoints.cached.rv
       => optimizer.ep.addrs = endpoints.cached.addrs

\* A copy that holds the stored resourceVersion differs from the stored object
\* by what the reconcile changed.
WorkerCopy ==
  /\ worker.pc \in {"merge", "putMerged", "putWeights"}
       => Exists(worker.se) /\ worker.se.rv <= serviceEntry.stored.rv
  /\ worker.pc = "merge" /\ worker.se.rv = serviceEntry.stored.rv
       => worker.se = serviceEntry.stored
  /\ worker.pc = "putMerged"
       => /\ worker.se.epv <= endpoints.cached.rv
          /\ worker.se.epv = endpoints.cached.rv => DOMAIN worker.se.weights = endpoints.cached.addrs
  /\ worker.pc = "putMerged" /\ worker.se.rv = serviceEntry.stored.rv
       => /\ worker.se.epv >= serviceEntry.stored.epv
          /\ worker.se.wov = serviceEntry.stored.wov
          /\ \A a \in DOMAIN worker.se.weights \cap DOMAIN serviceEntry.stored.weights :
               worker.se.weights[a] = serviceEntry.stored.weights[a]
  /\ worker.pc \in {"apply", "putWeights"}
       => /\ worker.wo.rv >= serviceEntry.stored.wov
          /\ worker.wo.rv <= weightOptimizer.cached.rv
  /\ worker.pc = "putWeights" /\ worker.se.rv = serviceEntry.stored.rv
       => worker.se = ApplyWeights(serviceEntry.stored, worker.wo)

\* Every copy a reconciler works with is as old as the caches allow, and an
\* Update that is accepted changes the stored object by the reconcile's own
\* edit only.
SyncInv == TypeOK /\ Caches /\ WrittenFromCache /\ OptimizerCopy /\ WorkerCopy

\* Every copy of the ServiceEntry, written, cached, under way or in the worker's
\* hands, has its weights in W; so has every copy of the WeightOptimizer, but for
\* the weights it does not have (0).
AllIn(weights, W) == \A a \in DOMAIN weights : weights[a] \in W

WeightsIn(W) ==
  /\ \A v \in serviceEntry.watch \cup {serviceEntry.stored, serviceEntry.cached, worker.se} : AllIn(v.weights, W)
  /\ \A v \in weightOptimizer.watch \cup {weightOptimizer.stored, weightOptimizer.cached, worker.wo} :
       AllIn(v.weights, W \cup {0})

(***************************************************************************)
(* Liveness.                                                               *)
(***************************************************************************)
\* Once pods stop changing, the resync timer of the informers, if it keeps
\* firing, brings the addresses of the ServiceEntry to those of the Endpoints,
\* whatever trigger or update was lost before, and they stay there.
AddressesConverge ==
  WF_vars(Resync) => <>[](Exists(serviceEntry.stored) /\ DOMAIN serviceEntry.stored.weights = endpoints.stored.addrs)

\* Once the optimization stops publishing, every published weight reaches the
\* address it was meant for, also when the ServiceEntry was created later.
WeightsConverge == <>[]WeightsInPlace
=============================================================================
