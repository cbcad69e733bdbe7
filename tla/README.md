# Adaptive least request for Istio, in TLA+

This directory holds the formal model of the controller manager in `src/`: what its reconcilers do to
the objects of a cluster, checked with TLC on small instances and proved with TLAPS for all of them.

The program balances load by weights. For a service under optimization it keeps a **ServiceEntry** whose
endpoints mirror the addresses of the Kubernetes **Endpoints**, and it turns CPU readings into the
weights of those endpoints, by way of a **WeightOptimizer** object. Four reconcilers share the work and
never call each other: they meet in the objects of the API server, which they read through an informer
cache, and in one Go channel.

```
 IstioAdaptiveRequestOptimizer ──(1) annotates──> Endpoints <── pods come and go
            │                                         │ event
            │ (1) creates                             v
            │                              (2) EndpointReconciler
            v                                         │ channel, capacity 100
      ServiceEntry <──────(3) merges, applies──── ServiceEntryReconciler
            │                                         ^ event
            │ weights                                 │
            └──────> (4) WeightOptimizerReconciler ──> WeightOptimizer, gauges
                              ^ CPU readings (VictoriaMetrics)
```

## 1. Inventory

| Component | State it keeps | Operations | Hard behaviour | What makes it correct |
|---|---|---|---|---|
| IstioAdaptiveRequestOptimizerReconciler (`istioadaptiverequestoptimizer_controller.go`) | work queue; finalizer and status on its object | pick the ports, annotate the Endpoints, create a ServiceEntry per port, status, clean-up | decisions from a stale optimizer; Endpoints read before and used after two calls; a failed Create only logged; an entry of an earlier optimizer taken for its own; a clean-up that depends on objects that may be gone | what it creates is brought up to date; deletion finishes and removes what was created |
| EndpointReconciler (`endpoint_controller.go`) | work queue, what is left of its list | list service entries of the service, send one trigger each | List on a cache that lags; a send that blocks halfway through the list, with all services behind it; Endpoints gone before they are fetched | no trigger is lost, every entry catches up with the Endpoints |
| ServiceEntryReconciler (`serviceentry_controller.go`) | work queue, trigger channel | merge addresses, apply weights: two read-modify-writes of one object per request | copies of different ages; conflicts, one returned and one dropped | addresses and weights advance only, survive each other, arrive in the end |
| WeightOptimizerReconciler (`weightoptimizer_controller.go`) | work queue with RequeueAfter; Prometheus series | a loop over the ports; readings → multipliers → weights → Update; fallback to a default weight; reset timer | feedback through the ServiceEntry; dates read from a cache; rounding; series that outlive endpoints; a loop that only RequeueAfter keeps alive; objects made for an optimizer that has just gone | weights bounded; resets spaced; dates monotone; series match what is published; every port optimized; nothing comes back or stays behind |
| Weight arithmetic (in the last two) | none | clamp, median, adjustment, defaults for newcomers, merge, application | truncated floats, even medians, empty sets, a missing reading | agrees with what the comments and names promise |
| Cache and API server (controller-runtime, external) | stored objects, cached copies, watch | Get, List, Update, Create, Delete, watch, relist, resync, garbage collection by owner reference | stale reads, conflicts, a collector that comes late | |
| Gauges (`weight_metrics.go`, `helpers/utils.go`) | series by label | set, delete | deleted before a write that fails, or never | only published endpoints are exported |
| VictoriaMetrics query | none | HTTP GET | failure, missing pods | |
| Flags, start-up (`cmd/main.go`), API types, string helpers, manifests, test harness | none | | | |

`PROJECT.json` lists these components with what is modelled of each, and every hazard at its line with
the property that would catch it.

## 2. Modules

| Module | What it is |
|---|---|
| `CachedObject` | An object behind the API server and a cache: `stored`, `cached`, and the `watch` of versions still to be delivered. A version has a resourceVersion `rv`; `rv = 0` is an object that does not exist. External, as the code uses it: an Update is accepted if it carries the stored `rv`; a cache sees the versions in order and may skip to a later one; a restart relists. |
| `WeightMath` | The arithmetic, as operators. A multiplier is a rational `[num, den]`; `uint32(math.Floor or float product)` is `Truncations`, the integers a rounded float product may be truncated to. Sets of results stand for what an unstable sort or a rounding leaves open. |
| `ServiceEntrySync` | Reconcilers (1), (2), (3): how the ServiceEntry follows Endpoints and WeightOptimizer. |
| `TriggerQueue` | Reconciler (2), its channel, and the queues on both sides: how an event of one of several services gets to each of its service entries. |
| `ServiceEntryContract` | The abstract ServiceEntry: what it promises the mesh, in five actions (change, publish, create, merge, apply). |
| `ServiceEntryHistory` | `ServiceEntrySync` with the history of both its sources, and the refinement mapping onto `ServiceEntryContract`. |
| `WeightOptimizer` | Reconciler (4) for one port: a cycle from readings to the Update or the reset. |
| `OptimizationCycles` | Reconciler (4) around that: its loop over the ports, cycle after cycle, while optimizers come and go. |
| `OptimizerLifecycle` | Reconciler (1) over the life of an optimizer: finalizer, ports, annotation, entries, status, clean-up. |
| `WeightWalk` | The arithmetic on the weights the loop itself produces: pods come and go, readings change, and each cycle applies the multipliers of the one before. Its properties compare the arithmetic with reference definitions. |
| `MC...` | Instances for TLC. |
| `...Proofs` | Lemmas, theorems and proofs of the module they are named after. |

Each reconciler's loop and the arithmetic inside it are modules of their own: what `OptimizationCycles` knows of a
WeightOptimizer is whether it holds weights made from metrics, and `WeightOptimizer` says which;
`OptimizerLifecycle` knows whose a ServiceEntry is, and `ServiceEntrySync` says what is in it.

### ServiceEntrySync and the code

One service, one port, one ServiceEntry. `endpoints`, `weightOptimizer` and `serviceEntry` are cached
objects. Each controller has a queue, a Boolean because a work queue holds a request once, and one worker,
because `MaxConcurrentReconciles` is left at 1. A worker is a record with a program counter and the
copies it fetched, so each Get and each Update of the code is a step and everything else may happen
between two of them.

| Actions | Code |
|---|---|
| `FetchEndpoints`, `AnnotateEndpoints`, `RetryAnnotation`, `CreateServiceEntry` | `Reconcile`, `annotateEndpoints`, `createServiceEntry` of reconciler (1) |
| `ListServiceEntries`, `SendTrigger` | `EndpointReconciler.Reconcile`, before and at the channel send |
| `ForwardTrigger` | `source.Channel` in `SetupWithManager` |
| `StartSync` | `Reconcile` and the Get of `HandleEndpointUpdate` |
| `MergeAddresses`, `UpdateAddresses` | the Get of the Endpoints, the merge, `addressesChanged`; the Update whose error is dropped |
| `FetchWeightOptimizer` | the Get in `Reconcile` |
| `ApplyPublishedWeights`, `UpdateWeights` | second Get and application; the Update whose error is returned |
| `DeliverEndpoints`, `DeliverWeightOptimizer`, `DeliverServiceEntry`, `Resync`, `Restart`, `OptimizerEvent` | informers with the predicates of the controllers, start and stop, events of the optimizer |
| `ChangeEndpoints`, `PublishWeights` | the cluster; the outcome of `WeightOptimizer` |

A version of the ServiceEntry carries two history fields, `epv` and `wov`, the versions of the
Endpoints and of the WeightOptimizer it was last written from. No guard reads them; they let the
properties speak about order. `UpdateWeights` also covers an Update that was stored and whose answer was
lost.

`ServiceEntryHistory` adds two sequences, the addresses of every version of the Endpoints and the weights of
every version of the WeightOptimizer so far. With them `KeepsContract` says that the reconcilers, with their
caches, conflicts and retries, implement an object that is created from one version of the Endpoints, moves
to the addresses of another one with the weights of those that stay (`Merge`), takes the weights of a version
of the WeightOptimizer (`Apply`), and never goes back in either.

### TriggerQueue and the code

| Actions | Code |
|---|---|
| `DeliverEndpoints` | the event filter of `EndpointReconciler`: annotated Endpoints, no deletion |
| `FetchEndpoints` | the Get of `Reconcile`; what is not found is an error and comes back |
| `ListServiceEntries`, `SendTrigger` | the List by label; the loop of sends, the worker keeping what is `Left` |
| `ForwardTrigger` | `source.Channel`, which adds the request to the work queue |
| `StartSync`, `ReadEndpoints`, `FinishSync` | `ServiceEntryReconciler.Reconcile`, of which only the two Gets of `HandleEndpointUpdate` and the error at the end matter here |
| `AnnotateEndpoints`, `CreateServiceEntry`, `CollectEntry`, `ChangeEndpoints` | what reconciler (1), the garbage collector and the cluster do to the objects, at any time |

Work queues are sequences without duplicates, first in first out, and so is the channel. Two history
functions let `NoTriggerLost` speak of order: `since`, the Endpoints the cache held when it learnt of an entry,
and `synced`, the last Endpoints a reconcile of the entry read. An entry is `Due` when the cache
has annotated Endpoints newer than `since`. What arrived before is nobody's trigger, which is the gap
`SyncMissedTrigger` shows.

### WeightOptimizer and the code

`StartCycle` fetches the ServiceEntry's weights, `ReceiveMetrics` or `FailMetrics` is the answer of
`getPodMetrics`, `CalculateNewWeights` and `FallbackStrategy` each include `ensureWeightOptimizer`
(`FailToEnsure` is its failure), and `UpdateWeightOptimizer`, `ResetWeights` and `FailUpdate` are what
becomes of the Update. A `listPods` that fails is `StartCycle` going idle. The gauges, a set of addresses, change where the code changes them: series are deleted before the
Update and set after it. `lastSuccess` and `lastReset` are history, dated as the code dates `LastOptimized`: when the weights stored were calculated. The ServiceEntry is the environment's in
this module: pods change, and `ApplyToServiceEntry` applies what the cache shows as published, with the
operator `ServiceEntrySync` uses. Readings are abstracted to the results of `updatePodMetrics`: `Samples`.

### WeightWalk and the code

A state is what the next cycle starts from: the ServiceEntry's `weights`, the readings, and the `multipliers` the WeightOptimizer
holds. `Optimize` is `calculateNewWeights` with its application: a pod the WeightOptimizer knows gets the multiplier stored in
the cycle before, another one its own. `ChangePods` is the merge of `HandleEndpointUpdate`. Either is one step, so nothing is late, lost or in conflict
here; that is for `WeightOptimizer` and `ServiceEntrySync`.

### OptimizationCycles and the code

`StartCycle` fetches the optimizer and does nothing for one that is gone or going. For each port
`FetchServiceEntry` is the code up to the metrics (`continue` is `NextPort`, `return err` is `EndCycle`),
`EnsureWeightOptimizer` is `ensureWeightOptimizer` for the new weights or for `fallbackStrategy`, and
`UpdateWeightOptimizer` the Update of either. `EndCycle` puts the optimizer back in the queue:
an error does so at once, `RequeueAfter` in the end. Deletions do not pass the event filter
(`DeliverOptimizer`), so what becomes of an optimizer that goes and comes back is a matter of what the queue
still holds. The garbage collector deletes WeightOptimizers whose owner is gone, also when a cycle that is still under way
makes them afterwards. `CreateServiceEntry` and `EmptyServiceEntry` are the other reconcilers', while the loop runs.

### OptimizerLifecycle and the code

| Actions | Code |
|---|---|
| `StartReconcile`, `AddFinalizer` | `Reconcile` to `addFinalizer`, whose Update brings the copy up to date |
| `FetchEndpoints`, `AnnotateEndpoints` | the Gets of Service and Endpoints; `annotateEndpoints` |
| `CreateServiceEntry` | `createServiceEntry` for the next of `collectPortsToProcess`: an entry that exists is taken, a failed Create is skipped |
| `UpdateStatus` | `updateOptimizerStatus` |
| `FetchAnnotation`, `RemoveAnnotation`, `CleanPods`, `RemoveFinalizer` | `handleFinalizer` |
| `CreateOptimizer`, `DeleteOptimizer`, `DeleteService`, `DeleteEndpoints`, `ChangeEndpoints`, `CollectEntry` | users, the endpoints controller, the garbage collector |

An optimizer that is created anew under the same name has a new `uid`, and the objects its predecessor owned
are collected whenever the collector gets to them, after the new one has found them
and put them in its status, for example. Endpoints and service entries are read from the cache and not
watched, as in the code.

Abstracted in all: names and labels, subsets (Endpoints is a set of addresses), logs, HTTP and
JSON, except that NaN has no JSON (`Encodable`).

## 3. Runs

The weights run from 100 to 600 and newcomers get the 50th percentile, the defaults of the flags, so that
clamping, the middle of 350 and the ServiceEntry's first weight of 1000, above the maximum, all matter. The CPU distance
counts in full (100 %, the default is 1 %), so that two cycles move a weight as far as the clamps. `WeightArithmetic` takes
the 67th percentile, so that the share of three weights is more than one of them, and a minimum distance of 50 %, so that of
the readings 0, 10 and 30 some count as missing, some as near the mean and some as far from it.

| Run | Question | Bounds |
|---|---|---|
| `SyncConverges` | A service newly optimized: do addresses and weights advance in order, whatever is lost, do published weights arrive, and does a resync repair the rest? Invariants `SyncInv` (with the types), `MirrorIsFaithful`, action properties `AddressesNeverRollBack`, `WeightsNeverRollBack`, `SurvivorsKeepWeight`, liveness `WeightsConverge`, `AddressesConverge`. | 2 addresses, 3 Endpoints versions (annotation included), 1 publication, 1 failing call or restart, channel 1. No ServiceEntry at first, so `createServiceEntry` is part of it |
| `SyncRestart` | A cluster managed before: do the reconcilers keep the contract (`KeepsContract`, `HistoryInv`), and are the weights in place at rest (`WeightsInPlaceAtRest`, `NoZeroWeight`)? | 2 addresses, interchangeable (symmetry), 2 Endpoints versions, 2 publications, each with a 0 for one of the addresses, 1 failing call or restart. The ServiceEntry exists (`Installed`), so nothing is created here; that the contract is kept from the creation on is `ContractIsKept` of section 4 |
| `Triggers` | Is a trigger ever lost (`NoTriggerLost`), and does every entry catch up, behind a full channel and beside Endpoints that are gone (`EveryEntryCatchesUp`)? | 2 services, one with two entries and one with none, 3 changes: of Endpoints, of entries, events of weight optimizers, failing reconciles, restarts; channel 1 |
| `WeightCycle` | All kinds of readings and failures around the timeout, with a cache that lags: `OptimizerInv`, `WeightsBounded`, `ResetsAreSpaced`, `LastOptimizedNeverGoesBack`. | 2 pods, interchangeable (symmetry), 5 samples, 3 cycles or restarts, 3 instants; states that differ only in the exported series or in `lastSuccess`, which decide nothing, count as one (a view) |
| `WeightArithmetic` | Does the arithmetic agree with reference definitions, on weights of earlier cycles and with the multipliers of the last one? `MedianIsUnambiguous`, `AdjustmentCentresMedian`, `NewcomersStartLow`, `BusierPodGetsLess`, and `MissingReadingsAreNeutral` for the readings that are 0. | 3 pods, interchangeable (symmetry), readings of any of them, 3 readings, 2 steps: a change of the pods or an optimization |
| `Lifecycle` | Is nothing made that nobody cleans up (`LifecycleInv`, `NothingWithoutFinalizer`); is no optimizer left half cleaned up or its Endpoints unannotated when the manager comes to rest (`ServedAtRest`); does a deletion complete (`DeletionCompletes`); do entries and status settle (`EntriesSettle`)? | 2 ports, one listed, 2 optimizers, 1 change of the Endpoints, 1 failing call or restart |
| `Cycles` | Does the loop go on (`LoopInv`), reach every port (`EveryPortOptimized`), and leave nothing behind (`CollectedStaysCollected`, `LeftoversCollected`)? | 2 ports, 2 optimizers, 1 fault: a failing call, a restart, a change of the service entries, or a collection before the cache knows |
| `SyncMissedTrigger`, `SyncDroppedConflict`, `FallbackRecent`, `StaleSeries`, `FinalizerStuck` | Statements of comments that the code does not keep; see section 6. | as small as shows it |

Why these bounds. Two addresses are enough for one that stays and one that goes, and for the weights of
one to be confused with those of the other; three are needed only where a median lies strictly between
(`WeightArithmetic`). A rollback needs an object, a newer version and a copy of the older
one, so two or three versions. A lost trigger needs an event while the worker is busy. A channel
of capacity 1 is full as soon as one trigger waits, so the blocking send is reached at once. Two cycles feed
a published weight back once; a reset that follows another needs three, the first of which creates the
object. Time runs from the timeout on, so that "never reset" is long ago, for twice as long as the timeout: a
check can be early, exact, or late. A second optimizer is one that finds what the first one left, and two ports are one that
is served before another, or left out. `Installed` starts from a cluster an earlier manager left, which the code
has to cope with and which a fresh start would need too many steps to reach.

Every run is without the deadlock check: the bounds let pods, publications, optimizers and cycles come to an end, and
a manager without work waits.

**Fairness.** `FairSpec` assumes weak fairness of the delivery of watch events, of each worker goroutine
as a whole, of the channel source, and of the garbage collector where objects have owners: controller-runtime keeps one
goroutine each, and the code has no other way to stop than the blocking send, whose guard is part of the action. Nothing is assumed of users, pods,
publications, restarts, optimizer events, or of calls that fail. The resync of the informers
is a timer; controller-runtime (v0.18) sets `SyncPeriod` to ten hours and `cmd/main.go` does not change it.
`WeightsConverge` does without it, because nobody would wait ten hours for weights; `AddressesConverge`
assumes it (`WF_vars(Resync) => ...`) and
fails without it, which is what the two violated `Sync` runs show. `ResyncSpec` of `OptimizerLifecycle` has it too: an entry
of an earlier optimizer that is collected after the present one found it comes back with the next reconcile, and
nothing but the resync asks for one. `Cycles` needs none, and `Triggers` leaves it out, as it could only repair. In `Triggers` a
worker is fair as a whole; that each request gets its turn follows from the queues being first in first out, and
fails when a request that is retried goes to the front (its mutant).

Every property has a mutant in `PROJECT.json`: a definition of the model changed as a plausible bug
would change the code (an Update without resourceVersion, a dropped conflict, a reset without dates, a
clamp without its lower end...), under which the run finds the property violated. The variants stand in
the modules, in front of what they replace.

## 4. Proofs

Proved for all values of the constants that satisfy `WeightRangeAssumption`, `PercentAssumption`, `WalkAssumption`,
`SyncAssumption`, `TriggerAssumption`, `OptimizerAssumption`, `LifecycleAssumption` and `CyclesAssumption`. These say that 0 < minimum weight ≤ maximum weight (`main.go` does not
check it), that the percentile is in 0..100 (`main.go` exits otherwise) and the other percentages are natural
numbers, and that the data is of the right kind: finitely many addresses, pods and services, readings and weights that are natural numbers. Nothing limits the
number of addresses, pods, ports, services, versions, optimizers, cycles, restarts or instants. `OptimizerAssumption` takes the multipliers
of a sample to be numbers; `MultipliersDefined` proves that `updatePodMetrics` makes no others.

Every invariant and every action property that a passing run checks is the conclusion of a theorem.

* `CachedObjectProofs`: writing, delivering and relisting keep an object coherent: what is cached or under way
  is no newer than what is stored, and equal to it if it has its version.
* `ServiceEntrySyncProofs`: `SyncInv` is inductive (`SyncInvariant`), and from it follow `TypeCorrectness`,
  `MirrorFaithfulness`, `AddressMonotonicity`, `WeightMonotonicity` and `SurvivorsKeepTheirWeight`. None of
  these is inductive alone: an accepted Update writes a copy fetched steps ago. The invariant adds
  what such a copy still tells. `Caches`: versions identify contents. `WrittenFromCache`: what is stored
  was read from the cache, so it is no newer than the cache. `OptimizerCopy`, `WorkerCopy`: a copy
  with the stored resourceVersion is the stored object changed by the reconcile's own edit. Optimistic
  concurrency gives the rest: other copies are not accepted.
  `WeightsRestInPlace` (`WeightsInPlaceAtRest`) needs an invariant of its own, `WeightsPending`: weights that are not in
  place are under way to the cache, requested, or in the hands of a worker, and a worker with older ones has been asked
  again. Only the Update of the newest weights ends that, and it puts them in place.
  `NoZeroWeights` (`NoZeroWeight`) is one case of `WeightsStayIn`: a set of weights without gaps that has the first weight and
  the middle, and the published weights but for 0, has every weight of the ServiceEntry and of every copy of it, because a newcomer
  starts between two weights there are (`NewcomerWithinExisting`) and a published 0 is not applied. `EntryWeightsBounded` is another
  case: with the weights `PublishedWeightsBounded` leaves a WeightOptimizer to publish, those of the ServiceEntry
  lie between such weights or the first one. Neither theorem assumes the other's conclusion: what is published is bounded whatever the weights of the
  ServiceEntry are, as long as they are natural numbers.
  `ContractIsKept`, about `ServiceEntryHistory`, is the refinement. The invariant is `SyncInv` with `HistoryInv`
  (`HistoryInvariant`): the history is indexed by resourceVersion, and every copy, in the cache, under way or in a worker's
  hands, is the version whose number it carries. Then the Update of `UpdateAddresses` is `Merge` of the version
  the worker merged, because an accepted copy differs from the stored object by that merge only; `UpdateWeights` is `Apply`,
  `CreateServiceEntry` is `Create`, and every other step leaves the abstract state as it was or adds a version.
* `TriggerQueueProofs`: `NoTriggerLost` is inductive with the types (`NothingLost`). Each step hands the request on:
  queue, worker, rest of the list, channel, queue, worker. A restart drops all of them and makes one for
  every annotated Endpoints it lists.
* `OptimizerLifecycleProofs`: `LifecycleInv` is inductive (`LifecycleInvariant`) and gives
  `NothingWithoutFinalizer` (`NothingIsLeftBehind`). The point is a reconcile that works on an optimizer which
  may be gone: `addFinalizer` writes with the copy's resourceVersion, so the optimizer was there then
  (`WorkerHolds`); only this reconciler's own clean-up takes a finalizer away, and when it does, every cached version is
  from after the deletion (`WorkerCleans`, `Held`), so no later reconcile starts from one before it.
  `ServedOnceAtRest` (`ServedAtRest`) needs `RestInv` beside it: the stored optimizer is cached or on its way there
  (`Arriving`), so a manager at rest has seen it; a reconcile works for an optimizer that its copy shows alive
  (`WorkerServes`), and the annotation it made is still there when it ends (`AnnotationStays`). A reconcile with an older copy ends in a conflict
  and is queued again, or the newer version is still to come; either way the manager is not at rest.
* `OptimizationCyclesProofs`: `LoopInv` is inductive (`LoopInvariant`) and gives `CollectedStaysCollected`
  (`CollectedStays`). `NeverForgotten`, that an optimizer in the cache is queued or worked on, has no help but the
  loop itself; `WorkerCopy` says that a copy with the stored resourceVersion is the stored object, so what was collected or created
  anew since has another one and the Update is a conflict.
* `WeightMathProofs`: `NewWeightWithinFlags`, the clamp holds whatever the multiplier;
  `AdjustedWeightsBounded`, dividing by a median that is itself clamped stretches the range by at most the
  ratio of its ends. `MedianOfRanks`: the k-th place of every sorted order holds the same weight, so the median does not depend on the
  order an unstable sort leaves equal weights in. `AdjustedMedianIsCentred`: after the adjustment the median m is the middle of the
  range but for rounding, `Middle - 1 ≤ m ≤ Middle + Middle ÷ (2 · median)`; the upper end is what halving an odd sum loses. `AdjustmentKeepsOrder`.
  `NewcomerWithinExisting`: the average of the lowest weights lies between the smallest and the greatest. `MultipliersDefined` and `BusierGetsLess`: the
  code divides by the mean only where there is one, and a greater reading never gets a greater multiplier. `MissingReadingIsNeutral`: the sum
  and the count are those of the measured pods, so leaving the others out changes nothing.
  Sums over sets of pods are taken with `SumFunctionOnSet`, a fold of the community modules. What a fold computes is proved without an
  induction theorem over operators: `SubsetInduction` has the property as a set, and follows from the library's well-founded order of strict
  subsets. A sum is the entry of a table that every finite set has (`SumTableExists`) and in which any two tables agree (`SumTablesAgree`).
* `WeightWalkProofs`: `WalkInv` (weights of at least one pod, all natural numbers; readings of some of the pods;
  multipliers with a denominator) is inductive (`WalkInvariant`) and gives the five properties of `WeightArithmetic` for every number of pods, every
  reading and every setting of the flags: `MedianUnambiguous`, `MedianCentred`, `NewcomerStartsLow`, `BusierPod`, `MissingReadings`.
* `WeightOptimizerProofs`: `OptimizerInv` is inductive (`OptimizerInvariant`), and gives
  `OptimizerTypeCorrectness`, `PublishedWeightsBounded`, `ResetSpacing` and `LastOptimizedMonotonicity`.
  `Weighted` speaks of the stored object, so the invariant says the same of the weights about to be
  written (`Pending`). `Dated` says that no stored date is before the last reset or after now; `Pending` and
  `PendingReset` say it of the pending write while its version is the stored one. That is why a reset decided
  on a stale cache does no harm: it is rejected. It follows that resets are spaced.
  The ServiceEntry of this module gets what the cache shows as published *now*; in the code a copy may be applied later, and
  a cached ServiceEntry lags. `BoundedWhateverTheEntry` shows that neither matters: with an environment that may write any natural numbers
  into the ServiceEntry at any moment, the weights stay bounded and the resets spaced.

Model-checked only: `AddressesConverge`, `WeightsConverge`, `EveryEntryCatchesUp`, `DeletionCompletes`, `EntriesSettle`,
`EveryPortOptimized`, `LeftoversCollected`. They are liveness under fairness, which is beyond the
prover.

## 5. Not modelled, and why

* The buffer inside `source.Channel`: it only makes the channel longer.
* The annotations of pods. The clean-up removes them, nothing in `src/` sets them, and a pod whose Update fails is skipped
  for good; there is no later state to speak about.
* The values of the series, and the names they are exported (the WeightOptimizer's) and cleaned up (the service's) under.
  Only whether an address has series is modelled.
* Addresses listed twice in the subsets of an Endpoints: the model's set has none.
* A port whose reconcile fails in every cycle, as one without any reading does (`Encodable`): `Cycles` bounds the failures.
  The ports after it are never reached then.
* Answers lost after the write was stored, except for the weights (`UpdateWeights`). The reconcilers treat them like a
  conflict, and the retry finds its own write.
* An optimizer whose name or namespace is not its service's. (4) looks for entries under the optimizer's name, which (1)
  makes under the service's, so nothing would be optimized.
* A service deleted and created anew: its Endpoints is a new one without the annotation, and nothing but an event of the optimizer
  or the resync makes (1) annotate it. In `OptimizerLifecycle` a service that went stays away, and `ServedAtRest` speaks of the
  Endpoints there was. (In `TriggerQueue` Endpoints come and go, with and without annotation.)
* A Create of a ServiceEntry that fails is only logged, so `ServedAtRest` says nothing of entries; `EntriesSettle` does, with the resync.
* Edits of the optimizer's ports: an entry of a port that is no longer listed stays until the optimizer goes.
* Flags, HTTP and JSON, logging, types, namespace lists, manifests, tests: no behaviour of their own, or
  pure I/O.
* Floats: a product is one of the integers a correctly rounded product can be truncated to; overflow of
  `uint32` is out of range of every weight that `PublishedWeightsBounded` allows under the default flags.

## 6. Where code and words disagree

Each is shown by a run whose property states the words, and is listed with both lines in
`PROJECT.json`.

* `SyncMissedTrigger`: an Endpoints event that arrives between the fetch of the Endpoints and the creation
  of the ServiceEntry finds no ServiceEntry to trigger. The ServiceEntry is then created from older addresses,
  and stays so until the next event.
* `SyncDroppedConflict`: a conflict on the address update is logged and dropped, while the conflict of the weight
  update in the same reconcile is returned and retried.
* `FallbackRecent`: `LastOptimized` is not refreshed by an optimization, so "recent optimization" means "recently
  added or reset": the trace optimizes an endpoint, optimizes it again once the timeout is over, and resets it then. With a `NewEndpoints` that
  dates every endpoint `now` the property holds. The spacing of resets that is left is proved.
* `StaleSeries`: a reset replaces the endpoints without deleting the series of those that go.

* `FinalizerStuck`: the clean-up of a deleted optimizer needs the Endpoints and the Service. Once they are gone
  it fails, is retried, and fails again; the finalizer stays, and the optimizer with it. `DeletionCompletes` is what is left: a
  deleted optimizer goes as long as its service stays.

These were met too and have no run:

* Weights are clamped to the flags and then rescaled to their median, so `maximum-weight` is no maximum
  (`weightoptimizer_controller.go:682`). `AdjustedWeightsBounded` says by how much they leave the range.
* The total of the normalized weights is taken from loop copies that hold the old weights (`:574`), so they do not add up to 1.
* The multiplier applied to a known endpoint is the one of the previous cycle (`AppliedMultiplier`, and `Optimize` of `WeightWalk`). The models have the lag.
* "If empty, all ports are considered" (`istioadaptiverequestoptimizer_types.go:62`): service entries are created
  for all ports, but `annotateEndpoints` asks for a listed port before it annotates, and (4) loops over the listed ports, so these
  entries are neither followed nor optimized. `Lifecycle` lists a port; `ServedAtRest` asks for the annotation only then.
* An optimizer created anew takes the entries of its predecessor for its own (`createServiceEntry`). They are collected
  afterwards, and come back with the next event of the optimizer or the resync.
* The clean-up reads the Endpoints from the cache; an annotation that has not arrived there stays.

## 7. Plan

Done, in this order, because the two loops carry the program's purpose: `CachedObject`, `WeightMath`, `ServiceEntrySync`,
`WeightOptimizer`; then `OptimizerLifecycle`, the contract of the ServiceEntry and its refinement, `OptimizationCycles`; each with its
proofs; then `TriggerQueue`, `WeightWalk`. Next, in order:

1. `WeightLoop`: `ServiceEntrySync` and `WeightOptimizer` composed over one ServiceEntry and one
   WeightOptimizer, in place of each one's abstract environment; each environment action shown to be a step
   of the other module; whether constant readings lead to constant weights in spite of the lag.
2. Lost answers of the optimizer's Updates.
