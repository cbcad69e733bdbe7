-------------------------- MODULE WeightOptimizer --------------------------
(***************************************************************************)
(* WeightOptimizerReconciler for one port of one service: it turns CPU     *)
(* readings into the weights of a WeightOptimizer object, falls back to a  *)
(* default weight when the readings are missing, and exports gauges.       *)
(*                                                                         *)
(* One cycle of Reconcile is                                               *)
(*                                                                         *)
(*   idle -> query -> ensure -> update | reset -> idle                     *)
(*                                                                         *)
(* with a step for each answer it waits for: the ServiceEntry, the metrics *)
(* over HTTP, the WeightOptimizer, the Update.  The ServiceEntry is the    *)
(* environment's here: pods come and go, and published weights are applied *)
(* to it as module ServiceEntrySync does.                                  *)
(***************************************************************************)
EXTENDS WeightMath, CachedObject

CONSTANTS
  Addr,                 \* the addresses pods may have
  Samples,              \* results of updatePodMetrics: [multipliers, nan]
  FreshWeights,         \* weights a new address of the ServiceEntry may get
  OptimizationTimeout,  \* shouldSkipFallback's five minutes
  MaxTime,              \* bound: the clock
  MaxCycles             \* bound: cycles started, and restarts of the manager

ASSUME OptimizerAssumption ==
  /\ IsFiniteSet(Addr)
  /\ \A sample \in Samples :
       /\ DOMAIN sample.multipliers \subseteq Addr
       /\ \A a \in DOMAIN sample.multipliers : sample.multipliers[a] \in Multiplier
  /\ FreshWeights \subseteq Nat
  /\ OptimizationTimeout \in Nat \ {0}
  /\ MaxTime \in Nat

VARIABLES
  serviceEntry,     \* weights by address; empty without addresses or ServiceEntry
  weightOptimizer,  \* a CachedObject; a version is [rv, endpoints], endpoints a
                    \* function from addresses to [weight, multiplier, last]
  worker,           \* [pc, se, sample, pods, rv, endpoints, time]
  gauges,           \* the addresses whose series are exported
  now,              \* the clock
  cycles,
  lastSuccess,      \* history: when the last weights stored were calculated
  lastReset         \* history: when the last reset stored was decided

history == <<lastSuccess, lastReset>>
vars == <<serviceEntry, weightOptimizer, worker, gauges, now, cycles, history>>

-----------------------------------------------------------------------------
Nothing == [a \in {} |-> 0]
NoWeightOptimizer == [rv |-> 0, endpoints |-> Nothing]
NoSample == [multipliers |-> Nothing, nan |-> FALSE]

\* resetWeights has this weight and a multiplier of 1 for every pod.
ResetWeight == 300

\* The worker waiting for an answer after it fetched the ServiceEntry.
Waiting(pc, se, sample, pods) ==
  [pc |-> pc, se |-> se, sample |-> sample, pods |-> pods, rv |-> 0, endpoints |-> Nothing, time |-> 0]

Idle == Waiting("idle", Nothing, NoSample, {})

\* The worker about to write endpoints over version rv, computed at this time.
Writing(pc, rv, endpoints) ==
  [pc |-> pc, se |-> worker.se, sample |-> worker.sample, pods |-> {},
   rv |-> rv, endpoints |-> endpoints, time |-> now]

PublishedWeights(endpoints) == [a \in DOMAIN endpoints |-> endpoints[a].weight]

(***************************************************************************)
(* calculateNewWeights.  Only pods that have a metric and are in the       *)
(* ServiceEntry stay.  The multiplier applied is the one the               *)
(* WeightOptimizer stored in the cycle before; a pod it did not know yet   *)
(* brings its own.                                                         *)
(***************************************************************************)
FilteredAddresses(se, sample) == DOMAIN sample.multipliers \cap DOMAIN se

AppliedMultiplier(endpoints, sample, a) ==
  IF a \in DOMAIN endpoints THEN endpoints[a].multiplier ELSE sample.multipliers[a]

\* The weights before the adjustment to the median.
UpdatedWeights(se, sample, endpoints) ==
  LET kept == FilteredAddresses(se, sample)
      New(a) == CalculateNewWeight(se[a], AppliedMultiplier(endpoints, sample, a))
  IN  {f \in [kept -> UNION {New(a) : a \in kept}] : \A a \in kept : f[a] \in New(a)}

\* The weights that may be published.
NewWeights(se, sample, endpoints) ==
  UNION {UNION {AdjustWeightsToMedian(f, median) : median \in MedianWeights(f)} :
          f \in UpdatedWeights(se, sample, endpoints)}

\* A known endpoint keeps its LastOptimized.
NewEndpoints(se, sample, endpoints, weights) ==
  [a \in FilteredAddresses(se, sample) |->
    [weight     |-> weights[a],
     multiplier |-> sample.multipliers[a],
     last       |-> IF a \in DOMAIN endpoints THEN endpoints[a].last ELSE now]]

\* shouldSkipFallback: without an endpoint the oldest time is now.
ShouldSkipFallback(endpoints) ==
  \A a \in DOMAIN endpoints : now - endpoints[a].last < OptimizationTimeout

\* A variant whose reset carries no LastOptimized.
ResetEndpointsUndated(pods) ==
  [a \in pods |-> [weight |-> ResetWeight, multiplier |-> One, last |-> 0]]

ResetEndpoints(pods) ==
  [a \in pods |-> [weight |-> ResetWeight, multiplier |-> One, last |-> now]]

-----------------------------------------------------------------------------
Init ==
  /\ \E addrs \in SUBSET Addr : \E w \in FreshWeights : serviceEntry = [a \in addrs |-> w]
  /\ weightOptimizer = Cached(NoWeightOptimizer)
  /\ worker = Idle
  /\ gauges = {}
  /\ now = OptimizationTimeout
  /\ cycles = 0
  /\ lastSuccess = 0
  /\ lastReset = 0

-----------------------------------------------------------------------------
(* The environment.                                                        *)

Tick ==
  /\ now < MaxTime
  /\ now' = now + 1
  /\ UNCHANGED <<serviceEntry, weightOptimizer, worker, gauges, cycles, history>>

ChangePods ==
  /\ \E addrs \in SUBSET Addr, w \in FreshWeights :
       serviceEntry' = [a \in addrs |-> IF a \in DOMAIN serviceEntry THEN serviceEntry[a] ELSE w]
  /\ UNCHANGED <<weightOptimizer, worker, gauges, now, cycles, history>>

\* The ServiceEntryReconciler applies what was published.
ApplyToServiceEntry ==
  /\ serviceEntry' = AppliedWeights(serviceEntry, PublishedWeights(weightOptimizer.cached.endpoints))
  /\ UNCHANGED <<weightOptimizer, worker, gauges, now, cycles, history>>

DeliverWeightOptimizer ==
  /\ \E v \in weightOptimizer.watch : weightOptimizer' = Deliver(weightOptimizer, v)
  /\ UNCHANGED <<serviceEntry, worker, gauges, now, cycles, history>>

\* The series live in the process.
Restart ==
  /\ cycles < MaxCycles
  /\ cycles' = cycles + 1
  /\ weightOptimizer' = Relist(weightOptimizer)
  /\ worker' = Idle
  /\ gauges' = {}
  /\ UNCHANGED <<serviceEntry, now, history>>

-----------------------------------------------------------------------------
(* WeightOptimizerReconciler.Reconcile.  An error and the end of a cycle   *)
(* both lead to another cycle, at once or after RequeueAfter.              *)

\* A ServiceEntry that is missing or empty ends the cycle, and so does a listPods
\* that fails.
StartCycle ==
  /\ worker.pc = "idle"
  /\ cycles < MaxCycles
  /\ cycles' = cycles + 1
  /\ \/ worker' = Idle
     \/ DOMAIN serviceEntry # {} /\ worker' = Waiting("query", serviceEntry, NoSample, {})
  /\ UNCHANGED <<serviceEntry, weightOptimizer, gauges, now, history>>

\* getPodMetrics answers.  Readings of no listed pod end the cycle.
ReceiveMetrics ==
  /\ worker.pc = "query"
  /\ \E sample \in Samples :
       worker' = IF DOMAIN sample.multipliers = {} THEN Idle ELSE Waiting("optimize", worker.se, sample, {})
  /\ UNCHANGED <<serviceEntry, weightOptimizer, gauges, now, cycles, history>>

\* getPodMetrics fails: the query, its answer, or no result.  The pods are those
\* listPods found in the namespace, whatever service they belong to.
FailMetrics ==
  /\ worker.pc = "query"
  /\ \E pods \in SUBSET Addr : worker' = Waiting("fallback", worker.se, NoSample, pods)
  /\ UNCHANGED <<serviceEntry, weightOptimizer, gauges, now, cycles, history>>

\* ensureWeightOptimizer: what the cache has, or a new object without endpoints.
\* Creating one that exists is an error.
EnsureWeightOptimizer(copy) ==
  \/ /\ Exists(weightOptimizer.cached)
     /\ copy = weightOptimizer.cached
     /\ UNCHANGED weightOptimizer
  \/ /\ ~Exists(weightOptimizer.cached)
     /\ ~Exists(weightOptimizer.stored)
     /\ copy = [rv |-> 1, endpoints |-> Nothing]
     /\ weightOptimizer' = Write(weightOptimizer, copy)

FailToEnsure ==
  /\ worker.pc \in {"optimize", "fallback"}
  /\ ~Exists(weightOptimizer.cached)
  /\ worker' = Idle
  /\ UNCHANGED <<serviceEntry, weightOptimizer, gauges, now, cycles, history>>

\* The series of endpoints that go are deleted before the Update is tried.
CalculateNewWeights ==
  /\ worker.pc = "optimize"
  /\ \E copy \in {weightOptimizer.cached, [rv |-> 1, endpoints |-> Nothing]} :
       /\ EnsureWeightOptimizer(copy)
       /\ gauges' = gauges \ (DOMAIN copy.endpoints \ FilteredAddresses(worker.se, worker.sample))
       /\ \E weights \in NewWeights(worker.se, worker.sample, copy.endpoints) :
            worker' = Writing("update", copy.rv, NewEndpoints(worker.se, worker.sample, copy.endpoints, weights))
  /\ UNCHANGED <<serviceEntry, now, cycles, history>>

FallbackStrategy ==
  /\ worker.pc = "fallback"
  /\ \E copy \in {weightOptimizer.cached, [rv |-> 1, endpoints |-> Nothing]} :
       /\ EnsureWeightOptimizer(copy)
       /\ worker' = IF ShouldSkipFallback(copy.endpoints) THEN Idle
                    ELSE Writing("reset", copy.rv, ResetEndpoints(worker.pods))
  /\ UNCHANGED <<serviceEntry, gauges, now, cycles, history>>

\* A variant whose Update carries no resourceVersion.
UpdateAcceptedUnversioned == Exists(weightOptimizer.stored)

UpdateAccepted == Accepts(weightOptimizer, worker)

Put ==
  weightOptimizer' = IF worker.endpoints = weightOptimizer.stored.endpoints THEN weightOptimizer
                     ELSE Write(weightOptimizer, [rv |-> weightOptimizer.stored.rv + 1, endpoints |-> worker.endpoints])

\* Alpha and distance of NaN have no JSON.
Encodable == worker.sample.nan => DOMAIN worker.endpoints = {}

UpdateMetrics == gauges' = gauges \cup DOMAIN worker.endpoints

\* The Update of the weights calculated, and the series after it.
UpdateWeightOptimizer ==
  /\ worker.pc = "update"
  /\ UpdateAccepted
  /\ Encodable
  /\ Put
  /\ UpdateMetrics
  /\ lastSuccess' = worker.time
  /\ worker' = Idle
  /\ UNCHANGED <<serviceEntry, now, cycles, lastReset>>

\* resetWeights leaves the series alone.
ResetWeights ==
  /\ worker.pc = "reset"
  /\ UpdateAccepted
  /\ Put
  /\ lastReset' = worker.time
  /\ worker' = Idle
  /\ UNCHANGED <<serviceEntry, gauges, now, cycles, lastSuccess>>

\* A conflict, an encoding that fails, a failed call: Reconcile returns the error.
FailUpdate ==
  /\ worker.pc \in {"update", "reset"}
  /\ worker' = Idle
  /\ UNCHANGED <<serviceEntry, weightOptimizer, gauges, now, cycles, history>>

Environment == Tick \/ ChangePods \/ ApplyToServiceEntry \/ DeliverWeightOptimizer \/ Restart

Cycle ==
  \/ StartCycle \/ ReceiveMetrics \/ FailMetrics \/ FailToEnsure
  \/ CalculateNewWeights \/ FallbackStrategy
  \/ UpdateWeightOptimizer \/ ResetWeights \/ FailUpdate

Next == Environment \/ Cycle

Spec == Init /\ [][Next]_vars

-----------------------------------------------------------------------------
EndpointRecord == [weight : Nat, multiplier : Multiplier, last : Nat]

IsEndpoints(endpoints) ==
  /\ DOMAIN endpoints \subseteq Addr
  /\ \A a \in DOMAIN endpoints : endpoints[a] \in EndpointRecord

IsVersion(v) == v.rv \in Nat /\ IsEndpoints(v.endpoints)

IsEntry(se) == DOMAIN se \subseteq Addr /\ \A a \in DOMAIN se : se[a] \in Nat

IsSample(sample) ==
  /\ DOMAIN sample.multipliers \subseteq Addr
  /\ \A a \in DOMAIN sample.multipliers : sample.multipliers[a] \in Multiplier

\* The types of the state.
TypeOK ==
  /\ IsEntry(serviceEntry)
  /\ \A v \in weightOptimizer.watch \cup {weightOptimizer.stored, weightOptimizer.cached} : IsVersion(v)
  /\ worker.pc \in {"idle", "query", "optimize", "fallback", "update", "reset"}
  /\ IsEntry(worker.se) /\ IsSample(worker.sample) /\ worker.pods \subseteq Addr
  /\ worker.rv \in Nat /\ IsEndpoints(worker.endpoints) /\ worker.time \in Nat
  /\ gauges \subseteq Addr
  /\ now \in Nat /\ lastReset \in Nat

(***************************************************************************)
(* Safety.                                                                 *)
(***************************************************************************)
Weighted(endpoints) ==
  \A a \in DOMAIN endpoints : endpoints[a].weight = ResetWeight \/ InAdjustedRange(endpoints[a].weight)

\* However many cycles feed the published weights back through the ServiceEntry,
\* whichever weights its new pods start with, no published weight runs away from
\* the range or dies out (calculateNewWeight, adjustWeightsToMedian, resetWeights).
WeightsBounded == Weighted(weightOptimizer.stored.endpoints)

\* Two resets are at least the timeout apart, although the check reads a cached
\* WeightOptimizer that may not show the last reset (shouldSkipFallback).
ResetsAreSpaced == [][ResetWeights => lastReset' - lastReset >= OptimizationTimeout]_vars

\* No write from an old copy brings back an older LastOptimized of an endpoint
\* that stays (calculateNewWeights keeps it, resetWeights sets it).
LastOptimizedNeverGoesBack ==
  [][LET old == weightOptimizer.stored.endpoints
         new == weightOptimizer'.stored.endpoints
     IN  \A a \in DOMAIN old \cap DOMAIN new : new[a].last >= old[a].last]_weightOptimizer

(***************************************************************************)
(* What comments of the repository say.                                    *)
(***************************************************************************)
\* fallbackStrategy's "Recent optimization detected; skipping fallback strategy":
\* weights are not reset within the timeout after a successful optimization, counted
\* from the calculation, which is where LastOptimized is dated.
RecentOptimizationPreventsReset ==
  [][lastReset' # lastReset => lastReset' - lastSuccess >= OptimizationTimeout]_<<lastReset, lastSuccess>>

\* "Remove the metrics of the endpoint that is no longer exists in the
\* WeightOptimizer": between cycles only published endpoints have series.
SeriesOfPublishedOnly ==
  worker.pc = "idle" => gauges \subseteq DOMAIN weightOptimizer.stored.endpoints

(***************************************************************************)
(* The inductive invariant.                                                *)
(***************************************************************************)
\* No version and no pending write is dated before the last reset or after now.
Dated(endpoints) == \A a \in DOMAIN endpoints : lastReset <= endpoints[a].last /\ endpoints[a].last <= now

Pending ==
  worker.pc \in {"update", "reset"} =>
    /\ Weighted(worker.endpoints)
    /\ worker.rv <= weightOptimizer.stored.rv
    /\ worker.time <= now
    /\ worker.rv = weightOptimizer.stored.rv =>
         /\ Dated(worker.endpoints)
         /\ \A a \in DOMAIN worker.endpoints \cap DOMAIN weightOptimizer.stored.endpoints :
              worker.endpoints[a].last >= weightOptimizer.stored.endpoints[a].last

PendingReset ==
  worker.pc = "reset" =>
    /\ \A a \in DOMAIN worker.endpoints : worker.endpoints[a].last = worker.time
    /\ worker.rv = weightOptimizer.stored.rv => worker.time - lastReset >= OptimizationTimeout

\* Published weights and dates are in order, and so are those about to be written
\* over the version they were computed from.
OptimizerInv ==
  /\ TypeOK
  /\ Coherent(weightOptimizer)
  /\ lastReset <= now
  /\ Weighted(weightOptimizer.stored.endpoints)
  /\ Dated(weightOptimizer.stored.endpoints)
  /\ Pending
  /\ PendingReset
=============================================================================
