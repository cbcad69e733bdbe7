----------------------- MODULE WeightOptimizerProofs -----------------------
(***************************************************************************)
(* Theorems of WeightOptimizer for every set of pods, every result of      *)
(* updatePodMetrics, every timeout and every range of the weights.         *)
(***************************************************************************)
EXTENDS WeightOptimizer, CachedObjectProofs, WeightMathProofs

\* The states of the worker, its copies and its writes, as a part of TypeOK.
WorkerOK(w) ==
  /\ w.pc \in {"idle", "query", "optimize", "fallback", "update", "reset"}
  /\ IsEntry(w.se) /\ IsSample(w.sample) /\ w.pods \subseteq Addr
  /\ w.rv \in Nat /\ IsEndpoints(w.endpoints) /\ w.time \in Nat

VersionsOK(o) == \A v \in o.watch \cup {o.stored, o.cached} : IsVersion(v)

\* TypeOK, by variable.
LEMMA TypeParts ==
  TypeOK <=> /\ IsEntry(serviceEntry)
             /\ VersionsOK(weightOptimizer)
             /\ WorkerOK(worker)
             /\ gauges \subseteq Addr
             /\ now \in Nat /\ lastReset \in Nat
BY DEF TypeOK, WorkerOK, VersionsOK

\* Versions of the right type have numbers.
LEMMA VersionsNumbered ==
  ASSUME NEW o, VersionsOK(o)
  PROVE  Numbered(o)
BY DEF VersionsOK, IsVersion, Numbered

\* No address, no endpoint.
LEMMA NothingOK == IsEndpoints(Nothing) /\ IsEntry(Nothing) /\ DOMAIN Nothing = {} /\ Weighted(Nothing) /\ Dated(Nothing)
BY DEF IsEndpoints, IsEntry, Nothing, Weighted, Dated

\* A worker without a write to make is of the right type.
LEMMA WaitingOK ==
  ASSUME NEW pc \in {"idle", "query", "optimize", "fallback"},
         NEW se, IsEntry(se), NEW sample, IsSample(sample), NEW pods \in SUBSET Addr
  PROVE  /\ WorkerOK(Waiting(pc, se, sample, pods))
         /\ Waiting(pc, se, sample, pods).pc = pc
BY NothingOK DEF WorkerOK, Waiting

\* The idle worker is one.
LEMMA IdleOK == WorkerOK(Idle) /\ Idle.pc = "idle"
<1>1. IsSample(NoSample)
  BY NothingOK DEF IsSample, NoSample
<1> QED
  BY <1>1, NothingOK, WaitingOK DEF Idle

\* A sample of the environment is a sample.
LEMMA SamplesOK == \A sample \in Samples : IsSample(sample)
BY OptimizerAssumption DEF IsSample

\* Published weights are those of clamped weights after the adjustment.
LEMMA NewWeightsBounded ==
  ASSUME NEW se, IsEntry(se), NEW sample, IsSample(sample), NEW endpoints, IsEndpoints(endpoints),
         NEW weights \in NewWeights(se, sample, endpoints),
         NEW a \in FilteredAddresses(se, sample)
  PROVE  weights[a] \in Nat /\ InAdjustedRange(weights[a])
<1> DEFINE kept == FilteredAddresses(se, sample)
<1>1. PICK f \in UpdatedWeights(se, sample, endpoints) :
        \E median \in MedianWeights(f) : weights \in AdjustWeightsToMedian(f, median)
  BY DEF NewWeights
<1>2. /\ DOMAIN f = kept
      /\ \A b \in kept : f[b] \in CalculateNewWeight(se[b], AppliedMultiplier(endpoints, sample, b))
  BY DEF UpdatedWeights
<1>3. IsFiniteSet(kept)
  BY FS_Subset, OptimizerAssumption DEF FilteredAddresses, IsEntry
<1>4. \A b \in kept : se[b] \in Nat /\ AppliedMultiplier(endpoints, sample, b) \in Multiplier
  BY DEF FilteredAddresses, IsEntry, IsSample, IsEndpoints, EndpointRecord, AppliedMultiplier
<1>5. Clamped(f)
  BY <1>2, <1>4, NewWeightWithinFlags DEF Clamped
<1> QED
  BY <1>1, <1>2, <1>3, <1>5, AdjustedWeightsBounded

\* The endpoints of an optimization: typed, bounded, and dated as before or now.
LEMMA NewEndpointsOK ==
  ASSUME NEW se, IsEntry(se), NEW sample, IsSample(sample), NEW endpoints, IsEndpoints(endpoints),
         NEW weights \in NewWeights(se, sample, endpoints), now \in Nat
  PROVE  LET new == NewEndpoints(se, sample, endpoints, weights)
         IN  /\ IsEndpoints(new)
             /\ Weighted(new)
             /\ \A a \in DOMAIN new : new[a].last = IF a \in DOMAIN endpoints THEN endpoints[a].last ELSE now
<1> DEFINE new == NewEndpoints(se, sample, endpoints, weights)
<1>1. DOMAIN new = FilteredAddresses(se, sample) /\ DOMAIN new \subseteq Addr
  BY DEF NewEndpoints, FilteredAddresses, IsEntry
<1>2. ASSUME NEW a \in DOMAIN new
      PROVE  /\ new[a] \in EndpointRecord
             /\ InAdjustedRange(new[a].weight)
             /\ new[a].last = IF a \in DOMAIN endpoints THEN endpoints[a].last ELSE now
  <2>1. a \in FilteredAddresses(se, sample) /\ a \in DOMAIN sample.multipliers
    BY <1>1, <1>2 DEF FilteredAddresses
  <2>2. weights[a] \in Nat /\ InAdjustedRange(weights[a])
    BY <2>1, NewWeightsBounded
  <2>3. sample.multipliers[a] \in Multiplier
    BY <2>1 DEF IsSample
  <2>4. a \in DOMAIN endpoints => endpoints[a].last \in Nat
    BY DEF IsEndpoints, EndpointRecord
  <2>5. new[a] = [weight |-> weights[a], multiplier |-> sample.multipliers[a],
                  last |-> IF a \in DOMAIN endpoints THEN endpoints[a].last ELSE now]
    BY <2>1 DEF NewEndpoints
  <2> QED
    BY <2>2, <2>3, <2>4, <2>5 DEF EndpointRecord
<1> QED
  BY <1>1, <1>2 DEF IsEndpoints, Weighted

\* The endpoints of a reset.
LEMMA ResetEndpointsOK ==
  ASSUME NEW pods \in SUBSET Addr, now \in Nat
  PROVE  /\ IsEndpoints(ResetEndpoints(pods))
         /\ Weighted(ResetEndpoints(pods))
         /\ \A a \in DOMAIN ResetEndpoints(pods) : ResetEndpoints(pods)[a].last = now
BY SMT DEF IsEndpoints, Weighted, ResetEndpoints, EndpointRecord, ResetWeight, One, Multiplier

-----------------------------------------------------------------------------
\* The invariant holds when the manager starts.
LEMMA InitInv ==
  ASSUME Init
  PROVE  OptimizerInv
<1>1. IsEntry(serviceEntry)
  BY OptimizerAssumption DEF Init, IsEntry
<1>2. IsVersion(NoWeightOptimizer) /\ NoWeightOptimizer.endpoints = Nothing
  BY NothingOK DEF IsVersion, NoWeightOptimizer
<1>3. VersionsOK(weightOptimizer) /\ Coherent(weightOptimizer) /\ weightOptimizer.stored = NoWeightOptimizer
  BY <1>2, CachedCoherent DEF Init, VersionsOK, Cached, IsVersion
<1>4. TypeOK
  BY <1>1, <1>3, TypeParts, IdleOK, NothingOK, OptimizerAssumption DEF Init
<1> QED
  BY <1>2, <1>3, <1>4, NothingOK, IdleOK, OptimizerAssumption DEF Init, OptimizerInv, Pending, PendingReset, Weighted, Dated

\* A step that leaves the WeightOptimizer, the clock and the resets alone, and
\* leaves the worker alone or without a write to make.
LEMMA QuietStep ==
  ASSUME OptimizerInv, IsEntry(serviceEntry)', (gauges \subseteq Addr)',
         UNCHANGED <<weightOptimizer, now, lastReset>>,
         \/ UNCHANGED worker
         \/ WorkerOK(worker') /\ worker'.pc \notin {"update", "reset"}
  PROVE  OptimizerInv'
<1>1. TypeOK'
  BY TypeParts DEF OptimizerInv, TypeOK, WorkerOK, VersionsOK
<1>2. (Coherent(weightOptimizer) /\ lastReset <= now /\ Weighted(weightOptimizer.stored.endpoints)
         /\ Dated(weightOptimizer.stored.endpoints))'
  BY DEF OptimizerInv, Dated
<1>3. Pending' /\ PendingReset'
  <2>1. CASE UNCHANGED worker
    BY <2>1 DEF OptimizerInv, Pending, PendingReset, Dated
  <2>2. CASE worker'.pc \notin {"update", "reset"}
    BY <2>2 DEF Pending, PendingReset
  <2> QED
    BY <2>1, <2>2
<1> QED
  BY <1>1, <1>2, <1>3 DEF OptimizerInv

\* The clock moves away from every date.
LEMMA TickInv ==
  ASSUME OptimizerInv, Tick
  PROVE  OptimizerInv'
<1>1. now \in Nat /\ now' = now + 1 /\ lastReset \in Nat /\ worker.time \in Nat /\ VersionsOK(weightOptimizer) /\ WorkerOK(worker)
  BY TypeParts DEF OptimizerInv, Tick, WorkerOK
<1>2. UNCHANGED <<serviceEntry, weightOptimizer, worker, gauges, lastReset>>
  BY DEF Tick, history
<1>3. TypeOK'
  BY <1>1, <1>2, SMT DEF OptimizerInv, TypeOK
<1>4. ASSUME NEW endpoints, IsEndpoints(endpoints), Dated(endpoints)
      PROVE  \A a \in DOMAIN endpoints : lastReset' <= endpoints[a].last /\ endpoints[a].last <= now'
  BY <1>1, <1>2, <1>4, SMT DEF Dated, IsEndpoints, EndpointRecord
<1>5. IsEndpoints(weightOptimizer.stored.endpoints) /\ IsEndpoints(worker.endpoints)
  BY <1>1 DEF VersionsOK, IsVersion, WorkerOK
<1>6. Dated(weightOptimizer.stored.endpoints)' /\ (lastReset <= now)'
  BY <1>1, <1>2, <1>4, <1>5, SMT DEF OptimizerInv, Dated
<1>7. Pending' /\ PendingReset'
  <2>1. Dated(worker.endpoints) => Dated(worker.endpoints)'
    BY <1>2, <1>4, <1>5 DEF Dated
  <2>2. worker.time <= now => worker'.time <= now'
    BY <1>1, <1>2, SMT
  <2>3. Pending'
    BY <1>2, <2>1, <2>2 DEF OptimizerInv, Pending
  <2>4. PendingReset'
    BY <1>2 DEF OptimizerInv, PendingReset
  <2> QED
    BY <2>3, <2>4
<1> QED
  BY <1>2, <1>3, <1>6, <1>7 DEF OptimizerInv

\* A delivery and a relist change what the cache holds, not what is stored.
LEMMA CacheStep ==
  ASSUME OptimizerInv, VersionsOK(weightOptimizer'), Coherent(weightOptimizer'),
         weightOptimizer'.stored = weightOptimizer.stored,
         UNCHANGED <<serviceEntry, now, lastReset>>, (gauges \subseteq Addr)',
         UNCHANGED worker \/ worker' = Idle
  PROVE  OptimizerInv'
<1>1. TypeOK'
  BY TypeParts, IdleOK DEF OptimizerInv, TypeOK, WorkerOK, VersionsOK
<1>2. (lastReset <= now /\ Weighted(weightOptimizer.stored.endpoints) /\ Dated(weightOptimizer.stored.endpoints))'
  BY DEF OptimizerInv, Dated
<1>3. Pending' /\ PendingReset'
  BY IdleOK DEF OptimizerInv, Pending, PendingReset, Dated
<1> QED
  BY <1>1, <1>2, <1>3 DEF OptimizerInv

\* The watch delivers a version of the WeightOptimizer.
LEMMA DeliverWeightOptimizerInv ==
  ASSUME OptimizerInv, DeliverWeightOptimizer
  PROVE  OptimizerInv'
<1>1. VersionsOK(weightOptimizer) /\ Numbered(weightOptimizer) /\ Coherent(weightOptimizer)
  BY TypeParts, VersionsNumbered DEF OptimizerInv
<1>2. PICK v \in weightOptimizer.watch : weightOptimizer' = Deliver(weightOptimizer, v)
  BY DEF DeliverWeightOptimizer
<1>3. VersionsOK(weightOptimizer') /\ weightOptimizer'.stored = weightOptimizer.stored
  BY <1>1, <1>2 DEF VersionsOK, Deliver
<1>4. Coherent(weightOptimizer')
  BY <1>1, <1>2, DeliverCoherent
<1> QED
  BY <1>3, <1>4, TypeParts, CacheStep DEF DeliverWeightOptimizer, OptimizerInv, history

\* The manager restarts: the cache is listed again, the write to make is forgotten.
LEMMA RestartInv ==
  ASSUME OptimizerInv, Restart
  PROVE  OptimizerInv'
<1>1. VersionsOK(weightOptimizer) /\ Numbered(weightOptimizer)
  BY TypeParts, VersionsNumbered DEF OptimizerInv
<1>2. weightOptimizer' = Relist(weightOptimizer)
  BY DEF Restart
<1>3. VersionsOK(weightOptimizer') /\ weightOptimizer'.stored = weightOptimizer.stored
  BY <1>1, <1>2 DEF VersionsOK, Relist, Cached
<1>4. Coherent(weightOptimizer')
  BY <1>1, <1>2, RelistCoherent
<1>5. gauges' \subseteq Addr
  BY NothingOK DEF Restart
<1> QED
  BY <1>3, <1>4, <1>5, CacheStep DEF Restart, history

-----------------------------------------------------------------------------
\* The steps of a cycle that write nothing.
LEMMA ReadInv ==
  ASSUME OptimizerInv,
         ChangePods \/ ApplyToServiceEntry \/ StartCycle \/ ReceiveMetrics \/ FailMetrics \/ FailToEnsure \/ FailUpdate
  PROVE  OptimizerInv'
<1>1. IsEntry(serviceEntry) /\ VersionsOK(weightOptimizer) /\ WorkerOK(worker) /\ gauges \subseteq Addr
  BY TypeParts DEF OptimizerInv
<1>2. CASE ChangePods
  <2>1. PICK addrs \in SUBSET Addr, w \in FreshWeights :
          serviceEntry' = [a \in addrs |-> IF a \in DOMAIN serviceEntry THEN serviceEntry[a] ELSE w]
    BY <1>2 DEF ChangePods
  <2>2. IsEntry(serviceEntry')
    BY <1>1, <2>1, OptimizerAssumption DEF IsEntry
  <2> QED
    BY <1>1, <1>2, <2>2, QuietStep DEF ChangePods, history
<1>3. CASE ApplyToServiceEntry
  <2>1. IsEndpoints(weightOptimizer.cached.endpoints)
    BY <1>1 DEF VersionsOK, IsVersion
  <2>2. \A a \in DOMAIN serviceEntry :
          PublishedWeight(PublishedWeights(weightOptimizer.cached.endpoints), a) \in Nat
    BY <2>1 DEF PublishedWeight, PublishedWeights, IsEndpoints, EndpointRecord
  <2>3. IsEntry(serviceEntry')
    BY <1>1, <1>3, <2>2 DEF ApplyToServiceEntry, AppliedWeights, IsEntry
  <2> QED
    BY <1>1, <1>3, <2>3, QuietStep DEF ApplyToServiceEntry, history
<1>4. CASE StartCycle
  <2>1. WorkerOK(worker') /\ worker'.pc \in {"idle", "query"}
    <3>1. IsSample(NoSample)
      BY NothingOK DEF IsSample, NoSample
    <3>2. WorkerOK(Waiting("query", serviceEntry, NoSample, {})) /\ Waiting("query", serviceEntry, NoSample, {}).pc = "query"
      BY <1>1, <3>1, WaitingOK
    <3> QED
      BY <1>4, <3>2, IdleOK DEF StartCycle
  <2> QED
    BY <1>1, <1>4, <2>1, QuietStep DEF StartCycle, history
<1>5. CASE ReceiveMetrics
  <2>1. PICK sample \in Samples :
          worker' = IF DOMAIN sample.multipliers = {} THEN Idle ELSE Waiting("optimize", worker.se, sample, {})
    BY <1>5 DEF ReceiveMetrics
  <2>2. WorkerOK(worker') /\ worker'.pc \in {"idle", "optimize"}
    <3>1. /\ WorkerOK(Waiting("optimize", worker.se, sample, {}))
          /\ Waiting("optimize", worker.se, sample, {}).pc = "optimize"
      BY <1>1, SamplesOK, WaitingOK DEF WorkerOK
    <3> QED
      BY <2>1, <3>1, IdleOK
  <2> QED
    BY <1>1, <1>5, <2>2, QuietStep DEF ReceiveMetrics, history
<1>6. CASE FailMetrics
  <2>1. PICK pods \in SUBSET Addr : worker' = Waiting("fallback", worker.se, NoSample, pods)
    BY <1>6 DEF FailMetrics
  <2>2. WorkerOK(worker') /\ worker'.pc = "fallback"
    <3>1. IsSample(NoSample)
      BY NothingOK DEF IsSample, NoSample
    <3> QED
      BY <1>1, <2>1, <3>1, WaitingOK DEF WorkerOK
  <2> QED
    BY <1>1, <1>6, <2>2, QuietStep DEF FailMetrics, history
<1>7. CASE FailToEnsure \/ FailUpdate
  BY <1>1, <1>7, IdleOK, QuietStep DEF FailToEnsure, FailUpdate, history
<1> QED
  BY <1>2, <1>3, <1>4, <1>5, <1>6, <1>7

\* ensureWeightOptimizer returns a version no newer than the stored one, and the
\* stored one itself when their resourceVersions agree.
LEMMA EnsureCurrent ==
  ASSUME OptimizerInv, NEW copy, EnsureWeightOptimizer(copy), UNCHANGED <<now, lastReset>>
  PROVE  /\ VersionsOK(weightOptimizer') /\ Coherent(weightOptimizer')
         /\ IsVersion(copy)
         /\ copy.rv <= weightOptimizer'.stored.rv
         /\ copy.rv = weightOptimizer'.stored.rv => copy = weightOptimizer'.stored
         /\ Weighted(weightOptimizer'.stored.endpoints)
         /\ Dated(weightOptimizer.stored.endpoints)'
<1>1. VersionsOK(weightOptimizer) /\ Numbered(weightOptimizer) /\ Coherent(weightOptimizer)
  BY TypeParts, VersionsNumbered DEF OptimizerInv
<1>2. CASE Exists(weightOptimizer.cached)
  BY <1>1, <1>2 DEF EnsureWeightOptimizer, OptimizerInv, VersionsOK, Coherent, Dated
<1>3. CASE ~Exists(weightOptimizer.cached)
  <2>1. /\ weightOptimizer.stored.rv = 0
        /\ copy = [rv |-> 1, endpoints |-> Nothing]
        /\ weightOptimizer' = Write(weightOptimizer, copy)
    BY <1>3 DEF EnsureWeightOptimizer, Exists
  <2>2. IsVersion(copy) /\ copy.rv = 1
    BY <2>1, NothingOK DEF IsVersion
  <2>3. VersionsOK(weightOptimizer') /\ weightOptimizer'.stored = copy
    BY <1>1, <2>1, <2>2 DEF VersionsOK, Write
  <2>4. Coherent(weightOptimizer')
    BY <1>1, <2>1, <2>2, WriteCoherent
  <2>5. Weighted(weightOptimizer'.stored.endpoints) /\ Dated(weightOptimizer.stored.endpoints)'
    BY <2>1, <2>3, NothingOK DEF Weighted, Dated
  <2> QED
    BY <2>2, <2>3, <2>4, <2>5
<1> QED
  BY <1>2, <1>3

\* A write computed from a version that ensureWeightOptimizer returned.
LEMMA WritingInv ==
  ASSUME OptimizerInv, NEW copy, EnsureWeightOptimizer(copy),
         NEW pc \in {"update", "reset"}, NEW endpoints,
         worker' = Writing(pc, copy.rv, endpoints),
         IsEndpoints(endpoints), Weighted(endpoints),
         copy = weightOptimizer'.stored =>
           /\ Dated(endpoints)
           /\ \A a \in DOMAIN endpoints \cap DOMAIN copy.endpoints : endpoints[a].last >= copy.endpoints[a].last,
         pc = "reset" =>
           /\ \A a \in DOMAIN endpoints : endpoints[a].last = now
           /\ copy = weightOptimizer'.stored => now - lastReset >= OptimizationTimeout,
         UNCHANGED <<serviceEntry, now, lastReset>>, (gauges \subseteq Addr)'
  PROVE  OptimizerInv'
<1>1. /\ VersionsOK(weightOptimizer') /\ Coherent(weightOptimizer')
      /\ IsVersion(copy)
      /\ copy.rv <= weightOptimizer'.stored.rv
      /\ copy.rv = weightOptimizer'.stored.rv => copy = weightOptimizer'.stored
      /\ Weighted(weightOptimizer'.stored.endpoints)
      /\ Dated(weightOptimizer.stored.endpoints)'
  BY EnsureCurrent
<1>2. /\ worker'.pc = pc /\ worker'.rv = copy.rv /\ worker'.endpoints = endpoints /\ worker'.time = now
      /\ worker'.se = worker.se /\ worker'.sample = worker.sample /\ worker'.pods = {}
  BY DEF Writing
<1>3. WorkerOK(worker')
  BY <1>1, <1>2, TypeParts DEF WorkerOK, OptimizerInv, IsVersion
<1>4. TypeOK'
  BY <1>1, <1>3, TypeParts DEF OptimizerInv, TypeOK, VersionsOK, WorkerOK
<1>5. now \in Nat
  BY DEF OptimizerInv, TypeOK
<1>6. Pending'
  <2>1. (worker.time <= now)'
    BY <1>2, <1>5, SMT
  <2>2. Dated(endpoints) => Dated(worker.endpoints)'
    BY <1>2 DEF Dated
  <2> QED
    BY <1>1, <1>2, <2>1, <2>2 DEF Pending
<1>7. PendingReset'
  BY <1>1, <1>2 DEF PendingReset
<1> QED
  BY <1>1, <1>4, <1>6, <1>7 DEF OptimizerInv

\* calculateNewWeights keeps the dates of the version it started from.
LEMMA CalculateNewWeightsInv ==
  ASSUME OptimizerInv, CalculateNewWeights
  PROVE  OptimizerInv'
<1>1. PICK copy \in {weightOptimizer.cached, [rv |-> 1, endpoints |-> Nothing]} :
        /\ EnsureWeightOptimizer(copy)
        /\ gauges' = gauges \ (DOMAIN copy.endpoints \ FilteredAddresses(worker.se, worker.sample))
        /\ \E weights \in NewWeights(worker.se, worker.sample, copy.endpoints) :
             worker' = Writing("update", copy.rv, NewEndpoints(worker.se, worker.sample, copy.endpoints, weights))
  BY DEF CalculateNewWeights
<1>2. PICK weights \in NewWeights(worker.se, worker.sample, copy.endpoints) :
        worker' = Writing("update", copy.rv, NewEndpoints(worker.se, worker.sample, copy.endpoints, weights))
  BY <1>1
<1> DEFINE new == NewEndpoints(worker.se, worker.sample, copy.endpoints, weights)
<1>3. UNCHANGED <<serviceEntry, now, lastReset>>
  BY DEF CalculateNewWeights, history
<1>4. /\ IsVersion(copy)
      /\ copy = weightOptimizer'.stored => Dated(copy.endpoints)
  <2>1. IsVersion(copy) /\ Dated(weightOptimizer.stored.endpoints)'
    BY <1>1, <1>3, EnsureCurrent
  <2> QED
    BY <1>3, <2>1 DEF Dated
<1>5. /\ IsEndpoints(new) /\ Weighted(new)
      /\ \A a \in DOMAIN new : new[a].last = IF a \in DOMAIN copy.endpoints THEN copy.endpoints[a].last ELSE now
  <2>1. IsEntry(worker.se) /\ IsSample(worker.sample) /\ IsEndpoints(copy.endpoints) /\ now \in Nat
    BY <1>4 DEF OptimizerInv, TypeOK, IsVersion
  <2> HIDE DEF new
  <2> QED
    BY <2>1, NewEndpointsOK DEF new
<1> HIDE DEF new
<1>6. lastReset \in Nat /\ now \in Nat /\ lastReset <= now
  BY DEF OptimizerInv, TypeOK
<1>7. \A a \in DOMAIN copy.endpoints : copy.endpoints[a].last \in Nat
  BY <1>4 DEF IsVersion, IsEndpoints, EndpointRecord
<1>8. copy = weightOptimizer'.stored =>
        /\ Dated(new)
        /\ \A a \in DOMAIN new \cap DOMAIN copy.endpoints : new[a].last >= copy.endpoints[a].last
  BY <1>4, <1>5, <1>6, <1>7, SMT DEF Dated
<1>9. gauges' \subseteq Addr
  BY <1>1 DEF OptimizerInv, TypeOK
<1>10. worker' = Writing("update", copy.rv, new)
  BY <1>2 DEF new
<1> QED
  BY <1>1, <1>3, <1>5, <1>8, <1>9, <1>10, WritingInv

\* fallbackStrategy dates everything now, and only when the version it saw is old.
LEMMA FallbackStrategyInv ==
  ASSUME OptimizerInv, FallbackStrategy
  PROVE  OptimizerInv'
<1>1. PICK copy \in {weightOptimizer.cached, [rv |-> 1, endpoints |-> Nothing]} :
        /\ EnsureWeightOptimizer(copy)
        /\ worker' = IF ShouldSkipFallback(copy.endpoints) THEN Idle
                     ELSE Writing("reset", copy.rv, ResetEndpoints(worker.pods))
  BY DEF FallbackStrategy
<1>2. UNCHANGED <<serviceEntry, now, lastReset, gauges>> /\ gauges' \subseteq Addr
  BY DEF FallbackStrategy, history, OptimizerInv, TypeOK
<1>3. /\ VersionsOK(weightOptimizer') /\ Coherent(weightOptimizer')
      /\ IsVersion(copy)
      /\ Weighted(weightOptimizer'.stored.endpoints)
      /\ Dated(weightOptimizer.stored.endpoints)'
  BY <1>1, <1>2, EnsureCurrent
<1>4. CASE ShouldSkipFallback(copy.endpoints)
  <2>1. worker' = Idle
    BY <1>1, <1>4
  <2>2. TypeOK'
    BY <1>2, <1>3, <2>1, IdleOK, TypeParts DEF OptimizerInv, TypeOK, VersionsOK, WorkerOK
  <2> QED
    BY <1>2, <1>3, <2>1, <2>2, IdleOK DEF OptimizerInv, Pending, PendingReset
<1>5. CASE ~ShouldSkipFallback(copy.endpoints)
  <2> DEFINE new == ResetEndpoints(worker.pods)
  <2>1. lastReset \in Nat /\ now \in Nat /\ lastReset <= now /\ worker.pods \subseteq Addr
    BY DEF OptimizerInv, TypeOK
  <2>2. IsEndpoints(new) /\ Weighted(new) /\ \A a \in DOMAIN new : new[a].last = now
    BY <2>1, ResetEndpointsOK
  <2>3. worker' = Writing("reset", copy.rv, new)
    BY <1>1, <1>5
  <2> HIDE DEF new
  <2>4. \A a \in DOMAIN copy.endpoints : copy.endpoints[a].last \in Nat
    BY <1>3 DEF IsVersion, IsEndpoints, EndpointRecord
  <2>5. copy = weightOptimizer'.stored => Dated(copy.endpoints)
    BY <1>2, <1>3 DEF Dated
  <2>6. Dated(new)
    BY <2>1, <2>2, SMT DEF Dated
  <2>7. copy = weightOptimizer'.stored =>
          \A a \in DOMAIN new \cap DOMAIN copy.endpoints : new[a].last >= copy.endpoints[a].last
    BY <2>1, <2>2, <2>4, <2>5, SMT DEF Dated
  <2>8. copy = weightOptimizer'.stored => now - lastReset >= OptimizationTimeout
    <3>1. PICK a \in DOMAIN copy.endpoints : ~(now - copy.endpoints[a].last < OptimizationTimeout)
      BY <1>5 DEF ShouldSkipFallback
    <3> QED
      BY <2>1, <2>4, <2>5, <3>1, OptimizerAssumption, SMT DEF Dated
  <2> QED
    BY <1>1, <1>2, <2>2, <2>3, <2>6, <2>7, <2>8, WritingInv
<1> QED
  BY <1>4, <1>5

\* An accepted Update stores what was computed from the stored version.
LEMMA PutCurrent ==
  ASSUME OptimizerInv, worker.pc \in {"update", "reset"}, UpdateAccepted, Put
  PROVE  /\ VersionsOK(weightOptimizer') /\ Coherent(weightOptimizer')
         /\ weightOptimizer'.stored.endpoints = worker.endpoints
         /\ IsEndpoints(worker.endpoints) /\ Weighted(worker.endpoints) /\ Dated(worker.endpoints)
         /\ \A a \in DOMAIN worker.endpoints \cap DOMAIN weightOptimizer.stored.endpoints :
              worker.endpoints[a].last >= weightOptimizer.stored.endpoints[a].last
<1>1. VersionsOK(weightOptimizer) /\ Numbered(weightOptimizer) /\ Coherent(weightOptimizer) /\ WorkerOK(worker)
  BY TypeParts, VersionsNumbered DEF OptimizerInv
<1>2. worker.rv = weightOptimizer.stored.rv /\ IsEndpoints(worker.endpoints)
  BY <1>1 DEF UpdateAccepted, Accepts, WorkerOK
<1>3. /\ Weighted(worker.endpoints) /\ Dated(worker.endpoints)
      /\ \A a \in DOMAIN worker.endpoints \cap DOMAIN weightOptimizer.stored.endpoints :
           worker.endpoints[a].last >= weightOptimizer.stored.endpoints[a].last
  BY <1>2 DEF OptimizerInv, Pending
<1>4. CASE worker.endpoints = weightOptimizer.stored.endpoints
  BY <1>1, <1>2, <1>3, <1>4 DEF Put
<1>5. CASE worker.endpoints # weightOptimizer.stored.endpoints
  <2> DEFINE v == [rv |-> weightOptimizer.stored.rv + 1, endpoints |-> worker.endpoints]
  <2>1. weightOptimizer' = Write(weightOptimizer, v)
    BY <1>5 DEF Put
  <2>2. v.rv \in Nat /\ v.rv > weightOptimizer.stored.rv /\ IsVersion(v)
    BY <1>1, <1>2, SMT DEF Numbered, IsVersion
  <2>3. weightOptimizer'.stored.endpoints = worker.endpoints
    BY <2>1 DEF Write
  <2> HIDE DEF v
  <2>4. VersionsOK(weightOptimizer')
    BY <1>1, <2>1, <2>2 DEF VersionsOK, Write
  <2>5. Coherent(weightOptimizer')
    BY <1>1, <2>1, <2>2, WriteCoherent
  <2> QED
    BY <1>2, <1>3, <2>3, <2>4, <2>5
<1> QED
  BY <1>4, <1>5

\* updateMetrics follows an accepted Update.
LEMMA UpdateWeightOptimizerInv ==
  ASSUME OptimizerInv, UpdateWeightOptimizer
  PROVE  OptimizerInv'
<1>1. worker.pc = "update" /\ UpdateAccepted /\ Put /\ worker' = Idle
  BY DEF UpdateWeightOptimizer
<1>2. UNCHANGED <<serviceEntry, now, lastReset>>
  BY DEF UpdateWeightOptimizer
<1>3. /\ VersionsOK(weightOptimizer') /\ Coherent(weightOptimizer')
      /\ weightOptimizer'.stored.endpoints = worker.endpoints
      /\ IsEndpoints(worker.endpoints) /\ Weighted(worker.endpoints) /\ Dated(worker.endpoints)
  BY <1>1, PutCurrent
<1>4. gauges' \subseteq Addr
  BY <1>3 DEF UpdateWeightOptimizer, UpdateMetrics, OptimizerInv, TypeOK, IsEndpoints
<1>5. TypeOK'
  BY <1>1, <1>2, <1>3, <1>4, IdleOK, TypeParts DEF OptimizerInv, TypeOK, VersionsOK, WorkerOK
<1> QED
  BY <1>1, <1>2, <1>3, <1>5, IdleOK DEF OptimizerInv, Pending, PendingReset, Dated

\* A reset leaves no endpoint dated before it.
LEMMA ResetWeightsInv ==
  ASSUME OptimizerInv, ResetWeights
  PROVE  /\ OptimizerInv'
         /\ lastReset' - lastReset >= OptimizationTimeout
<1>1. worker.pc = "reset" /\ UpdateAccepted /\ Put /\ worker' = Idle /\ lastReset' = worker.time
  BY DEF ResetWeights
<1>2. UNCHANGED <<serviceEntry, now, gauges>>
  BY DEF ResetWeights
<1>3. /\ VersionsOK(weightOptimizer') /\ Coherent(weightOptimizer')
      /\ weightOptimizer'.stored.endpoints = worker.endpoints
      /\ Weighted(worker.endpoints)
  BY <1>1, PutCurrent
<1>4. /\ worker.rv = weightOptimizer.stored.rv
      /\ worker.time \in Nat /\ worker.time <= now /\ now \in Nat
      /\ \A a \in DOMAIN worker.endpoints : worker.endpoints[a].last = worker.time
      /\ worker.time - lastReset >= OptimizationTimeout
  BY <1>1 DEF OptimizerInv, TypeOK, Pending, PendingReset, UpdateAccepted, Accepts
<1>5. TypeOK'
  BY <1>1, <1>2, <1>3, <1>4, IdleOK, TypeParts DEF OptimizerInv, TypeOK, VersionsOK, WorkerOK
<1>6. Dated(weightOptimizer.stored.endpoints)' /\ (lastReset <= now)'
  BY <1>1, <1>2, <1>3, <1>4, SMT DEF Dated
<1> QED
  BY <1>1, <1>3, <1>4, <1>5, <1>6, IdleOK DEF OptimizerInv, Pending, PendingReset

-----------------------------------------------------------------------------
\* Every step keeps the invariant.
LEMMA NextInv ==
  ASSUME OptimizerInv, [Next]_vars
  PROVE  OptimizerInv'
<1>1. CASE UNCHANGED vars
  BY <1>1, QuietStep DEF OptimizerInv, TypeOK, vars, history
<1>2. CASE Environment
  BY <1>2, TickInv, ReadInv, DeliverWeightOptimizerInv, RestartInv DEF Environment
<1>3. CASE Cycle
  BY <1>3, ReadInv, CalculateNewWeightsInv, FallbackStrategyInv, UpdateWeightOptimizerInv, ResetWeightsInv DEF Cycle
<1> QED
  BY <1>1, <1>2, <1>3 DEF Next

\* Published weights and dates are in order, and so is the write being prepared,
\* in every behaviour of the reconciler.
THEOREM OptimizerInvariant == Spec => []OptimizerInv
<1>1. Init => OptimizerInv
  BY InitInv
<1>2. OptimizerInv /\ [Next]_vars => OptimizerInv'
  BY NextInv
<1> QED
  BY <1>1, <1>2, PTL DEF Spec

\* The state keeps its type.
THEOREM OptimizerTypeCorrectness == Spec => []TypeOK
BY OptimizerInvariant, PTL DEF OptimizerInv

\* No number of cycles drives a published weight out of the stretched range.
THEOREM PublishedWeightsBounded == Spec => []WeightsBounded
<1>1. OptimizerInv => WeightsBounded
  BY DEF OptimizerInv, WeightsBounded
<1> QED
  BY <1>1, OptimizerInvariant, PTL

\* Two resets of the fallback strategy are at least the timeout apart.
THEOREM ResetSpacing == Spec => ResetsAreSpaced
<1>1. OptimizerInv /\ [Next]_vars => [ResetWeights => lastReset' - lastReset >= OptimizationTimeout]_vars
  BY ResetWeightsInv
<1> QED
  BY <1>1, OptimizerInvariant, PTL DEF Spec, ResetsAreSpaced

\* What a step does to the stored WeightOptimizer: nothing, create it, or an
\* accepted Update.
LEMMA StoredSteps ==
  ASSUME OptimizerInv, [Next]_vars
  PROVE  \/ weightOptimizer'.stored = weightOptimizer.stored
         \/ weightOptimizer'.stored.endpoints = Nothing
         \/ worker.pc \in {"update", "reset"} /\ UpdateAccepted /\ Put
<1>1. CASE CalculateNewWeights \/ FallbackStrategy
  BY <1>1 DEF CalculateNewWeights, FallbackStrategy, EnsureWeightOptimizer, Write
<1>2. CASE UpdateWeightOptimizer \/ ResetWeights
  BY <1>2 DEF UpdateWeightOptimizer, ResetWeights
<1>3. CASE UNCHANGED vars \/ (Next /\ ~CalculateNewWeights /\ ~FallbackStrategy /\ ~UpdateWeightOptimizer /\ ~ResetWeights)
  BY <1>3 DEF Next, Environment, Cycle, Tick, ChangePods, ApplyToServiceEntry, DeliverWeightOptimizer, Deliver, Restart,
     Relist, Cached, StartCycle, ReceiveMetrics, FailMetrics, FailToEnsure, FailUpdate, vars
<1> QED
  BY <1>1, <1>2, <1>3

\* No write from an old copy brings back an older LastOptimized.
THEOREM LastOptimizedMonotonicity == Spec => LastOptimizedNeverGoesBack
<1> DEFINE Forward ==
      LET old == weightOptimizer.stored.endpoints
          new == weightOptimizer'.stored.endpoints
      IN  \A a \in DOMAIN old \cap DOMAIN new : new[a].last >= old[a].last
<1>1. OptimizerInv /\ [Next]_vars => [Forward]_weightOptimizer
  <2> SUFFICES ASSUME OptimizerInv, [Next]_vars PROVE Forward
    OBVIOUS
  <2>1. CASE weightOptimizer'.stored = weightOptimizer.stored
    <3>1. \A a \in DOMAIN weightOptimizer.stored.endpoints : weightOptimizer.stored.endpoints[a].last \in Nat
      BY DEF OptimizerInv, TypeOK, IsVersion, IsEndpoints, EndpointRecord
    <3> QED
      BY <2>1, <3>1, SMT
  <2>2. CASE weightOptimizer'.stored.endpoints = Nothing
    BY <2>2, NothingOK
  <2>3. CASE worker.pc \in {"update", "reset"} /\ UpdateAccepted /\ Put
    BY <2>3, PutCurrent
  <2> QED
    BY <2>1, <2>2, <2>3, StoredSteps
<1> QED
  BY <1>1, OptimizerInvariant, PTL DEF Spec, LastOptimizedNeverGoesBack

-----------------------------------------------------------------------------
(***************************************************************************)
(* The same with any ServiceEntry: a cached one that lags, one to which an *)
(* older version of the WeightOptimizer was applied while a newer one was  *)
(* in the cache already, or one somebody edited.                           *)
(***************************************************************************)
WriteServiceEntry ==
  /\ IsEntry(serviceEntry')
  /\ UNCHANGED <<weightOptimizer, worker, gauges, now, cycles, history>>

AnyEntrySpec == Init /\ [][Next \/ WriteServiceEntry]_vars

LEMMA AnyEntryInv ==
  ASSUME OptimizerInv, [Next \/ WriteServiceEntry]_vars
  PROVE  OptimizerInv'
<1>1. CASE [Next]_vars
  BY <1>1, NextInv
<1>2. CASE WriteServiceEntry
  BY <1>2, QuietStep DEF WriteServiceEntry, OptimizerInv, TypeOK, history
<1> QED
  BY <1>1, <1>2

\* Whatever is in the ServiceEntry, published weights are bounded and resets are
\* spaced (the clamp of calculateNewWeight, the dates in the WeightOptimizer).
THEOREM BoundedWhateverTheEntry == AnyEntrySpec => []WeightsBounded /\ ResetsAreSpaced
<1>1. Init => OptimizerInv
  BY InitInv
<1>2. OptimizerInv /\ [Next \/ WriteServiceEntry]_vars => OptimizerInv'
  BY AnyEntryInv
<1>3. OptimizerInv => WeightsBounded
  BY DEF OptimizerInv, WeightsBounded
<1>4. OptimizerInv /\ [Next \/ WriteServiceEntry]_vars => [ResetWeights => lastReset' - lastReset >= OptimizationTimeout]_vars
  BY ResetWeightsInv
<1> QED
  BY <1>1, <1>2, <1>3, <1>4, PTL DEF AnyEntrySpec, ResetsAreSpaced
=============================================================================
