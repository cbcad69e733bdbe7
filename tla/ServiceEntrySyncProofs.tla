---------------------- MODULE ServiceEntrySyncProofs ----------------------
(***************************************************************************)
(* Theorems of ServiceEntrySync for every finite set of addresses, every   *)
(* channel capacity and every bound: its invariant, what a write of the    *)
(* ServiceEntry may change, the weights it may hold, and that the three    *)
(* reconcilers implement ServiceEntryContract.                             *)
(***************************************************************************)
EXTENDS ServiceEntryHistory, CachedObjectProofs, WeightMathProofs

\* The objects of a state of the right type have numbered versions.
LEMMA TypeOKNumbered ==
  ASSUME TypeOK
  PROVE  Numbered(endpoints) /\ Numbered(weightOptimizer) /\ Numbered(serviceEntry)
BY DEF TypeOK, Numbered, EndpointsVersions, ServiceEntryVersion, WeightOptimizerVersion

USE DEF At, Idle, OptimizerIdle, NoServiceEntry, NoWeightOptimizer, NoEndpoints, NoWeights

\* The invariant holds when the manager starts.
LEMMA InitSyncInv ==
  ASSUME Init
  PROVE  SyncInv
<1>. DEFINE ep(addrs) == [rv |-> 1, addrs |-> addrs, annotated |-> Installed]
<1>1. PICK addrs \in SUBSET Addr :
        /\ endpoints = Cached(ep(addrs))
        /\ serviceEntry = Cached(IF Installed THEN NewServiceEntry(ep(addrs)) ELSE NoServiceEntry)
  BY DEF Init
<1>2. TypeOK
  <2>1. ep(addrs) \in EndpointsVersions /\ NoEndpoints \in EndpointsVersions
    BY SyncAssumption DEF EndpointsVersions
  <2>2. ServiceEntryVersion(NewServiceEntry(ep(addrs))) /\ ServiceEntryVersion(NoServiceEntry)
    BY DEF ServiceEntryVersion, NewServiceEntry
  <2>3. WeightOptimizerVersion(NoWeightOptimizer)
    BY DEF WeightOptimizerVersion
  <2>4. endpoints.stored = ep(addrs) /\ endpoints.cached = ep(addrs) /\ endpoints.watch = {}
    BY <1>1 DEF Cached
  <2>5. /\ weightOptimizer.stored = NoWeightOptimizer /\ weightOptimizer.cached = NoWeightOptimizer
        /\ weightOptimizer.watch = {}
    BY DEF Init, Cached
  <2>6. /\ ServiceEntryVersion(serviceEntry.stored) /\ ServiceEntryVersion(serviceEntry.cached)
        /\ serviceEntry.watch = {}
    BY <1>1, <2>2 DEF Cached
  <2>7. /\ optimizer \in [pc : {"idle", "annotate", "create"}, ep : EndpointsVersions]
        /\ worker.pc = "idle" /\ worker.se = NoServiceEntry /\ worker.wo = NoWeightOptimizer
    BY <2>1 DEF Init
  <2>8. channel \in 0..ChannelCapacity /\ faults \in 0..MaxFaults
    BY SyncAssumption DEF Init
  <2>. HIDE DEF ep, NoServiceEntry, NoWeightOptimizer, NoEndpoints
  <2>. QED BY <2>1, <2>2, <2>3, <2>4, <2>5, <2>6, <2>7, <2>8, SyncAssumption DEF Init, TypeOK
<1>3. Caches
  BY <1>1 DEF Init, Caches, Coherent, Cached, NewServiceEntry
<1>4. WrittenFromCache /\ OptimizerCopy /\ WorkerCopy
  BY <1>1, SyncAssumption DEF Init, WrittenFromCache, OptimizerCopy, WorkerCopy, Cached, NewServiceEntry, Exists
<1>. QED BY <1>2, <1>3, <1>4 DEF SyncInv

\* A pod that comes or goes writes Endpoints newer than every copy in use.
LEMMA ChangeEndpointsInv ==
  ASSUME SyncInv, ChangeEndpoints
  PROVE  SyncInv'
<1>. USE DEF SyncInv, vars, objects, optimizerVars, endpointsVars, syncVars
<1>1. PICK addrs \in SUBSET Addr :
        endpoints' = Write(endpoints, [rv |-> endpoints.stored.rv + 1, addrs |-> addrs,
                                       annotated |-> endpoints.stored.annotated])
  BY DEF ChangeEndpoints
<1>2. TypeOK'
  BY <1>1 DEF ChangeEndpoints, TypeOK, Write, EndpointsVersions, ServiceEntryVersion, WeightOptimizerVersion
<1>3. Caches'
  BY <1>1, TypeOKNumbered, WriteCoherent DEF ChangeEndpoints, Caches, Numbered
<1>4. (WrittenFromCache /\ OptimizerCopy /\ WorkerCopy)'
  BY <1>1 DEF ChangeEndpoints, WrittenFromCache, OptimizerCopy, WorkerCopy, Write, Exists, ApplyWeights, AppliedWeights, PublishedWeight
<1>. QED BY <1>2, <1>3, <1>4

\* A WeightOptimizer that is published is newer than every copy in use.
LEMMA PublishWeightsInv ==
  ASSUME SyncInv, PublishWeights
  PROVE  SyncInv'
<1>. USE DEF SyncInv, vars, objects, optimizerVars, endpointsVars, syncVars
<1>1. PICK weights \in Published :
        weightOptimizer' = Write(weightOptimizer, [rv |-> weightOptimizer.stored.rv + 1, weights |-> weights])
  BY DEF PublishWeights
<1>2. TypeOK'
  BY <1>1, SyncAssumption DEF PublishWeights, TypeOK, Write, EndpointsVersions, ServiceEntryVersion, WeightOptimizerVersion
<1>3. Caches'
  BY <1>1, TypeOKNumbered, WriteCoherent DEF PublishWeights, Caches, Numbered
<1>4. (WrittenFromCache /\ OptimizerCopy /\ WorkerCopy)'
  BY <1>1 DEF PublishWeights, WrittenFromCache, OptimizerCopy, WorkerCopy, Write, Exists, ApplyWeights, AppliedWeights, PublishedWeight
<1>. QED BY <1>2, <1>3, <1>4

\* A delivery moves the cached Endpoints forward, past the copies in use.
LEMMA DeliverEndpointsInv ==
  ASSUME SyncInv, DeliverEndpoints
  PROVE  SyncInv'
<1>. USE DEF SyncInv, vars, objects, optimizerVars, endpointsVars, syncVars
<1>1. PICK v \in endpoints.watch : endpoints' = Deliver(endpoints, v) /\ endpointsQueue' = (endpointsQueue \/ v.annotated)
  BY DEF DeliverEndpoints
<1>2. TypeOK'
  BY <1>1 DEF DeliverEndpoints, TypeOK, Deliver, EndpointsVersions, ServiceEntryVersion, WeightOptimizerVersion
<1>3. Caches' /\ v.rv > endpoints.cached.rv
  BY <1>1, TypeOKNumbered, DeliverCoherent DEF DeliverEndpoints, Caches
<1>4. endpoints.cached.rv \in Nat /\ v.rv \in Nat /\ serviceEntry.stored.epv \in Nat /\ optimizer.ep.rv \in Nat /\ worker.se.epv \in Nat
  BY <1>1 DEF TypeOK, EndpointsVersions, ServiceEntryVersion
<1>5. (WrittenFromCache /\ OptimizerCopy /\ WorkerCopy)'
  BY <1>1, <1>3, <1>4 DEF DeliverEndpoints, WrittenFromCache, OptimizerCopy, WorkerCopy, Deliver, Exists, ApplyWeights, AppliedWeights, PublishedWeight
<1>. QED BY <1>2, <1>3, <1>5

\* A delivery moves the cached WeightOptimizer forward, past the copies in use.
LEMMA DeliverWeightOptimizerInv ==
  ASSUME SyncInv, DeliverWeightOptimizer
  PROVE  SyncInv'
<1>. USE DEF SyncInv, vars, objects, optimizerVars, endpointsVars, syncVars
<1>1. PICK v \in weightOptimizer.watch : weightOptimizer' = Deliver(weightOptimizer, v)
  BY DEF DeliverWeightOptimizer
<1>2. TypeOK'
  BY <1>1 DEF DeliverWeightOptimizer, TypeOK, Deliver, EndpointsVersions, ServiceEntryVersion, WeightOptimizerVersion
<1>3. Caches' /\ v.rv > weightOptimizer.cached.rv
  BY <1>1, TypeOKNumbered, DeliverCoherent DEF DeliverWeightOptimizer, Caches
<1>4. /\ weightOptimizer.cached.rv \in Nat /\ v.rv \in Nat
      /\ serviceEntry.stored.wov \in Nat /\ worker.wo.rv \in Nat
  BY <1>1 DEF TypeOK, WeightOptimizerVersion, ServiceEntryVersion
<1>5. (WrittenFromCache /\ OptimizerCopy /\ WorkerCopy)'
  BY <1>1, <1>3, <1>4 DEF DeliverWeightOptimizer, WrittenFromCache, OptimizerCopy, WorkerCopy, Deliver,
     Exists, ApplyWeights, AppliedWeights, PublishedWeight
<1>. QED BY <1>2, <1>3, <1>5

\* A delivery of the ServiceEntry leaves the worker's copy what it was.
LEMMA DeliverServiceEntryInv ==
  ASSUME SyncInv, DeliverServiceEntry
  PROVE  SyncInv'
<1>. USE DEF SyncInv, vars, objects, optimizerVars, endpointsVars, syncVars
<1>1. PICK v \in serviceEntry.watch : serviceEntry' = Deliver(serviceEntry, v)
  BY DEF DeliverServiceEntry
<1>2. TypeOK'
  BY <1>1 DEF DeliverServiceEntry, TypeOK, Deliver, EndpointsVersions, ServiceEntryVersion, WeightOptimizerVersion
<1>3. Caches'
  BY <1>1, TypeOKNumbered, DeliverCoherent DEF DeliverServiceEntry, Caches
<1>4. (WrittenFromCache /\ OptimizerCopy /\ WorkerCopy)'
  BY <1>1 DEF DeliverServiceEntry, WrittenFromCache, OptimizerCopy, WorkerCopy, Deliver,
     Exists, ApplyWeights, AppliedWeights, PublishedWeight
<1>. QED BY <1>2, <1>3, <1>4

\* A request put into a work queue changes no copy.
LEMMA EventInv ==
  ASSUME SyncInv, OptimizerEvent \/ Resync \/ ForwardTrigger \/ ListServiceEntries \/ SendTrigger
  PROVE  SyncInv'
<1>. USE DEF SyncInv, vars, objects, optimizerVars, endpointsVars, syncVars
<1>1. TypeOK'
  <2>1. UNCHANGED <<endpoints, weightOptimizer, serviceEntry, optimizer, worker, faults>>
    BY DEF OptimizerEvent, Resync, ForwardTrigger, ListServiceEntries, SendTrigger
  <2>2. /\ optimizerQueue' \in BOOLEAN /\ endpointsQueue' \in BOOLEAN /\ syncQueue' \in BOOLEAN
        /\ endpointsWorker' \in {"idle", "send"}
    BY DEF TypeOK, OptimizerEvent, Resync, ForwardTrigger, ListServiceEntries, SendTrigger
  <2>3. channel' \in 0..ChannelCapacity
    BY SyncAssumption DEF TypeOK, OptimizerEvent, Resync, ForwardTrigger, ListServiceEntries, SendTrigger, ChannelHasRoom
  <2>. QED BY <2>1, <2>2, <2>3 DEF TypeOK, ServiceEntryVersion, WeightOptimizerVersion
<1>2. (Caches /\ WrittenFromCache /\ OptimizerCopy /\ WorkerCopy)'
  BY DEF OptimizerEvent, Resync, ForwardTrigger, ListServiceEntries, SendTrigger,
     Caches, WrittenFromCache, OptimizerCopy, WorkerCopy, ApplyWeights, AppliedWeights, PublishedWeight
<1>. QED BY <1>1, <1>2

\* A restart drops every copy in use and lists the objects again.
LEMMA RestartInv ==
  ASSUME SyncInv, Restart
  PROVE  SyncInv'
<1>. USE DEF SyncInv, vars, objects, optimizerVars, endpointsVars, syncVars
<1>1. TypeOK'
  <2>1. /\ NoEndpoints \in EndpointsVersions
        /\ ServiceEntryVersion(NoServiceEntry) /\ WeightOptimizerVersion(NoWeightOptimizer)
    BY DEF EndpointsVersions, ServiceEntryVersion, WeightOptimizerVersion
  <2>2. endpoints'.stored = endpoints.stored /\ endpoints'.cached = endpoints.stored /\ endpoints'.watch = {}
    BY DEF Restart, Relist, Cached
  <2>3. /\ weightOptimizer'.stored = weightOptimizer.stored /\ weightOptimizer'.cached = weightOptimizer.stored
        /\ weightOptimizer'.watch = {}
    BY DEF Restart, Relist, Cached
  <2>4. /\ serviceEntry'.stored = serviceEntry.stored /\ serviceEntry'.cached = serviceEntry.stored
        /\ serviceEntry'.watch = {}
    BY DEF Restart, Relist, Cached
  <2>5. /\ optimizer' = [pc |-> "idle", ep |-> NoEndpoints]
        /\ worker'.pc = "idle" /\ worker'.se = NoServiceEntry /\ worker'.wo = NoWeightOptimizer
    BY DEF Restart
  <2>6. optimizer' \in [pc : {"idle", "annotate", "create"}, ep : EndpointsVersions]
    BY <2>1, <2>5
  <2>7. channel' \in 0..ChannelCapacity /\ faults' \in 0..MaxFaults
    BY SyncAssumption DEF Restart, Fault, TypeOK
  <2>8. optimizerQueue' \in BOOLEAN /\ endpointsQueue' \in BOOLEAN /\ syncQueue' \in BOOLEAN /\ endpointsWorker' = "idle"
    BY DEF Restart, TypeOK, EndpointsVersions, Exists
  <2>. HIDE DEF NoServiceEntry, NoWeightOptimizer, NoEndpoints
  <2>. QED BY <2>1, <2>2, <2>3, <2>4, <2>5, <2>6, <2>7, <2>8 DEF TypeOK, ServiceEntryVersion, WeightOptimizerVersion
<1>2. Caches'
  BY TypeOKNumbered, RelistCoherent DEF Restart, Caches
<1>3. /\ endpoints'.cached = endpoints.stored
      /\ weightOptimizer'.cached = weightOptimizer.stored
      /\ serviceEntry'.stored = serviceEntry.stored
  BY DEF Restart, Relist, Cached
<1>4. WrittenFromCache'
  <2>1. /\ endpoints.cached.rv \in Nat /\ endpoints.stored.rv \in Nat /\ serviceEntry.stored.epv \in Nat
        /\ weightOptimizer.cached.rv \in Nat /\ weightOptimizer.stored.rv \in Nat /\ serviceEntry.stored.wov \in Nat
    BY DEF TypeOK, EndpointsVersions, ServiceEntryVersion, WeightOptimizerVersion
  <2>2. /\ endpoints.cached.rv <= endpoints.stored.rv
        /\ endpoints.cached.rv = endpoints.stored.rv => endpoints.cached = endpoints.stored
        /\ weightOptimizer.cached.rv <= weightOptimizer.stored.rv
    BY DEF Caches, Coherent
  <2>. QED BY <1>3, <2>1, <2>2 DEF WrittenFromCache, Exists
<1>5. (OptimizerCopy /\ WorkerCopy)'
  BY <1>3 DEF Restart, OptimizerCopy, WorkerCopy, TypeOK, EndpointsVersions
<1>. QED BY <1>1, <1>2, <1>4, <1>5

\* The reconcile of the optimizer.
LEMMA FetchEndpointsInv ==
  ASSUME SyncInv, FetchEndpoints
  PROVE  SyncInv'
<1>. USE DEF SyncInv, vars, objects, optimizerVars, endpointsVars, syncVars
<1>1. TypeOK'
  BY DEF FetchEndpoints, TypeOK, ServiceEntryVersion, WeightOptimizerVersion
<1>2. (Caches /\ WrittenFromCache /\ OptimizerCopy /\ WorkerCopy)'
  BY DEF FetchEndpoints, Caches, WrittenFromCache, OptimizerCopy, WorkerCopy,
     ApplyWeights, AppliedWeights, PublishedWeight, TypeOK, EndpointsVersions
<1>. QED BY <1>1, <1>2

\* annotateEndpoints writes from a copy that the API server still holds, or fails.
LEMMA AnnotateEndpointsInv ==
  ASSUME SyncInv, AnnotateEndpoints
  PROVE  SyncInv'
<1>. USE DEF SyncInv, vars, objects, optimizerVars, endpointsVars, syncVars
<1>. DEFINE v == [rv |-> endpoints.stored.rv + 1, addrs |-> optimizer.ep.addrs, annotated |-> TRUE]
<1>1. v \in EndpointsVersions
  BY DEF TypeOK, EndpointsVersions
<1>2. endpoints' = endpoints \/ endpoints' = Write(endpoints, v)
  BY DEF AnnotateEndpoints
<1>3. Coherent(endpoints') /\ endpoints'.cached = endpoints.cached
  <2>1. v.rv \in Nat /\ v.rv > endpoints.stored.rv /\ Numbered(endpoints) /\ Coherent(endpoints)
    BY TypeOKNumbered DEF Caches, Numbered
  <2>2. Coherent(Write(endpoints, v)) /\ Write(endpoints, v).cached = endpoints.cached
    BY <2>1, WriteCoherent DEF Write
  <2>. QED BY <1>2, <2>1, <2>2
<1>4. optimizer' = [pc |-> "create", ep |-> optimizer.ep]
  BY DEF AnnotateEndpoints
<1>. HIDE DEF v
<1>5. TypeOK'
  BY <1>1, <1>2, <1>4 DEF AnnotateEndpoints, TypeOK, Write, ServiceEntryVersion, WeightOptimizerVersion
<1>6. (Caches /\ WrittenFromCache /\ OptimizerCopy /\ WorkerCopy)'
  BY <1>3, <1>4 DEF AnnotateEndpoints, Caches, WrittenFromCache, OptimizerCopy, WorkerCopy,
     ApplyWeights, AppliedWeights, PublishedWeight
<1>. QED BY <1>5, <1>6

\* A conflict of annotateEndpoints leaves the objects alone.
LEMMA RetryAnnotationInv ==
  ASSUME SyncInv, RetryAnnotation
  PROVE  SyncInv'
<1>. USE DEF SyncInv, vars, objects, optimizerVars, endpointsVars, syncVars
<1>1. OptimizerIdle \in [pc : {"idle", "annotate", "create"}, ep : EndpointsVersions]
  BY DEF EndpointsVersions
<1>2. faults' \in 0..MaxFaults
  BY SyncAssumption DEF RetryAnnotation, Fault, TypeOK
<1>3. (OptimizerCopy)'
  BY DEF RetryAnnotation, OptimizerCopy, TypeOK, EndpointsVersions
<1>. HIDE DEF OptimizerIdle
<1>4. TypeOK'
  BY <1>1, <1>2 DEF RetryAnnotation, TypeOK, ServiceEntryVersion, WeightOptimizerVersion
<1>5. (Caches /\ WrittenFromCache /\ WorkerCopy)'
  BY DEF RetryAnnotation, Caches, WrittenFromCache, WorkerCopy, ApplyWeights, AppliedWeights, PublishedWeight
<1>. QED BY <1>3, <1>4, <1>5

\* createServiceEntry builds the ServiceEntry from Endpoints no newer than the cache.
LEMMA CreateServiceEntryInv ==
  ASSUME SyncInv, CreateServiceEntry
  PROVE  SyncInv'
<1>. USE DEF SyncInv, vars, objects, optimizerVars, endpointsVars, syncVars
<1>1. OptimizerIdle \in [pc : {"idle", "annotate", "create"}, ep : EndpointsVersions]
  BY DEF EndpointsVersions
<1>2. faults' \in 0..MaxFaults
  BY SyncAssumption DEF CreateServiceEntry, Fault, TypeOK
<1>3. OptimizerCopy'
  BY DEF CreateServiceEntry, OptimizerCopy, TypeOK, EndpointsVersions
<1>. DEFINE v == NewServiceEntry(optimizer.ep)
<1>4. ServiceEntryVersion(v) /\ v.rv = 1 /\ v.epv = optimizer.ep.rv /\ v.wov = 0 /\ DOMAIN v.weights = optimizer.ep.addrs
  BY DEF NewServiceEntry, ServiceEntryVersion, TypeOK, EndpointsVersions
<1>5. CASE serviceEntry' = serviceEntry
  <2>1. TypeOK'
    BY <1>1, <1>2, <1>5 DEF CreateServiceEntry, TypeOK, ServiceEntryVersion, WeightOptimizerVersion
  <2>2. (Caches /\ WrittenFromCache /\ WorkerCopy)'
    BY <1>5 DEF CreateServiceEntry, Caches, WrittenFromCache, WorkerCopy, ApplyWeights, AppliedWeights, PublishedWeight
  <2>. QED BY <1>3, <2>1, <2>2
<1>6. CASE ~Exists(serviceEntry.stored) /\ serviceEntry' = Write(serviceEntry, v)
  <2>. HIDE DEF v, OptimizerIdle
  <2>1. /\ serviceEntry'.stored = v /\ serviceEntry'.cached = serviceEntry.cached
        /\ serviceEntry'.watch = serviceEntry.watch \cup {v}
    BY <1>6 DEF Write
  <2>2. TypeOK'
    BY <1>1, <1>2, <1>4, <2>1 DEF CreateServiceEntry, TypeOK, ServiceEntryVersion, WeightOptimizerVersion
  <2>3. Caches'
    BY <1>4, <1>6, TypeOKNumbered, WriteCoherent DEF CreateServiceEntry, Caches, Exists
  <2>4. optimizer.pc = "create"
    BY DEF CreateServiceEntry
  <2>5. WrittenFromCache'
    BY <1>4, <2>1, <2>4 DEF CreateServiceEntry, WrittenFromCache, OptimizerCopy, Exists, TypeOK, WeightOptimizerVersion
  <2>6. worker.pc \notin {"merge", "putMerged", "putWeights"}
    BY <1>6 DEF WorkerCopy, Exists, TypeOK, ServiceEntryVersion
  <2>7. WorkerCopy'
    BY <1>4, <2>1, <2>6 DEF CreateServiceEntry, WorkerCopy, TypeOK, WeightOptimizerVersion
  <2>. QED BY <1>3, <2>2, <2>3, <2>5, <2>7
<1>. QED BY <1>5, <1>6 DEF CreateServiceEntry

-----------------------------------------------------------------------------
\* The reconcile of the ServiceEntry: the steps that read.
LEMMA ReadInv ==
  ASSUME SyncInv, StartSync \/ MergeAddresses \/ FetchWeightOptimizer \/ ApplyPublishedWeights
  PROVE  SyncInv'
<1>. USE DEF SyncInv, vars, objects, optimizerVars, endpointsVars, syncVars
<1>1. /\ UNCHANGED <<endpoints, weightOptimizer, serviceEntry, optimizerVars, endpointsVars, channel, faults>>
      /\ syncQueue' \in BOOLEAN
  BY DEF StartSync, MergeAddresses, FetchWeightOptimizer, ApplyPublishedWeights, Finish, FinishWithError, TypeOK
<1>2. ServiceEntryVersion(NoServiceEntry) /\ WeightOptimizerVersion(NoWeightOptimizer)
  BY DEF ServiceEntryVersion, WeightOptimizerVersion
<1>3. Caches' /\ WrittenFromCache' /\ OptimizerCopy'
  BY <1>1 DEF Caches, WrittenFromCache, OptimizerCopy
<1>4. ASSUME ServiceEntryVersion(worker'.se), WeightOptimizerVersion(worker'.wo),
             worker'.pc \in {"idle", "merge", "putMerged", "fetchWeights", "apply", "putWeights"}
      PROVE  TypeOK'
  BY <1>1, <1>4 DEF TypeOK, ServiceEntryVersion, WeightOptimizerVersion
<1>5. /\ ServiceEntryVersion(serviceEntry.stored) /\ ServiceEntryVersion(serviceEntry.cached)
      /\ ServiceEntryVersion(worker.se)
      /\ WeightOptimizerVersion(weightOptimizer.cached) /\ WeightOptimizerVersion(worker.wo)
      /\ endpoints.cached \in EndpointsVersions
  BY DEF TypeOK
<1>6. CASE StartSync
  <2>1. CASE worker' = At("merge", serviceEntry.cached, NoWeightOptimizer) /\ Exists(serviceEntry.cached)
    <3>1. WorkerCopy'
      BY <1>1, <2>1 DEF WorkerCopy, Caches, Coherent, Exists
    <3>. QED BY <1>2, <1>3, <1>4, <1>5, <2>1, <3>1
  <2>2. CASE worker' = At("fetchWeights", NoServiceEntry, NoWeightOptimizer)
    BY <1>2, <1>3, <1>4, <2>2 DEF WorkerCopy
  <2>. QED BY <1>6, <2>1, <2>2 DEF StartSync
<1>7. CASE MergeAddresses
  <2>. DEFINE merged == MergeEndpoints(worker.se, endpoints.cached)
  <2>1. CASE worker' = At("putMerged", merged, NoWeightOptimizer)
    <3>1. /\ merged.rv = worker.se.rv /\ merged.epv = endpoints.cached.rv /\ merged.wov = worker.se.wov
          /\ DOMAIN merged.weights = endpoints.cached.addrs
          /\ \A a \in DOMAIN merged.weights \cap DOMAIN worker.se.weights :
               merged.weights[a] = worker.se.weights[a]
      BY DEF MergeEndpoints, MergedWeights
    <3>2. ServiceEntryVersion(merged)
      BY <1>5, <3>1 DEF ServiceEntryVersion, EndpointsVersions
    <3>3. /\ Exists(worker.se) /\ worker.se.rv <= serviceEntry.stored.rv
          /\ worker.se.rv = serviceEntry.stored.rv => worker.se = serviceEntry.stored
          /\ serviceEntry.stored.epv <= endpoints.cached.rv
      BY <1>7 DEF MergeAddresses, WorkerCopy, WrittenFromCache
    <3>. HIDE DEF merged
    <3>4. WorkerCopy'
      BY <1>1, <1>5, <2>1, <3>1, <3>2, <3>3 DEF WorkerCopy, Exists, ServiceEntryVersion, EndpointsVersions
    <3>. QED BY <1>2, <1>3, <1>4, <2>1, <3>2, <3>4
  <2>2. CASE worker' = At("fetchWeights", NoServiceEntry, NoWeightOptimizer)
    BY <1>2, <1>3, <1>4, <2>2 DEF WorkerCopy
  <2>. QED BY <1>7, <2>1, <2>2 DEF MergeAddresses
<1>8. CASE FetchWeightOptimizer
  <2>1. CASE worker' = Idle
    BY <1>2, <1>3, <1>4, <2>1 DEF WorkerCopy
  <2>2. CASE worker' = At("apply", NoServiceEntry, weightOptimizer.cached)
    <3>1. WorkerCopy'
      BY <1>1, <1>5, <2>2 DEF WorkerCopy, WrittenFromCache, ServiceEntryVersion, WeightOptimizerVersion
    <3>. QED BY <1>2, <1>3, <1>4, <1>5, <2>2, <3>1
  <2>. QED BY <1>8, <2>1, <2>2 DEF FetchWeightOptimizer, Finish
<1>9. CASE ApplyPublishedWeights
  <2>1. CASE worker' = Idle
    BY <1>2, <1>3, <1>4, <2>1 DEF WorkerCopy
  <2>. DEFINE se == ApplyWeights(serviceEntry.cached, worker.wo)
  <2>2. CASE worker' = At("putWeights", se, worker.wo) /\ Exists(serviceEntry.cached)
    <3>1. se.rv = serviceEntry.cached.rv /\ ServiceEntryVersion(se)
      BY <1>5 DEF ApplyWeights, AppliedWeights, ServiceEntryVersion, WeightOptimizerVersion
    <3>2. /\ serviceEntry.cached.rv <= serviceEntry.stored.rv
          /\ serviceEntry.cached.rv = serviceEntry.stored.rv => serviceEntry.cached = serviceEntry.stored
      BY DEF Caches, Coherent
    <3>3. se.rv = serviceEntry.stored.rv => se = ApplyWeights(serviceEntry.stored, worker.wo)
      BY <3>1, <3>2
    <3>4. worker.pc = "apply"
      BY <1>9 DEF ApplyPublishedWeights
    <3>. HIDE DEF se
    <3>5. WorkerCopy'
      <4>1. worker'.pc = "putWeights" /\ worker'.se = se /\ worker'.wo = worker.wo
        BY <2>2
      <4>2. (worker.se = ApplyWeights(serviceEntry.stored, worker.wo))' <=> se = ApplyWeights(serviceEntry.stored, worker.wo)
        BY <1>1, <4>1 DEF ApplyWeights, AppliedWeights, PublishedWeight
      <4>. QED BY <1>1, <2>2, <3>1, <3>2, <3>3, <3>4, <4>1, <4>2 DEF WorkerCopy, Exists
    <3>. QED BY <1>3, <1>4, <1>5, <2>2, <3>1, <3>5
  <2>. QED BY <1>9, <2>1, <2>2 DEF ApplyPublishedWeights, FinishWithError
<1>. QED BY <1>6, <1>7, <1>8, <1>9

\* What an accepted Update leaves in the API server: the ServiceEntry as it was
\* or the copy under the next resourceVersion.
LEMMA PutStored ==
  ASSUME SyncInv, Exists(worker.se), ServiceEntryVersion(worker.se), serviceEntry' = Put(worker.se)
  PROVE  /\ Coherent(serviceEntry')
         /\ serviceEntry'.cached = serviceEntry.cached
         /\ \A v \in serviceEntry'.watch : ServiceEntryVersion(v)
         /\ ServiceEntryVersion(serviceEntry'.stored)
         /\ \/ serviceEntry' = serviceEntry
            \/ /\ serviceEntry'.stored.rv = serviceEntry.stored.rv + 1
               /\ serviceEntry'.stored.weights = worker.se.weights
               /\ serviceEntry'.stored.epv = worker.se.epv
               /\ serviceEntry'.stored.wov = worker.se.wov
<1>. USE DEF SyncInv
<1>. DEFINE v == [rv |-> serviceEntry.stored.rv + 1, weights |-> worker.se.weights,
                  epv |-> worker.se.epv, wov |-> worker.se.wov]
<1>1. ServiceEntryVersion(serviceEntry.stored) /\ \A u \in serviceEntry.watch : ServiceEntryVersion(u)
  BY DEF TypeOK
<1>2. CASE serviceEntry' = serviceEntry
  BY <1>1, <1>2 DEF Caches
<1>3. CASE serviceEntry' = Write(serviceEntry, v)
  <2>1. ServiceEntryVersion(v) /\ v.rv \in Nat /\ v.rv > serviceEntry.stored.rv
    BY <1>1 DEF ServiceEntryVersion
  <2>2. Coherent(serviceEntry')
    BY <1>3, <2>1, TypeOKNumbered, WriteCoherent DEF Caches
  <2>. QED BY <1>1, <1>3, <2>1, <2>2 DEF Write
<1>. QED BY <1>2, <1>3 DEF Put

\* The Update of HandleEndpointUpdate stores the merge of the stored ServiceEntry
\* and of Endpoints no newer than the cache.
LEMMA UpdateAddressesInv ==
  ASSUME SyncInv, UpdateAddresses
  PROVE  SyncInv'
<1>. USE DEF SyncInv, vars, objects, optimizerVars, endpointsVars, syncVars
<1>1. /\ UNCHANGED <<endpoints, weightOptimizer, optimizerVars, endpointsVars, channel, syncQueue>>
      /\ worker.pc = "putMerged"
      /\ worker' = At("fetchWeights", NoServiceEntry, NoWeightOptimizer)
  BY DEF UpdateAddresses
<1>2. faults' \in 0..MaxFaults
  BY SyncAssumption DEF UpdateAddresses, Fault, TypeOK
<1>3. ServiceEntryVersion(NoServiceEntry) /\ WeightOptimizerVersion(NoWeightOptimizer) /\ ServiceEntryVersion(worker.se)
  BY DEF ServiceEntryVersion, WeightOptimizerVersion, TypeOK
<1>4. OptimizerCopy' /\ WorkerCopy'
  BY <1>1 DEF OptimizerCopy, WorkerCopy
<1>5. CASE serviceEntry' = serviceEntry
  <2>1. TypeOK'
    BY <1>1, <1>2, <1>3, <1>5 DEF TypeOK, ServiceEntryVersion, WeightOptimizerVersion
  <2>2. Caches' /\ WrittenFromCache'
    BY <1>1, <1>5 DEF Caches, WrittenFromCache
  <2>. QED BY <1>4, <2>1, <2>2
<1>6. CASE UpdateAccepted(worker.se) /\ serviceEntry' = Put(worker.se) /\ serviceEntry' # serviceEntry
  <2>1. Exists(worker.se) /\ worker.se.rv = serviceEntry.stored.rv
    BY <1>1, <1>6 DEF WorkerCopy, UpdateAccepted, Accepts
  <2>2. /\ Coherent(serviceEntry') /\ serviceEntry'.cached = serviceEntry.cached
        /\ \A v \in serviceEntry'.watch : ServiceEntryVersion(v)
        /\ ServiceEntryVersion(serviceEntry'.stored)
        /\ serviceEntry'.stored.rv = serviceEntry.stored.rv + 1
        /\ serviceEntry'.stored.weights = worker.se.weights
        /\ serviceEntry'.stored.epv = worker.se.epv
        /\ serviceEntry'.stored.wov = worker.se.wov
    BY <1>3, <1>6, <2>1, PutStored
  <2>3. TypeOK'
    BY <1>1, <1>2, <1>3, <2>2 DEF TypeOK, ServiceEntryVersion, WeightOptimizerVersion
  <2>4. Caches'
    BY <1>1, <2>2 DEF Caches
  <2>5. /\ worker.se.epv <= endpoints.cached.rv
        /\ worker.se.epv = endpoints.cached.rv => DOMAIN worker.se.weights = endpoints.cached.addrs
        /\ worker.se.wov = serviceEntry.stored.wov
        /\ serviceEntry.stored.wov <= weightOptimizer.cached.rv
        /\ serviceEntry.stored.rv \in Nat
    BY <1>1, <2>1 DEF WorkerCopy, WrittenFromCache, TypeOK, ServiceEntryVersion
  <2>6. WrittenFromCache'
    BY <1>1, <2>2, <2>5 DEF WrittenFromCache, Exists
  <2>. QED BY <1>4, <2>3, <2>4, <2>6
<1>. QED BY <1>5, <1>6 DEF UpdateAddresses

\* The Update of ValidateAndUpdateWeights stores the stored ServiceEntry with the
\* weights of a WeightOptimizer no newer than the cache.
LEMMA UpdateWeightsInv ==
  ASSUME SyncInv, UpdateWeights
  PROVE  SyncInv'
<1>. USE DEF SyncInv, vars, objects, optimizerVars, endpointsVars, syncVars
<1>1. /\ UNCHANGED <<endpoints, weightOptimizer, optimizerVars, endpointsVars, channel>>
      /\ worker.pc = "putWeights"
      /\ worker' = Idle
      /\ syncQueue' \in BOOLEAN
  BY DEF UpdateWeights, WeightsConflict, Finish, FinishWithError, TypeOK
<1>2. faults' \in 0..MaxFaults
  BY SyncAssumption DEF UpdateWeights, WeightsConflict, Fault, TypeOK
<1>3. ServiceEntryVersion(NoServiceEntry) /\ WeightOptimizerVersion(NoWeightOptimizer) /\ ServiceEntryVersion(worker.se)
  BY DEF ServiceEntryVersion, WeightOptimizerVersion, TypeOK
<1>4. OptimizerCopy' /\ WorkerCopy'
  BY <1>1 DEF OptimizerCopy, WorkerCopy
<1>5. CASE serviceEntry' = serviceEntry
  <2>1. TypeOK'
    BY <1>1, <1>2, <1>3, <1>5 DEF TypeOK, ServiceEntryVersion, WeightOptimizerVersion
  <2>2. Caches' /\ WrittenFromCache'
    BY <1>1, <1>5 DEF Caches, WrittenFromCache
  <2>. QED BY <1>4, <2>1, <2>2
<1>6. CASE UpdateAccepted(worker.se) /\ serviceEntry' = Put(worker.se) /\ serviceEntry' # serviceEntry
  <2>1. Exists(worker.se) /\ worker.se.rv = serviceEntry.stored.rv
    BY <1>1, <1>6 DEF WorkerCopy, UpdateAccepted, Accepts
  <2>2. /\ Coherent(serviceEntry') /\ serviceEntry'.cached = serviceEntry.cached
        /\ \A v \in serviceEntry'.watch : ServiceEntryVersion(v)
        /\ ServiceEntryVersion(serviceEntry'.stored)
        /\ serviceEntry'.stored.rv = serviceEntry.stored.rv + 1
        /\ serviceEntry'.stored.weights = worker.se.weights
        /\ serviceEntry'.stored.epv = worker.se.epv
        /\ serviceEntry'.stored.wov = worker.se.wov
    BY <1>3, <1>6, <2>1, PutStored
  <2>3. TypeOK'
    BY <1>1, <1>2, <1>3, <2>2 DEF TypeOK, ServiceEntryVersion, WeightOptimizerVersion
  <2>4. Caches'
    BY <1>1, <2>2 DEF Caches
  <2>5. /\ worker.se = ApplyWeights(serviceEntry.stored, worker.wo)
        /\ worker.wo.rv <= weightOptimizer.cached.rv
        /\ serviceEntry.stored.rv \in Nat
        /\ Exists(serviceEntry.stored)
    BY <1>1, <2>1 DEF WorkerCopy, TypeOK, ServiceEntryVersion, Exists
  <2>6. /\ serviceEntry'.stored.epv = serviceEntry.stored.epv
        /\ serviceEntry'.stored.wov = worker.wo.rv
        /\ DOMAIN serviceEntry'.stored.weights = DOMAIN serviceEntry.stored.weights
    BY <2>2, <2>5 DEF ApplyWeights, AppliedWeights
  <2>7. WrittenFromCache'
    BY <1>1, <2>2, <2>5, <2>6 DEF WrittenFromCache, Exists
  <2>. QED BY <1>4, <2>3, <2>4, <2>7
<1>. QED BY <1>5, <1>6 DEF UpdateWeights, WeightsConflict

-----------------------------------------------------------------------------
\* Every step keeps the invariant.
LEMMA NextInv ==
  ASSUME SyncInv, [Next]_vars
  PROVE  SyncInv'
<1>1. CASE UNCHANGED vars
  BY <1>1 DEF vars, objects, optimizerVars, endpointsVars, syncVars, SyncInv, TypeOK, Caches, WrittenFromCache,
     OptimizerCopy, WorkerCopy, ApplyWeights, AppliedWeights, PublishedWeight, ServiceEntryVersion, WeightOptimizerVersion
<1>2. CASE Next
  BY <1>2, ChangeEndpointsInv, PublishWeightsInv, EventInv, RestartInv, DeliverEndpointsInv, DeliverWeightOptimizerInv,
     DeliverServiceEntryInv, FetchEndpointsInv, AnnotateEndpointsInv, RetryAnnotationInv, CreateServiceEntryInv,
     ReadInv, UpdateAddressesInv, UpdateWeightsInv
     DEF Next, Environment, Informers, OptimizerReconcile, EndpointsReconcile, Sync
<1>. QED BY <1>1, <1>2

\* Every copy a reconciler holds is as old as the caches allow, in every
\* behaviour of the three reconcilers.
THEOREM SyncInvariant == Spec => []SyncInv
<1>1. Init => SyncInv
  BY InitSyncInv
<1>2. SyncInv /\ [Next]_vars => SyncInv'
  BY NextInv
<1>. QED BY <1>1, <1>2, PTL DEF Spec

\* The state keeps its type, the trigger channel its capacity.
THEOREM TypeCorrectness == Spec => []TypeOK
BY SyncInvariant, PTL DEF SyncInv

\* A ServiceEntry written from the current Endpoints lists exactly its addresses.
THEOREM MirrorFaithfulness == Spec => []MirrorIsFaithful
<1>1. SyncInv => MirrorIsFaithful
  <2>. SUFFICES ASSUME SyncInv, Exists(serviceEntry.stored), serviceEntry.stored.epv = endpoints.stored.rv
                PROVE  DOMAIN serviceEntry.stored.weights = endpoints.stored.addrs
    BY DEF MirrorIsFaithful
  <2>1. /\ endpoints.cached.rv \in Nat /\ endpoints.stored.rv \in Nat
        /\ serviceEntry.stored.epv <= endpoints.cached.rv /\ endpoints.cached.rv <= endpoints.stored.rv
        /\ endpoints.cached.rv = endpoints.stored.rv => endpoints.cached = endpoints.stored
    BY DEF SyncInv, TypeOK, EndpointsVersions, WrittenFromCache, Caches, Coherent
  <2>2. endpoints.cached = endpoints.stored
    BY <2>1
  <2>. QED BY <2>2 DEF SyncInv, WrittenFromCache
<1>. QED BY <1>1, SyncInvariant, PTL

-----------------------------------------------------------------------------
\* The three ways a step changes the stored ServiceEntry: it is created, its
\* addresses are merged, or published weights are applied.
LEMMA ServiceEntrySteps ==
  ASSUME SyncInv, [Next]_vars
  PROVE  \/ serviceEntry'.stored = serviceEntry.stored
         \/ /\ serviceEntry.stored = NoServiceEntry
            /\ serviceEntry'.stored = NewServiceEntry(optimizer.ep)
            /\ optimizer.pc = "create" /\ optimizer.ep \in EndpointsVersions
         \/ /\ worker.pc = "putMerged" /\ Exists(serviceEntry.stored)
            /\ serviceEntry'.stored.weights = worker.se.weights /\ serviceEntry'.stored.epv = worker.se.epv
            /\ serviceEntry'.stored.epv >= serviceEntry.stored.epv
            /\ serviceEntry'.stored.wov = serviceEntry.stored.wov
            /\ \A a \in DOMAIN serviceEntry'.stored.weights \cap DOMAIN serviceEntry.stored.weights :
                 serviceEntry'.stored.weights[a] = serviceEntry.stored.weights[a]
         \/ /\ worker.pc = "putWeights" /\ Exists(serviceEntry.stored)
            /\ serviceEntry'.stored.wov = worker.wo.rv
            /\ serviceEntry'.stored.epv = serviceEntry.stored.epv
            /\ serviceEntry'.stored.wov >= serviceEntry.stored.wov
            /\ serviceEntry'.stored.weights = AppliedWeights(serviceEntry.stored.weights, worker.wo.weights)
<1>1. CASE CreateServiceEntry
  <2>1. CASE serviceEntry' = Write(serviceEntry, NewServiceEntry(optimizer.ep)) /\ ~Exists(serviceEntry.stored)
    <3>1. serviceEntry.stored = NoServiceEntry /\ serviceEntry'.stored = NewServiceEntry(optimizer.ep)
      BY <2>1 DEF Write, SyncInv, WrittenFromCache
    <3>2. optimizer.pc = "create" /\ optimizer.ep \in EndpointsVersions
      BY <1>1 DEF CreateServiceEntry, SyncInv, TypeOK
    <3>. QED BY <3>1, <3>2
  <2>. QED BY <1>1, <2>1 DEF CreateServiceEntry
<1>2. CASE UpdateAddresses
  <2>1. CASE serviceEntry' = serviceEntry
    BY <2>1
  <2>2. CASE UpdateAccepted(worker.se) /\ serviceEntry' = Put(worker.se) /\ serviceEntry' # serviceEntry
    <3>1. worker.pc = "putMerged" /\ worker.se.rv = serviceEntry.stored.rv /\ ServiceEntryVersion(worker.se)
      BY <1>2, <2>2 DEF UpdateAddresses, UpdateAccepted, Accepts, SyncInv, TypeOK
    <3>2. Exists(worker.se) /\ worker.se.epv >= serviceEntry.stored.epv /\ worker.se.wov = serviceEntry.stored.wov
      BY <3>1 DEF SyncInv, WorkerCopy
    <3>3. \A a \in DOMAIN worker.se.weights \cap DOMAIN serviceEntry.stored.weights :
            worker.se.weights[a] = serviceEntry.stored.weights[a]
      BY <3>1 DEF SyncInv, WorkerCopy
    <3>4. /\ serviceEntry'.stored.weights = worker.se.weights
          /\ serviceEntry'.stored.epv = worker.se.epv
          /\ serviceEntry'.stored.wov = worker.se.wov
      BY <2>2, <3>1, <3>2, PutStored
    <3>. QED BY <3>1, <3>2, <3>3, <3>4 DEF Exists
  <2>. QED BY <1>2, <2>1, <2>2 DEF UpdateAddresses
<1>3. CASE UpdateWeights
  <2>1. CASE serviceEntry' = serviceEntry
    BY <2>1
  <2>2. CASE UpdateAccepted(worker.se) /\ serviceEntry' = Put(worker.se) /\ serviceEntry' # serviceEntry
    <3>1. worker.pc = "putWeights" /\ worker.se.rv = serviceEntry.stored.rv /\ ServiceEntryVersion(worker.se)
      BY <1>3, <2>2 DEF UpdateWeights, UpdateAccepted, Accepts, SyncInv, TypeOK
    <3>2. Exists(worker.se) /\ worker.se = ApplyWeights(serviceEntry.stored, worker.wo)
                           /\ worker.wo.rv >= serviceEntry.stored.wov
      BY <3>1 DEF SyncInv, WorkerCopy
    <3>3. /\ serviceEntry'.stored.weights = worker.se.weights
          /\ serviceEntry'.stored.epv = worker.se.epv
          /\ serviceEntry'.stored.wov = worker.se.wov
      BY <2>2, <3>1, <3>2, PutStored
    <3>. QED BY <3>1, <3>2, <3>3 DEF ApplyWeights, Exists
  <2>. QED BY <1>3, <2>1, <2>2 DEF UpdateWeights, WeightsConflict
<1>4. CASE UNCHANGED vars \/ (Next /\ ~CreateServiceEntry /\ ~UpdateAddresses /\ ~UpdateWeights)
  BY <1>4 DEF Next, Environment, ChangeEndpoints, PublishWeights, OptimizerEvent, Resync, Restart,
     Informers, DeliverEndpoints, DeliverWeightOptimizer, DeliverServiceEntry, Deliver, Relist, Cached,
     OptimizerReconcile, FetchEndpoints, AnnotateEndpoints, RetryAnnotation, EndpointsReconcile, ListServiceEntries,
     SendTrigger, ForwardTrigger, Sync, StartSync, MergeAddresses, FetchWeightOptimizer, ApplyPublishedWeights,
     vars, objects
<1>. QED BY <1>1, <1>2, <1>3, <1>4

\* The addresses never go back to those of an older Endpoints version.
THEOREM AddressMonotonicity == Spec => AddressesNeverRollBack
<1>1. SyncInv /\ [Next]_vars => [serviceEntry'.stored.epv >= serviceEntry.stored.epv]_serviceEntry
  <2>. SUFFICES ASSUME SyncInv, [Next]_vars PROVE serviceEntry'.stored.epv >= serviceEntry.stored.epv
    OBVIOUS
  <2>1. serviceEntry.stored.epv \in Nat
    BY DEF SyncInv, TypeOK, ServiceEntryVersion
  <2>. QED BY <2>1, ServiceEntrySteps DEF NewServiceEntry, EndpointsVersions
<1>. QED BY <1>1, SyncInvariant, PTL DEF Spec, AddressesNeverRollBack

\* The weights of an older WeightOptimizer version never come back.
THEOREM WeightMonotonicity == Spec => WeightsNeverRollBack
<1>1. SyncInv /\ [Next]_vars => [serviceEntry'.stored.wov >= serviceEntry.stored.wov]_serviceEntry
  <2>. SUFFICES ASSUME SyncInv, [Next]_vars PROVE serviceEntry'.stored.wov >= serviceEntry.stored.wov
    OBVIOUS
  <2>1. serviceEntry.stored.wov \in Nat
    BY DEF SyncInv, TypeOK, ServiceEntryVersion
  <2>. QED BY <2>1, ServiceEntrySteps DEF NewServiceEntry
<1>. QED BY <1>1, SyncInvariant, PTL DEF Spec, WeightsNeverRollBack

\* A weight changes only to one that was published; a merge keeps the weights
\* of the addresses that stay.
THEOREM SurvivorsKeepTheirWeight == Spec => SurvivorsKeepWeight
<1>. DEFINE Kept ==
       Exists(serviceEntry.stored) =>
         LET old == serviceEntry.stored.weights
             new == serviceEntry'.stored.weights
         IN  \A a \in DOMAIN old \cap DOMAIN new :
               new[a] # old[a] => /\ DOMAIN old = DOMAIN new
                                  /\ new[a] = PublishedWeight(worker.wo.weights, a)
<1>1. SyncInv /\ [Next]_vars => [Kept]_serviceEntry
  <2>. SUFFICES ASSUME SyncInv, [Next]_vars PROVE Kept
    OBVIOUS
  <2>. QED BY ServiceEntrySteps DEF AppliedWeights, Exists
<1>. QED BY <1>1, SyncInvariant, PTL DEF Spec, SurvivorsKeepWeight

-----------------------------------------------------------------------------
(***************************************************************************)
(* Weights at rest.  Published weights that are not in place are on their  *)
(* way: under way to the cache, requested, or in the worker's hands.       *)
(***************************************************************************)
WeightsDue ==
  Exists(weightOptimizer.stored) /\ ~(Exists(serviceEntry.stored) /\ WeightsInPlace)

SyncComing == syncQueue \/ weightOptimizer.watch # {} \/ worker.pc # "idle"

\* The newest weights reach the cache, a worker with an older copy will be
\* asked again, and nobody rests while weights are due.
WeightsPending ==
  /\ ~Exists(weightOptimizer.stored) => weightOptimizer.stored = NoWeightOptimizer
  /\ weightOptimizer.cached = weightOptimizer.stored \/ weightOptimizer.stored \in weightOptimizer.watch
  /\ worker.pc \in {"apply", "putWeights"} => syncQueue \/ worker.wo = weightOptimizer.cached
  /\ WeightsDue => SyncComing

\* A step that leaves alone the weights, both copies of them and the worker
\* leaves their state as it is, unless it creates the ServiceEntry.
LEMMA ElsewhereKeepsPending ==
  ASSUME WeightsPending, UNCHANGED <<weightOptimizer, worker>>, syncQueue => syncQueue',
         serviceEntry'.stored = serviceEntry.stored \/ ~Exists(serviceEntry.stored)
  PROVE  WeightsPending'
<1>1. WeightsDue' => WeightsDue
  BY DEF WeightsDue, WeightsInPlace
<1>. QED BY <1>1 DEF WeightsPending, SyncComing

\* An Update of the newest weights puts them in place; any other is asked again.
LEMMA UpdateWeightsKeepsPending ==
  ASSUME SyncInv, WeightsPending, UpdateWeights
  PROVE  WeightsPending'
<1>1. /\ worker.pc = "putWeights" /\ UNCHANGED weightOptimizer /\ worker'.pc = "idle"
      /\ syncQueue => syncQueue'
  BY DEF UpdateWeights, WeightsConflict, Finish, FinishWithError
<1>2. CASE syncQueue' \/ weightOptimizer.watch # {}
  BY <1>1, <1>2 DEF WeightsPending, SyncComing
<1>3. CASE ~syncQueue' /\ weightOptimizer.watch = {}
  <2>1. UpdateAccepted(worker.se) /\ serviceEntry' = Put(worker.se)
    BY <1>3 DEF UpdateWeights, WeightsConflict, FinishWithError
  <2>2. worker.wo = weightOptimizer.stored
    BY <1>1, <1>3 DEF WeightsPending
  <2>3. /\ Exists(worker.se) /\ worker.se.rv = serviceEntry.stored.rv
        /\ worker.se = ApplyWeights(serviceEntry.stored, worker.wo)
    BY <1>1, <2>1 DEF SyncInv, WorkerCopy, UpdateAccepted, Accepts
  <2>4. serviceEntry'.stored.weights = worker.se.weights /\ Exists(serviceEntry'.stored)
    BY <2>1, <2>3 DEF Put, Write, Exists, SyncInv, TypeOK, ServiceEntryVersion
  <2>5. worker.se.weights = AppliedWeights(serviceEntry.stored.weights, worker.wo.weights)
    BY <2>3 DEF ApplyWeights
  <2>6. WeightsInPlace'
    BY <1>1, <2>2, <2>4, <2>5 DEF WeightsInPlace, AppliedWeights
  <2>. QED BY <1>1, <2>4, <2>6 DEF WeightsPending, WeightsDue
<1>. QED BY <1>2, <1>3

\* Weights that are published are under way; the event that brings them to the
\* cache is a request.
LEMMA PublishingKeepsPending ==
  ASSUME SyncInv, WeightsPending, PublishWeights \/ DeliverWeightOptimizer
  PROVE  WeightsPending'
<1>1. CASE PublishWeights
  <2>1. PICK v : weightOptimizer' = Write(weightOptimizer, v) /\ Exists(v)
    BY <1>1 DEF PublishWeights, Exists, SyncInv, TypeOK, WeightOptimizerVersion
  <2>2. UNCHANGED <<syncQueue, worker>>
    BY <1>1 DEF PublishWeights, syncVars
  <2>. QED BY <2>1, <2>2 DEF WeightsPending, SyncComing, Write
<1>2. CASE DeliverWeightOptimizer
  <2>1. PICK v \in weightOptimizer.watch : weightOptimizer' = Deliver(weightOptimizer, v)
    BY <1>2 DEF DeliverWeightOptimizer
  <2>2. syncQueue'
    BY <1>2 DEF DeliverWeightOptimizer
  <2>3. /\ weightOptimizer.cached.rv < v.rv /\ weightOptimizer.cached.rv \in Nat
        /\ v.rv <= weightOptimizer.stored.rv /\ v.rv \in Nat /\ weightOptimizer.stored.rv \in Nat
        /\ v.rv = weightOptimizer.stored.rv => v = weightOptimizer.stored
    BY DEF SyncInv, TypeOK, Caches, Coherent, WeightOptimizerVersion
  <2>4. v = weightOptimizer.stored \/ weightOptimizer.stored \in weightOptimizer.watch
    BY <2>3 DEF WeightsPending
  <2>. QED BY <2>1, <2>2, <2>3, <2>4 DEF WeightsPending, SyncComing, Deliver
<1>. QED BY <1>1, <1>2

\* A reconcile keeps the request in hand until it has read the newest weights.
LEMMA ReconcileKeepsPending ==
  ASSUME SyncInv, WeightsPending,
         StartSync \/ MergeAddresses \/ UpdateAddresses \/ FetchWeightOptimizer \/ ApplyPublishedWeights
  PROVE  WeightsPending'
<1>1. CASE StartSync
  BY <1>1 DEF StartSync, WeightsPending, WeightsDue, WeightsInPlace, SyncComing, objects
<1>2. CASE MergeAddresses
  BY <1>2 DEF MergeAddresses, WeightsPending, WeightsDue, WeightsInPlace, SyncComing, objects
<1>3. CASE UpdateAddresses
  BY <1>3 DEF UpdateAddresses, WeightsPending, SyncComing
<1>4. CASE FetchWeightOptimizer
  <2>1. CASE ~Exists(weightOptimizer.cached) /\ Finish
    <3>1. Exists(weightOptimizer.stored) => weightOptimizer.watch # {}
      BY <2>1 DEF WeightsPending
    <3>. QED BY <1>4, <2>1, <3>1 DEF FetchWeightOptimizer, Finish, objects, WeightsPending, WeightsDue, SyncComing
  <2>2. CASE worker' = At("apply", NoServiceEntry, weightOptimizer.cached)
    BY <1>4, <2>2 DEF FetchWeightOptimizer, objects, WeightsPending, SyncComing
  <2>. QED BY <1>4, <2>1, <2>2 DEF FetchWeightOptimizer
<1>5. CASE ApplyPublishedWeights
  BY <1>5 DEF ApplyPublishedWeights, FinishWithError, objects, WeightsPending, WeightsDue, WeightsInPlace, SyncComing
<1>. QED BY <1>1, <1>2, <1>3, <1>4, <1>5

\* At rest the published weights are in place: no conflict, stale cache,
\* failing call or restart leaves them behind (ServiceEntryReconciler.Reconcile).
THEOREM WeightsRestInPlace == Spec => []WeightsInPlaceAtRest
<1>1. Init => WeightsPending
  BY DEF Init, Cached, WeightsPending, WeightsDue, Exists
<1>2. ASSUME SyncInv, WeightsPending, [Next]_vars
      PROVE  WeightsPending'
  <2>. USE <1>2 DEF objects, optimizerVars, endpointsVars, syncVars
  <2>1. CASE UNCHANGED vars
    BY <2>1, ElsewhereKeepsPending DEF vars
  <2>2. CASE ChangeEndpoints \/ OptimizerEvent \/ Resync
    <3>1. UNCHANGED <<weightOptimizer, serviceEntry, worker>>
      BY <2>2 DEF ChangeEndpoints, OptimizerEvent, Resync
    <3>2. syncQueue => syncQueue'
      BY <2>2, Zenon DEF ChangeEndpoints, OptimizerEvent, Resync
    <3>. QED BY <3>1, <3>2, ElsewhereKeepsPending
  <2>3. CASE Restart
    BY <2>3 DEF Restart, Relist, Cached, WeightsPending, WeightsDue, SyncComing
  <2>4. CASE DeliverEndpoints \/ DeliverServiceEntry
    BY <2>4, ElsewhereKeepsPending DEF DeliverEndpoints, DeliverServiceEntry, Deliver
  <2>5. CASE FetchEndpoints \/ AnnotateEndpoints \/ RetryAnnotation
    BY <2>5, ElsewhereKeepsPending DEF FetchEndpoints, AnnotateEndpoints, RetryAnnotation
  <2>6. CASE CreateServiceEntry
    BY <2>6, ElsewhereKeepsPending DEF CreateServiceEntry
  <2>7. CASE ListServiceEntries \/ SendTrigger \/ ForwardTrigger
    BY <2>7, ElsewhereKeepsPending DEF ListServiceEntries, SendTrigger, ForwardTrigger
  <2>. QED
    BY <2>1, <2>2, <2>3, <2>4, <2>5, <2>6, <2>7, PublishingKeepsPending, ReconcileKeepsPending, UpdateWeightsKeepsPending
    DEF Next, Environment, Informers, OptimizerReconcile, EndpointsReconcile, Sync
<1>3. WeightsPending => WeightsInPlaceAtRest
  <2>. SUFFICES ASSUME WeightsPending, AtRest
                PROVE  WeightsInPlace
    BY DEF WeightsInPlaceAtRest
  <2>1. ~WeightsDue
    BY DEF WeightsPending, SyncComing, AtRest
  <2>2. CASE Exists(weightOptimizer.stored)
    BY <2>1, <2>2 DEF WeightsDue
  <2>3. CASE ~Exists(weightOptimizer.stored)
    BY <2>3 DEF WeightsPending, WeightsInPlace, PublishedWeight
  <2>. QED BY <2>2, <2>3
<1>4. SyncInv /\ WeightsPending /\ [Next]_vars => WeightsPending'
  BY <1>2
<1>. QED BY <1>1, <1>3, <1>4, SyncInvariant, PTL DEF Spec

-----------------------------------------------------------------------------
(***************************************************************************)
(* The weights of a ServiceEntry.  A set of weights without gaps that has  *)
(* the weight of a new ServiceEntry, the middle of the range and the       *)
(* published weights has every weight a ServiceEntry ever holds.           *)
(***************************************************************************)
WeightsClosed(W) ==
  /\ Convex(W)
  /\ DefaultWeightForNewEndpoints \in W
  /\ Middle \in W
  /\ \A weights \in Published : AllIn(weights, W \cup {0})

\* The merge gives a new address the average of weights that exist (HandleEndpointUpdate).
LEMMA MergeKeepsWeightsIn ==
  ASSUME NEW W, WeightsClosed(W), NEW se, NEW ep, IsFiniteSet(DOMAIN se.weights), AllIn(se.weights, W)
  PROVE  AllIn(MergeEndpoints(se, ep).weights, W)
<1>. DEFINE newcomer == CreateDefaultWeightForNewEndpoints(se.weights)
<1>1. newcomer \in W
  BY NewcomerWithinExisting DEF WeightsClosed, AllIn
<1>. HIDE DEF newcomer
<1>2. MergedWeights(se.weights, ep.addrs)
        = [a \in ep.addrs |-> IF a \in DOMAIN se.weights THEN se.weights[a] ELSE newcomer]
  BY DEF MergedWeights, newcomer
<1>. QED BY <1>1, <1>2 DEF AllIn, MergeEndpoints

\* A published weight is taken unless it is 0 (ValidateAndUpdateWeights).
LEMMA ApplyKeepsWeightsIn ==
  ASSUME NEW W, NEW se, NEW wo, AllIn(se.weights, W), AllIn(wo.weights, W \cup {0})
  PROVE  AllIn(ApplyWeights(se, wo).weights, W)
BY DEF AllIn, ApplyWeights, AppliedWeights, PublishedWeight

\* The copies of a state are those of the one before or have their weights in the set.
LEMMA CopiesKeepWeightsIn ==
  ASSUME NEW W, WeightsIn(W),
         \A v \in serviceEntry'.watch \cup {serviceEntry'.stored, serviceEntry'.cached, worker'.se} :
           \/ v \in serviceEntry.watch \cup {serviceEntry.stored, serviceEntry.cached, worker.se}
           \/ AllIn(v.weights, W),
         \A v \in weightOptimizer'.watch \cup {weightOptimizer'.stored, weightOptimizer'.cached, worker'.wo} :
           \/ v \in weightOptimizer.watch \cup {weightOptimizer.stored, weightOptimizer.cached, worker.wo}
           \/ AllIn(v.weights, W \cup {0})
  PROVE  WeightsIn(W)'
<1>1. ASSUME NEW v \in serviceEntry'.watch \cup {serviceEntry'.stored, serviceEntry'.cached, worker'.se}
      PROVE  AllIn(v.weights, W)
  BY <1>1 DEF WeightsIn
<1>2. ASSUME NEW v \in weightOptimizer'.watch \cup {weightOptimizer'.stored, weightOptimizer'.cached, worker'.wo}
      PROVE  AllIn(v.weights, W \cup {0})
  BY <1>2 DEF WeightsIn
<1>. QED BY <1>1, <1>2 DEF WeightsIn

\* An Update stores the weights of the worker's copy, or nothing.
LEMMA PutKeepsWeightsIn ==
  ASSUME NEW W, WeightsIn(W), UNCHANGED weightOptimizer,
         serviceEntry' = serviceEntry \/ serviceEntry' = Put(worker.se),
         worker'.se = NoServiceEntry, worker'.wo = NoWeightOptimizer
  PROVE  WeightsIn(W)'
<1>. DEFINE v == [rv |-> serviceEntry.stored.rv + 1, weights |-> worker.se.weights,
                  epv |-> worker.se.epv, wov |-> worker.se.wov]
<1>1. serviceEntry' = serviceEntry \/ serviceEntry' = Write(serviceEntry, v)
  BY DEF Put
<1>2. v.weights = worker.se.weights /\ AllIn(NoServiceEntry.weights, W) /\ AllIn(NoWeightOptimizer.weights, W \cup {0})
  BY DEF AllIn
<1>3. AllIn(worker.se.weights, W)
  BY DEF WeightsIn
<1>. HIDE DEF v, NoServiceEntry, NoWeightOptimizer
<1>4. \A u \in serviceEntry'.watch \cup {serviceEntry'.stored, serviceEntry'.cached} :
        u \in serviceEntry.watch \cup {serviceEntry.stored, serviceEntry.cached} \/ u = v
  BY <1>1 DEF Write
<1>. QED BY <1>2, <1>3, <1>4, CopiesKeepWeightsIn

\* The steps that touch the weights of neither object nor of the worker's copies.
LEMMA ElsewhereKeepsWeightsIn ==
  ASSUME NEW W, WeightsIn(W), UNCHANGED worker,
         UNCHANGED serviceEntry \/ (\E v \in serviceEntry.watch : serviceEntry' = Deliver(serviceEntry, v)),
         UNCHANGED weightOptimizer \/ (\E v \in weightOptimizer.watch : weightOptimizer' = Deliver(weightOptimizer, v))
  PROVE  WeightsIn(W)'
<1>1. /\ serviceEntry'.stored = serviceEntry.stored
      /\ serviceEntry'.watch \cup {serviceEntry'.cached} \subseteq serviceEntry.watch \cup {serviceEntry.cached}
  BY DEF Deliver
<1>2. /\ weightOptimizer'.stored = weightOptimizer.stored
      /\ weightOptimizer'.watch \cup {weightOptimizer'.cached} \subseteq weightOptimizer.watch \cup {weightOptimizer.cached}
  BY DEF Deliver
<1>. QED BY <1>1, <1>2, CopiesKeepWeightsIn

\* createServiceEntry starts every address with the same weight.
LEMMA InitWeightsIn ==
  ASSUME NEW W, WeightsClosed(W), Init
  PROVE  WeightsIn(W)
BY DEF Init, Cached, NewServiceEntry, WeightsIn, AllIn, WeightsClosed

\* Every step keeps the weights in the set.
LEMMA NextKeepsWeightsIn ==
  ASSUME NEW W, WeightsClosed(W), SyncInv, WeightsIn(W), [Next]_vars
  PROVE  WeightsIn(W)'
<1>. USE DEF objects, optimizerVars, endpointsVars, syncVars
<1>0. AllIn(NoServiceEntry.weights, W) /\ AllIn(NoWeightOptimizer.weights, W \cup {0})
  BY DEF AllIn
<1>1. CASE UNCHANGED vars
  BY <1>1, ElsewhereKeepsWeightsIn DEF vars
<1>2. CASE ChangeEndpoints \/ OptimizerEvent \/ Resync \/ DeliverEndpoints \/ DeliverWeightOptimizer \/ DeliverServiceEntry
  BY <1>2, ElsewhereKeepsWeightsIn DEF ChangeEndpoints, OptimizerEvent, Resync, DeliverEndpoints, DeliverWeightOptimizer,
     DeliverServiceEntry
<1>3. CASE FetchEndpoints \/ AnnotateEndpoints \/ RetryAnnotation \/ ListServiceEntries \/ SendTrigger \/ ForwardTrigger
  BY <1>3, ElsewhereKeepsWeightsIn DEF FetchEndpoints, AnnotateEndpoints, RetryAnnotation, ListServiceEntries,
     SendTrigger, ForwardTrigger
<1>4. CASE PublishWeights
  <2>1. PICK weights \in Published :
          weightOptimizer' = Write(weightOptimizer, [rv |-> weightOptimizer.stored.rv + 1, weights |-> weights])
    BY <1>4 DEF PublishWeights
  <2>2. AllIn(weights, W \cup {0})
    BY DEF WeightsClosed
  <2>3. UNCHANGED <<serviceEntry, worker>>
    BY <1>4 DEF PublishWeights
  <2>4. \A v \in weightOptimizer'.watch \cup {weightOptimizer'.stored, weightOptimizer'.cached} :
          \/ v \in weightOptimizer.watch \cup {weightOptimizer.stored, weightOptimizer.cached}
          \/ v.weights = weights
    BY <2>1 DEF Write
  <2>. QED BY <2>2, <2>3, <2>4, CopiesKeepWeightsIn
<1>5. CASE Restart
  BY <1>0, <1>5 DEF Restart, Relist, Cached, WeightsIn
<1>6. CASE CreateServiceEntry
  <2>1. AllIn(NewServiceEntry(optimizer.ep).weights, W)
    BY DEF NewServiceEntry, AllIn, WeightsClosed
  <2>2. serviceEntry' = serviceEntry \/ serviceEntry' = Write(serviceEntry, NewServiceEntry(optimizer.ep))
    BY <1>6 DEF CreateServiceEntry
  <2>3. UNCHANGED <<weightOptimizer, worker>>
    BY <1>6 DEF CreateServiceEntry
  <2>. QED BY <2>1, <2>2, <2>3 DEF WeightsIn, Write
<1>7. CASE StartSync
  <2>1. UNCHANGED <<serviceEntry, weightOptimizer>>
    BY <1>7 DEF StartSync
  <2>2. worker'.se \in {serviceEntry.cached, NoServiceEntry} /\ worker'.wo = NoWeightOptimizer
    BY <1>7 DEF StartSync
  <2>. HIDE DEF NoServiceEntry, NoWeightOptimizer
  <2>. QED BY <1>0, <2>1, <2>2 DEF WeightsIn
<1>8. CASE MergeAddresses
  <2>. DEFINE merged == MergeEndpoints(worker.se, endpoints.cached)
  <2>1. UNCHANGED <<serviceEntry, weightOptimizer>>
    BY <1>8 DEF MergeAddresses
  <2>2. worker'.se \in {merged, NoServiceEntry} /\ worker'.wo = NoWeightOptimizer
    BY <1>8 DEF MergeAddresses
  <2>3. IsFiniteSet(DOMAIN worker.se.weights)
    BY SyncAssumption, FS_Subset DEF SyncInv, TypeOK, ServiceEntryVersion
  <2>4. AllIn(merged.weights, W)
    BY <2>3, MergeKeepsWeightsIn DEF WeightsIn
  <2>. HIDE DEF merged, NoServiceEntry, NoWeightOptimizer
  <2>. QED BY <1>0, <2>1, <2>2, <2>4 DEF WeightsIn
<1>9. CASE FetchWeightOptimizer
  <2>1. UNCHANGED <<serviceEntry, weightOptimizer>>
    BY <1>9 DEF FetchWeightOptimizer
  <2>2. worker'.se = NoServiceEntry /\ worker'.wo \in {weightOptimizer.cached, NoWeightOptimizer}
    BY <1>9 DEF FetchWeightOptimizer, Finish
  <2>. HIDE DEF NoServiceEntry, NoWeightOptimizer
  <2>. QED BY <1>0, <2>1, <2>2 DEF WeightsIn
<1>10. CASE ApplyPublishedWeights
  <2>. DEFINE se == ApplyWeights(serviceEntry.cached, worker.wo)
  <2>1. UNCHANGED <<serviceEntry, weightOptimizer>>
    BY <1>10 DEF ApplyPublishedWeights
  <2>2. worker'.se \in {se, NoServiceEntry} /\ worker'.wo \in {worker.wo, NoWeightOptimizer}
    BY <1>10 DEF ApplyPublishedWeights, FinishWithError
  <2>3. AllIn(se.weights, W)
    BY ApplyKeepsWeightsIn DEF WeightsIn
  <2>. HIDE DEF se, NoServiceEntry, NoWeightOptimizer
  <2>. QED BY <1>0, <2>1, <2>2, <2>3 DEF WeightsIn
<1>11. CASE UpdateAddresses
  BY <1>11, PutKeepsWeightsIn DEF UpdateAddresses
<1>12. CASE UpdateWeights
  BY <1>12, PutKeepsWeightsIn DEF UpdateWeights, WeightsConflict, Finish, FinishWithError
<1>. QED
  BY <1>1, <1>2, <1>3, <1>4, <1>5, <1>6, <1>7, <1>8, <1>9, <1>10, <1>11, <1>12
  DEF Next, Environment, Informers, OptimizerReconcile, EndpointsReconcile, Sync

\* No merge, no published map, no stale copy and no restart brings a weight into
\* the ServiceEntry that is outside a set the weights it is built from are in.
THEOREM WeightsStayIn == ASSUME NEW W, WeightsClosed(W) PROVE Spec => []WeightsIn(W)
<1>1. Init => WeightsIn(W)
  BY InitWeightsIn
<1>2. SyncInv /\ WeightsIn(W) /\ [Next]_vars => WeightsIn(W)'
  BY NextKeepsWeightsIn
<1>. QED BY <1>1, <1>2, SyncInvariant, PTL DEF Spec

PositiveWeights == Nat \ {0}

\* No endpoint is ever cut off by a weight of 0, whatever the WeightOptimizers
\* publish (createServiceEntry, HandleEndpointUpdate, ValidateAndUpdateWeights).
THEOREM NoZeroWeights == Spec => []NoZeroWeight
<1>1. Convex(PositiveWeights) /\ DefaultWeightForNewEndpoints \in PositiveWeights
  BY DEF Convex, DefaultWeightForNewEndpoints, PositiveWeights
<1>2. Middle \in PositiveWeights
  BY MiddleInRange, WeightRangeAssumption DEF PositiveWeights
<1>3. \A weights \in Published : AllIn(weights, PositiveWeights \cup {0})
  BY SyncAssumption DEF AllIn, PositiveWeights
<1>4. WeightsClosed(PositiveWeights)
  BY <1>1, <1>2, <1>3 DEF WeightsClosed
<1>5. WeightsIn(PositiveWeights) => NoZeroWeight
  BY DEF WeightsIn, AllIn, NoZeroWeight, PositiveWeights
<1>6. Init => WeightsIn(PositiveWeights)
  BY <1>4, InitWeightsIn
<1>7. SyncInv /\ WeightsIn(PositiveWeights) /\ [Next]_vars => WeightsIn(PositiveWeights)'
  BY <1>4, NextKeepsWeightsIn
<1>. QED BY <1>5, <1>6, <1>7, SyncInvariant, PTL DEF Spec

\* What WeightOptimizerProofs!PublishedWeightsBounded leaves a WeightOptimizer to
\* publish: adjusted weights, and the weight of resetWeights.
PublishableWeights == {w \in Nat : InAdjustedRange(w)} \cup {300}

\* The weights between those that are publishable or that of a new ServiceEntry.
EntryWeights ==
  {w \in Nat : \E x, y \in PublishableWeights \cup {DefaultWeightForNewEndpoints} : w \in x..y}

\* With the WeightOptimizers there are, whose weights are bounded as long as those of
\* the ServiceEntry are natural numbers, no weight of the ServiceEntry runs away: it
\* lies between publishable ones or that of a new ServiceEntry, for every setting
\* of the flags, although newcomers start with averages of what there is.
THEOREM EntryWeightsBounded ==
  ASSUME \A weights \in Published : AllIn(weights, PublishableWeights \cup {0})
  PROVE  Spec => []AllIn(serviceEntry.stored.weights, EntryWeights)
<1>. DEFINE P == PublishableWeights \cup {DefaultWeightForNewEndpoints}
<1>1. P \subseteq Nat
  BY DEF PublishableWeights, DefaultWeightForNewEndpoints
<1>2. Middle \in P
  BY MiddleInRange, ClampedIsInAdjustedRange DEF PublishableWeights
<1>. HIDE DEF P
<1>3. EntryWeights = {w \in Nat : \E x, y \in P : w \in x..y}
  BY DEF EntryWeights, P
<1>4. P \subseteq EntryWeights
  BY <1>1, <1>3
<1>5. Convex(EntryWeights)
  <2>. SUFFICES ASSUME NEW v \in EntryWeights, NEW w \in EntryWeights, NEW u \in v..w
                PROVE  u \in EntryWeights
    BY <1>3 DEF Convex
  <2>1. PICK x \in P : x \in Nat /\ x <= v
    BY <1>1, <1>3
  <2>2. PICK y \in P : y \in Nat /\ w <= y
    BY <1>1, <1>3
  <2>3. v \in Nat /\ w \in Nat
    BY <1>3
  <2>4. u \in Nat /\ u \in x..y
    BY <2>1, <2>2, <2>3
  <2>. QED BY <1>3, <2>4
<1>6. WeightsClosed(EntryWeights)
  <2>1. DefaultWeightForNewEndpoints \in EntryWeights /\ PublishableWeights \subseteq EntryWeights
    BY <1>4 DEF P
  <2>2. \A weights \in Published : AllIn(weights, EntryWeights \cup {0})
    BY <2>1 DEF AllIn
  <2>. QED BY <1>2, <1>4, <1>5, <2>1, <2>2 DEF WeightsClosed
<1>7. WeightsIn(EntryWeights) => AllIn(serviceEntry.stored.weights, EntryWeights)
  BY DEF WeightsIn
<1>8. Init => WeightsIn(EntryWeights)
  BY <1>6, InitWeightsIn
<1>9. SyncInv /\ WeightsIn(EntryWeights) /\ [Next]_vars => WeightsIn(EntryWeights)'
  BY <1>6, NextKeepsWeightsIn
<1>. QED BY <1>7, <1>8, <1>9, SyncInvariant, PTL DEF Spec

-----------------------------------------------------------------------------
(***************************************************************************)
(* The history variables, and the contract the reconcilers implement.      *)
(***************************************************************************)
HIDE DEF At, Idle, OptimizerIdle, NoServiceEntry, NoWeightOptimizer, NoEndpoints, NoWeights

HInv == SyncInv /\ HistoryInv

\* A sequence that is extended keeps what it had.
LEMMA Appended ==
  ASSUME NEW S, NEW s \in Seq(S), NEW e \in S
  PROVE  /\ Append(s, e) \in Seq(S)
         /\ Len(Append(s, e)) = Len(s) + 1
         /\ \A i \in DOMAIN s : i \in DOMAIN Append(s, e) /\ Append(s, e)[i] = s[i]
         /\ Len(s) + 1 \in DOMAIN Append(s, e) /\ Append(s, e)[Len(s) + 1] = e
OBVIOUS

-----------------------------------------------------------------------------
\* What one step does to the Endpoints.
LEMMA EndpointsSteps ==
  ASSUME SyncInv, [Next]_vars
  PROVE  \/ \E v \in EndpointsVersions :
              endpoints' = Write(endpoints, v) /\ v.rv = endpoints.stored.rv + 1
         \/ /\ endpoints'.stored = endpoints.stored
            /\ endpoints'.watch \cup {endpoints'.cached} \subseteq endpoints.watch \cup {endpoints.stored, endpoints.cached}
<1>. USE DEF SyncInv, objects
<1>1. CASE ChangeEndpoints
  <2>1. PICK addrs \in SUBSET Addr :
          endpoints' = Write(endpoints, [rv |-> endpoints.stored.rv + 1, addrs |-> addrs,
                                         annotated |-> endpoints.stored.annotated])
    BY <1>1 DEF ChangeEndpoints
  <2>. QED BY <2>1 DEF TypeOK, EndpointsVersions
<1>2. CASE AnnotateEndpoints
  <2>. DEFINE v == [rv |-> endpoints.stored.rv + 1, addrs |-> optimizer.ep.addrs, annotated |-> TRUE]
  <2>1. endpoints' = endpoints \/ endpoints' = Write(endpoints, v)
    BY <1>2 DEF AnnotateEndpoints
  <2>2. v \in EndpointsVersions /\ v.rv = endpoints.stored.rv + 1
    BY DEF TypeOK, EndpointsVersions
  <2>. HIDE DEF v
  <2>. QED BY <2>1, <2>2
<1>3. CASE DeliverEndpoints
  BY <1>3 DEF DeliverEndpoints, Deliver
<1>4. CASE Restart
  BY <1>4 DEF Restart, Relist, Cached
<1>5. CASE endpoints' = endpoints
  BY <1>5
<1>. QED
  BY <1>1, <1>2, <1>3, <1>4, <1>5 DEF Next, Environment, PublishWeights, OptimizerEvent, Resync, Informers,
     DeliverWeightOptimizer, DeliverServiceEntry, OptimizerReconcile, FetchEndpoints, RetryAnnotation,
     CreateServiceEntry, EndpointsReconcile, ListServiceEntries, SendTrigger, ForwardTrigger, Sync, StartSync,
     MergeAddresses, UpdateAddresses, FetchWeightOptimizer, ApplyPublishedWeights, UpdateWeights, vars

\* What one step does to the WeightOptimizer.
LEMMA WeightOptimizerSteps ==
  ASSUME SyncInv, [Next]_vars
  PROVE  \/ \E weights \in Published :
              weightOptimizer' = Write(weightOptimizer, [rv |-> weightOptimizer.stored.rv + 1, weights |-> weights])
         \/ /\ weightOptimizer'.stored = weightOptimizer.stored
            /\ weightOptimizer'.watch \cup {weightOptimizer'.cached}
                 \subseteq weightOptimizer.watch \cup {weightOptimizer.stored, weightOptimizer.cached}
<1>. USE DEF SyncInv, objects
<1>1. CASE PublishWeights
  BY <1>1 DEF PublishWeights
<1>2. CASE DeliverWeightOptimizer
  BY <1>2 DEF DeliverWeightOptimizer, Deliver
<1>3. CASE Restart
  BY <1>3 DEF Restart, Relist, Cached
<1>4. CASE weightOptimizer' = weightOptimizer
  BY <1>4
<1>. QED
  BY <1>1, <1>2, <1>3, <1>4 DEF Next, Environment, ChangeEndpoints, OptimizerEvent, Resync, Informers,
     DeliverEndpoints, DeliverServiceEntry, OptimizerReconcile, FetchEndpoints, AnnotateEndpoints, RetryAnnotation,
     CreateServiceEntry, EndpointsReconcile, ListServiceEntries, SendTrigger, ForwardTrigger, Sync, StartSync,
     MergeAddresses, UpdateAddresses, FetchWeightOptimizer, ApplyPublishedWeights, UpdateWeights, vars

\* Where the copies of the two workers come from.
LEMMA CopySteps ==
  ASSUME SyncInv, [Next]_vars
  PROVE  /\ optimizer'.pc # "idle" =>
              \/ optimizer'.ep = endpoints.cached
              \/ optimizer'.ep = optimizer.ep /\ optimizer.pc # "idle"
         /\ worker'.pc = "putMerged" =>
              \/ worker'.se.epv = endpoints.cached.rv /\ DOMAIN worker'.se.weights = endpoints.cached.addrs
              \/ worker'.se = worker.se /\ worker.pc = "putMerged"
         /\ worker'.pc \in {"apply", "putWeights"} =>
              \/ worker'.wo = weightOptimizer.cached /\ Exists(weightOptimizer.cached)
              \/ worker'.wo = worker.wo /\ worker.pc \in {"apply", "putWeights"}
<1>. USE DEF SyncInv, objects, optimizerVars, syncVars, At, Idle, OptimizerIdle
<1>1. optimizer'.pc # "idle" =>
        \/ optimizer'.ep = endpoints.cached
        \/ optimizer'.ep = optimizer.ep /\ optimizer.pc # "idle"
  <2>1. CASE FetchEndpoints \/ AnnotateEndpoints \/ RetryAnnotation \/ CreateServiceEntry \/ Restart
    BY <2>1 DEF FetchEndpoints, AnnotateEndpoints, RetryAnnotation, CreateServiceEntry, Restart
  <2>2. CASE optimizer' = optimizer
    BY <2>2
  <2>. QED
    BY <2>1, <2>2 DEF Next, Environment, ChangeEndpoints, PublishWeights, OptimizerEvent, Resync, Informers,
       DeliverEndpoints, DeliverWeightOptimizer, DeliverServiceEntry, OptimizerReconcile, EndpointsReconcile,
       ListServiceEntries, SendTrigger, ForwardTrigger, Sync, StartSync, MergeAddresses, UpdateAddresses,
       FetchWeightOptimizer, ApplyPublishedWeights, UpdateWeights, vars
<1>2. /\ worker'.pc = "putMerged" =>
           \/ worker'.se.epv = endpoints.cached.rv /\ DOMAIN worker'.se.weights = endpoints.cached.addrs
           \/ worker'.se = worker.se /\ worker.pc = "putMerged"
      /\ worker'.pc \in {"apply", "putWeights"} =>
           \/ worker'.wo = weightOptimizer.cached /\ Exists(weightOptimizer.cached)
           \/ worker'.wo = worker.wo /\ worker.pc \in {"apply", "putWeights"}
  <2>1. CASE MergeAddresses
    <3>1. \/ worker' = At("putMerged", MergeEndpoints(worker.se, endpoints.cached), NoWeightOptimizer)
          \/ worker' = At("fetchWeights", NoServiceEntry, NoWeightOptimizer)
      BY <2>1 DEF MergeAddresses
    <3>. QED BY <3>1 DEF MergeEndpoints, MergedWeights
  <2>2. CASE StartSync \/ UpdateAddresses \/ FetchWeightOptimizer \/ ApplyPublishedWeights \/ UpdateWeights \/ Restart
    BY <2>2 DEF StartSync, UpdateAddresses, FetchWeightOptimizer, ApplyPublishedWeights, UpdateWeights, Restart,
                Finish, FinishWithError, WeightsConflict
  <2>3. CASE worker' = worker
    BY <2>3
  <2>. QED
    BY <2>1, <2>2, <2>3 DEF Next, Environment, ChangeEndpoints, PublishWeights, OptimizerEvent, Resync, Informers,
       DeliverEndpoints, DeliverWeightOptimizer, DeliverServiceEntry, OptimizerReconcile, FetchEndpoints,
       AnnotateEndpoints, RetryAnnotation, CreateServiceEntry, EndpointsReconcile, ListServiceEntries, SendTrigger,
       ForwardTrigger, Sync, vars
<1>. QED BY <1>1, <1>2

-----------------------------------------------------------------------------
\* The histories hold what the manager starts with.
LEMMA HistoryInitInv ==
  ASSUME HistoryInit
  PROVE  HInv
<1>1. SyncInv
  BY InitSyncInv DEF HistoryInit
<1>2. PICK addrs \in SUBSET Addr :
        LET ep == [rv |-> 1, addrs |-> addrs, annotated |-> Installed]
        IN  /\ endpoints = Cached(ep)
            /\ serviceEntry = Cached(IF Installed THEN NewServiceEntry(ep) ELSE NoServiceEntry)
  BY DEF HistoryInit, Init
<1>3. addressesSoFar = <<addrs>> /\ publishedSoFar = <<>>
  BY <1>2 DEF HistoryInit, Cached
<1>4. EndpointsHistory
  BY <1>2, <1>3 DEF HistoryInit, Init, EndpointsHistory, IsEndpointsVersion, Cached, OptimizerIdle, Idle, At
<1>5. WeightsHistory
  BY <1>3 DEF HistoryInit, Init, WeightsHistory, Cached, NoWeightOptimizer, Exists, Idle, At
<1>6. EntryHasOneVersion
  BY <1>2, <1>3 DEF EntryHasOneVersion, Cached, NewServiceEntry, NoServiceEntry, Exists
<1>. QED BY <1>1, <1>4, <1>5, <1>6 DEF HInv, HistoryInv

\* The history of the Endpoints is extended when a version is stored, and what was
\* a version stays one.
LEMMA EndpointsHistoryInv ==
  ASSUME HInv, [HistoryNext]_historyVars
  PROVE  /\ EndpointsHistory'
         /\ \A i \in DOMAIN addressesSoFar : i \in DOMAIN addressesSoFar' /\ addressesSoFar'[i] = addressesSoFar[i]
<1>. USE DEF HInv, HistoryInv
<1>0. [Next]_vars
  BY DEF HistoryNext, historyVars
<1>1. /\ addressesSoFar' = IF endpoints'.stored = endpoints.stored THEN addressesSoFar
                           ELSE Append(addressesSoFar, endpoints'.stored.addrs)
  BY DEF HistoryNext, historyVars, vars, objects
<1>2. /\ addressesSoFar \in Seq(SUBSET Addr) /\ Len(addressesSoFar) = endpoints.stored.rv
      /\ endpoints.stored.rv \in Nat
      /\ \A v \in endpoints.watch \cup {endpoints.stored, endpoints.cached} : IsEndpointsVersion(v)
  BY DEF EndpointsHistory, SyncInv, TypeOK, EndpointsVersions
<1>3. /\ addressesSoFar' \in Seq(SUBSET Addr) /\ Len(addressesSoFar') = endpoints'.stored.rv
      /\ \A i \in DOMAIN addressesSoFar : i \in DOMAIN addressesSoFar' /\ addressesSoFar'[i] = addressesSoFar[i]
      /\ \A v \in endpoints'.watch \cup {endpoints'.stored, endpoints'.cached} : IsEndpointsVersion(v)'
  <2>1. CASE \E v \in EndpointsVersions : endpoints' = Write(endpoints, v) /\ v.rv = endpoints.stored.rv + 1
    <3>1. PICK v \in EndpointsVersions : endpoints' = Write(endpoints, v) /\ v.rv = endpoints.stored.rv + 1
      BY <2>1
    <3>2. v.addrs \in SUBSET Addr /\ v # endpoints.stored
      BY <1>2, <3>1 DEF EndpointsVersions
    <3>3. addressesSoFar' = Append(addressesSoFar, v.addrs)
      BY <1>1, <3>1, <3>2 DEF Write
    <3>4. /\ addressesSoFar' \in Seq(SUBSET Addr) /\ Len(addressesSoFar') = v.rv
          /\ \A i \in DOMAIN addressesSoFar : i \in DOMAIN addressesSoFar' /\ addressesSoFar'[i] = addressesSoFar[i]
          /\ v.rv \in DOMAIN addressesSoFar' /\ addressesSoFar'[v.rv] = v.addrs
      BY <1>2, <3>1, <3>2, <3>3, Appended
    <3>. QED BY <1>2, <3>1, <3>4 DEF IsEndpointsVersion, Write
  <2>2. CASE /\ endpoints'.stored = endpoints.stored
             /\ endpoints'.watch \cup {endpoints'.cached} \subseteq endpoints.watch \cup {endpoints.stored, endpoints.cached}
    BY <1>1, <1>2, <2>2 DEF IsEndpointsVersion
  <2>. QED BY <1>0, <2>1, <2>2, EndpointsSteps
<1>4. ASSUME NEW v, IsEndpointsVersion(v)
      PROVE  v.rv \in DOMAIN addressesSoFar' /\ v.addrs = addressesSoFar'[v.rv]
  BY <1>3, <1>4 DEF IsEndpointsVersion
<1>5. (optimizer.pc # "idle" => IsEndpointsVersion(optimizer.ep))'
  BY <1>0, <1>2, <1>4, CopySteps DEF IsEndpointsVersion, EndpointsHistory
<1>6. (worker.pc = "putMerged" =>
         worker.se.epv \in DOMAIN addressesSoFar /\ DOMAIN worker.se.weights = addressesSoFar[worker.se.epv])'
  BY <1>0, <1>2, <1>3, <1>4, CopySteps DEF IsEndpointsVersion, EndpointsHistory
<1>. QED BY <1>3, <1>5, <1>6 DEF EndpointsHistory

\* So is the history of the WeightOptimizer.
LEMMA WeightsHistoryInv ==
  ASSUME HInv, [HistoryNext]_historyVars
  PROVE  /\ WeightsHistory'
         /\ \A i \in DOMAIN publishedSoFar : i \in DOMAIN publishedSoFar' /\ publishedSoFar'[i] = publishedSoFar[i]
<1>. USE DEF HInv, HistoryInv
<1>0. [Next]_vars
  BY DEF HistoryNext, historyVars
<1>1. publishedSoFar' = IF weightOptimizer'.stored = weightOptimizer.stored THEN publishedSoFar
                        ELSE Append(publishedSoFar, weightOptimizer'.stored.weights)
  BY DEF HistoryNext, historyVars, vars, objects
<1>2. /\ publishedSoFar \in Seq(Published) /\ Len(publishedSoFar) = weightOptimizer.stored.rv
      /\ weightOptimizer.stored.rv \in Nat
      /\ \A v \in weightOptimizer.watch \cup {weightOptimizer.stored, weightOptimizer.cached} :
           Exists(v) => IsWeightOptimizerVersion(v)
  BY DEF WeightsHistory, SyncInv, TypeOK, WeightOptimizerVersion
<1>3. /\ publishedSoFar' \in Seq(Published) /\ Len(publishedSoFar') = weightOptimizer'.stored.rv
      /\ \A i \in DOMAIN publishedSoFar : i \in DOMAIN publishedSoFar' /\ publishedSoFar'[i] = publishedSoFar[i]
      /\ \A v \in weightOptimizer'.watch \cup {weightOptimizer'.stored, weightOptimizer'.cached} :
           Exists(v) => IsWeightOptimizerVersion(v)'
  <2>1. CASE \E weights \in Published :
               weightOptimizer' = Write(weightOptimizer, [rv |-> weightOptimizer.stored.rv + 1, weights |-> weights])
    <3>1. PICK weights \in Published :
            weightOptimizer' = Write(weightOptimizer, [rv |-> weightOptimizer.stored.rv + 1, weights |-> weights])
      BY <2>1
    <3>. DEFINE v == [rv |-> weightOptimizer.stored.rv + 1, weights |-> weights]
    <3>2. v # weightOptimizer.stored /\ v.weights = weights /\ v.rv = weightOptimizer.stored.rv + 1
      BY <1>2
    <3>3. weightOptimizer' = Write(weightOptimizer, v)
      BY <3>1
    <3>. HIDE DEF v
    <3>4. publishedSoFar' = Append(publishedSoFar, weights)
      BY <1>1, <3>2, <3>3 DEF Write
    <3>5. /\ publishedSoFar' \in Seq(Published) /\ Len(publishedSoFar') = v.rv
          /\ \A i \in DOMAIN publishedSoFar : i \in DOMAIN publishedSoFar' /\ publishedSoFar'[i] = publishedSoFar[i]
          /\ v.rv \in DOMAIN publishedSoFar' /\ publishedSoFar'[v.rv] = v.weights
      BY <1>2, <3>2, <3>4, Appended
    <3>. QED BY <1>2, <3>3, <3>5 DEF IsWeightOptimizerVersion, Write
  <2>2. CASE /\ weightOptimizer'.stored = weightOptimizer.stored
             /\ weightOptimizer'.watch \cup {weightOptimizer'.cached}
                  \subseteq weightOptimizer.watch \cup {weightOptimizer.stored, weightOptimizer.cached}
    BY <1>1, <1>2, <2>2 DEF IsWeightOptimizerVersion
  <2>. QED BY <1>0, <2>1, <2>2, WeightOptimizerSteps
<1>4. ASSUME NEW v, IsWeightOptimizerVersion(v)
      PROVE  v.rv \in DOMAIN publishedSoFar' /\ v.weights = publishedSoFar'[v.rv]
  BY <1>3, <1>4 DEF IsWeightOptimizerVersion
<1>5. (worker.pc \in {"apply", "putWeights"} => IsWeightOptimizerVersion(worker.wo))'
  BY <1>0, <1>2, <1>4, CopySteps DEF IsWeightOptimizerVersion, WeightsHistory
<1>. QED BY <1>3, <1>5 DEF WeightsHistory

\* Every write of the ServiceEntry leaves it with the addresses of one version.
LEMMA EntryInv ==
  ASSUME HInv, [HistoryNext]_historyVars
  PROVE  EntryHasOneVersion'
<1>. USE DEF HInv, HistoryInv
<1>0. [Next]_vars
  BY DEF HistoryNext, historyVars
<1>1. \A i \in DOMAIN addressesSoFar : i \in DOMAIN addressesSoFar' /\ addressesSoFar'[i] = addressesSoFar[i]
  BY EndpointsHistoryInv
<1>2. CASE serviceEntry'.stored = serviceEntry.stored
  BY <1>1, <1>2 DEF EntryHasOneVersion
<1>3. CASE serviceEntry'.stored = NewServiceEntry(optimizer.ep) /\ optimizer.pc = "create"
  BY <1>1, <1>3 DEF EntryHasOneVersion, NewServiceEntry, EndpointsHistory, IsEndpointsVersion
<1>4. CASE /\ worker.pc = "putMerged"
           /\ serviceEntry'.stored.weights = worker.se.weights /\ serviceEntry'.stored.epv = worker.se.epv
  BY <1>1, <1>4 DEF EntryHasOneVersion, EndpointsHistory
<1>5. CASE /\ Exists(serviceEntry.stored)
           /\ serviceEntry'.stored.epv = serviceEntry.stored.epv
           /\ serviceEntry'.stored.weights = AppliedWeights(serviceEntry.stored.weights, worker.wo.weights)
  BY <1>1, <1>5 DEF EntryHasOneVersion, AppliedWeights
<1>. QED BY <1>0, <1>2, <1>3, <1>4, <1>5, ServiceEntrySteps

\* Every step keeps the histories and what they say of the copies.
LEMMA HistoryNextInv ==
  ASSUME HInv, [HistoryNext]_historyVars
  PROVE  HInv'
<1>1. [Next]_vars
  BY DEF HistoryNext, historyVars
<1>. QED BY <1>1, NextInv, EndpointsHistoryInv, WeightsHistoryInv, EntryInv DEF HInv, HistoryInv

\* Every copy a reconciler holds is the version it says it is, and the ServiceEntry
\* lists the addresses of one version of the Endpoints.
THEOREM HistoryInvariant == HistorySpec => [](SyncInv /\ HistoryInv)
<1>1. HistoryInit => HInv
  BY HistoryInitInv
<1>2. HInv /\ [HistoryNext]_historyVars => HInv'
  BY HistoryNextInv
<1>. QED BY <1>1, <1>2, PTL DEF HistorySpec, HInv

-----------------------------------------------------------------------------
\* A step stores a version of one object at most.
LEMMA OneObject ==
  ASSUME [Next]_vars
  PROVE  \/ endpoints'.stored = endpoints.stored /\ weightOptimizer'.stored = weightOptimizer.stored
         \/ serviceEntry'.stored = serviceEntry.stored /\ weightOptimizer'.stored = weightOptimizer.stored
         \/ serviceEntry'.stored = serviceEntry.stored /\ endpoints'.stored = endpoints.stored
<1>. USE DEF objects
<1>1. CASE ChangeEndpoints \/ AnnotateEndpoints
  BY <1>1 DEF ChangeEndpoints, AnnotateEndpoints
<1>2. CASE PublishWeights
  BY <1>2 DEF PublishWeights
<1>3. CASE Restart
  BY <1>3 DEF Restart, Relist, Cached
<1>4. CASE Informers
  BY <1>4 DEF Informers, DeliverEndpoints, DeliverWeightOptimizer, DeliverServiceEntry, Deliver
<1>5. CASE CreateServiceEntry \/ UpdateAddresses \/ UpdateWeights
  BY <1>5 DEF CreateServiceEntry, UpdateAddresses, UpdateWeights
<1>6. CASE UNCHANGED objects
  BY <1>6
<1>. QED
  BY <1>1, <1>2, <1>3, <1>4, <1>5, <1>6 DEF Next, Environment, OptimizerEvent, Resync, OptimizerReconcile,
     FetchEndpoints, RetryAnnotation, EndpointsReconcile, ListServiceEntries, SendTrigger, ForwardTrigger, Sync,
     StartSync, MergeAddresses, FetchWeightOptimizer, ApplyPublishedWeights, vars

\* The initial states are initial states of the contract.
LEMMA ContractInit ==
  ASSUME HistoryInit
  PROVE  Contract!Init
<1>1. PICK addrs \in SUBSET Addr :
        LET ep == [rv |-> 1, addrs |-> addrs, annotated |-> Installed]
        IN  /\ endpoints = Cached(ep)
            /\ serviceEntry = Cached(IF Installed THEN NewServiceEntry(ep) ELSE NoServiceEntry)
  BY DEF HistoryInit, Init
<1>2. addressesSoFar = <<addrs>> /\ publishedSoFar = <<>>
  BY <1>1 DEF HistoryInit, Cached
<1>3. CASE Installed
  BY <1>1, <1>2, <1>3 DEF Cached, NewServiceEntry, Contract!Init, Contract!CreatedFrom
<1>4. CASE ~Installed
  BY <1>1, <1>2, <1>4 DEF Cached, NoServiceEntry, NoWeights, Contract!Init, Contract!NoEntry
<1>. QED BY <1>3, <1>4

\* Every step is a step of the contract or leaves its state alone.
LEMMA ContractStep ==
  ASSUME HInv, [HistoryNext]_historyVars
  PROVE  [Contract!Next]_(Contract!vars)
<1>. USE DEF HInv, HistoryInv
<1>. DEFINE old == serviceEntry.stored
            new == serviceEntry'.stored
<1>0. [Next]_vars
  BY DEF HistoryNext, historyVars
<1>1. /\ addressesSoFar' = IF endpoints'.stored = endpoints.stored THEN addressesSoFar
                           ELSE Append(addressesSoFar, endpoints'.stored.addrs)
      /\ publishedSoFar' = IF weightOptimizer'.stored = weightOptimizer.stored THEN publishedSoFar
                           ELSE Append(publishedSoFar, weightOptimizer'.stored.weights)
  BY DEF HistoryNext, historyVars, vars, objects
<1>2. Exists(old) => old.epv \in DOMAIN addressesSoFar /\ old.epv # 0
  BY DEF EntryHasOneVersion, EndpointsHistory
<1>3. CASE new = old
  <2>1. CASE weightOptimizer'.stored = weightOptimizer.stored /\ endpoints'.stored # endpoints.stored
    <3>1. addressesSoFar' = Append(addressesSoFar, endpoints'.stored.addrs) /\ publishedSoFar' = publishedSoFar
      BY <1>1, <2>1
    <3>2. addressesSoFar \in Seq(SUBSET Addr) /\ endpoints'.stored.addrs \in SUBSET Addr
      BY <1>0, NextInv DEF EndpointsHistory, SyncInv, TypeOK, EndpointsVersions
    <3>. QED BY <1>3, <3>1, <3>2, Appended DEF Contract!Next, Contract!ChangeAddresses, Contract!Extended
  <2>2. CASE weightOptimizer'.stored # weightOptimizer.stored /\ endpoints'.stored = endpoints.stored
    <3>1. publishedSoFar' = Append(publishedSoFar, weightOptimizer'.stored.weights) /\ addressesSoFar' = addressesSoFar
      BY <1>1, <2>2
    <3>2. PICK weights \in Published : weightOptimizer'.stored.weights = weights
      BY <1>0, <2>2, WeightOptimizerSteps DEF Write
    <3>3. publishedSoFar \in Seq(Published)
      BY DEF WeightsHistory
    <3>. QED BY <1>3, <3>1, <3>2, <3>3, Appended DEF Contract!Next, Contract!Publish, Contract!Extended
  <2>3. CASE weightOptimizer'.stored = weightOptimizer.stored /\ endpoints'.stored = endpoints.stored
    BY <1>1, <1>3, <2>3 DEF Contract!vars
  <2>. QED BY <1>0, <2>1, <2>2, <2>3, OneObject
<1>4. CASE new # old
  <2>1. addressesSoFar' = addressesSoFar /\ publishedSoFar' = publishedSoFar
    BY <1>0, <1>1, <1>4, OneObject
  <2>2. CASE old = NoServiceEntry /\ new = NewServiceEntry(optimizer.ep) /\ optimizer.pc = "create"
    <3>1. IsEndpointsVersion(optimizer.ep)
      BY <2>2 DEF EndpointsHistory
    <3>. QED BY <2>1, <2>2, <3>1 DEF NoServiceEntry, NoWeights, NewServiceEntry, IsEndpointsVersion,
                Contract!Next, Contract!Create, Contract!NoEntry, Contract!CreatedFrom
  <2>3. CASE /\ worker.pc = "putMerged" /\ Exists(old)
             /\ new.weights = worker.se.weights /\ new.epv = worker.se.epv
             /\ new.epv >= old.epv /\ new.wov = old.wov
             /\ \A a \in DOMAIN new.weights \cap DOMAIN old.weights : new.weights[a] = old.weights[a]
    <3>1. new.epv \in DOMAIN addressesSoFar /\ DOMAIN new.weights = addressesSoFar[new.epv]
      BY <2>3 DEF EndpointsHistory
    <3>2. Contract!Merge(new.epv)
      BY <2>1, <2>3, <3>1 DEF Contract!Merge
    <3>. QED BY <1>2, <2>3, <3>1, <3>2 DEF Contract!Next, Contract!NoEntry
  <2>4. CASE /\ worker.pc = "putWeights" /\ Exists(old)
             /\ new.wov = worker.wo.rv /\ new.epv = old.epv /\ new.wov >= old.wov
             /\ new.weights = AppliedWeights(old.weights, worker.wo.weights)
    <3>1. new.wov \in DOMAIN publishedSoFar /\ worker.wo.weights = publishedSoFar[new.wov]
      BY <2>4 DEF WeightsHistory, IsWeightOptimizerVersion
    <3>2. Contract!Apply(new.wov)
      BY <2>1, <2>4, <3>1 DEF Contract!Apply, AppliedWeights, PublishedWeight
    <3>. QED BY <1>2, <2>4, <3>1, <3>2 DEF Contract!Next, Contract!NoEntry
  <2>. QED BY <1>0, <1>4, <2>2, <2>3, <2>4, ServiceEntrySteps
<1>. QED BY <1>3, <1>4

\* The three reconcilers keep the promise of the ServiceEntry: its addresses are
\* those of one version of the Endpoints, its weights published ones, and neither
\* goes back.
THEOREM ContractIsKept == HistorySpec => KeepsContract
<1>1. HistoryInit => Contract!Init
  BY ContractInit
<1>2. HInv /\ [HistoryNext]_historyVars => [Contract!Next]_(Contract!vars)
  BY ContractStep
<1>3. HistorySpec => []HInv
  BY HistoryInvariant DEF HInv
<1>. QED BY <1>1, <1>2, <1>3, PTL DEF HistorySpec, KeepsContract, Contract!Spec
=============================================================================
