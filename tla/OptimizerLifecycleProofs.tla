--------------------- MODULE OptimizerLifecycleProofs ---------------------
(***************************************************************************)
(* Theorems of OptimizerLifecycle for every list of ports and every bound. *)
(***************************************************************************)
EXTENDS OptimizerLifecycle, CachedObjectProofs

\* The objects of a state of the right type have numbered versions.
LEMMA TypeOKNumbered ==
  ASSUME TypeOK
  PROVE  Numbered(optimizer)
BY DEF TypeOK, Numbered, Versions, OptimizerVersions

\* An accepted write of the optimizer stores v under a later resourceVersion, or
\* changes nothing when v is stored already.
LEMMA PutOptimizerStores ==
  ASSUME TypeOK, Coherent(optimizer), NEW v \in OptimizerVersions
  PROVE  /\ Versions(PutOptimizer(v)) \subseteq OptimizerVersions
         /\ Coherent(PutOptimizer(v))
         /\ PutOptimizer(v).cached = optimizer.cached
         /\ PutOptimizer(v).watch \subseteq optimizer.watch \cup {PutOptimizer(v).stored}
         /\ PutOptimizer(v).stored = [v EXCEPT !.rv = PutOptimizer(v).stored.rv]
         /\ PutOptimizer(v).stored \in OptimizerVersions
         /\ \/ PutOptimizer(v) = optimizer
            \/ PutOptimizer(v).stored.rv > optimizer.stored.rv
<1>. DEFINE w == [v EXCEPT !.rv = optimizer.stored.rv + 1]
<1>1. Versions(optimizer) \subseteq OptimizerVersions /\ optimizer.stored \in OptimizerVersions
  BY DEF TypeOK, Versions
<1>2. CASE v = optimizer.stored
  BY <1>1, <1>2 DEF PutOptimizer, OptimizerVersions
<1>3. CASE v # optimizer.stored
  <2>1. w \in OptimizerVersions /\ w.rv = optimizer.stored.rv + 1 /\ optimizer.stored.rv \in Nat
    BY <1>1 DEF OptimizerVersions
  <2>2. PutOptimizer(v) = Write(optimizer, w)
    BY <1>3 DEF PutOptimizer
  <2>3. w = [v EXCEPT !.rv = w.rv]
    BY <2>1
  <2>. HIDE DEF w
  <2>4. Coherent(Write(optimizer, w))
    BY <2>1, TypeOKNumbered, WriteCoherent
  <2>. QED BY <1>1, <2>1, <2>2, <2>3, <2>4 DEF Write, Versions
<1>. QED BY <1>2, <1>3

\* A later version leaves the worker's copy an earlier one.
LEMMA LaterKeepsCopy ==
  ASSUME TypeOK, WorkerCopy, worker' = worker, optimizer'.stored \in OptimizerVersions,
         optimizer' = optimizer \/ optimizer'.stored.rv > optimizer.stored.rv
  PROVE  WorkerCopy'
<1>1. worker.copy.rv \in Nat /\ optimizer.stored.rv \in Nat /\ optimizer'.stored.rv \in Nat
  BY DEF TypeOK, Versions, OptimizerVersions, WorkerStates
<1>. QED BY <1>1 DEF WorkerCopy

\* The versions that stand for an object that is not there.
LEMMA Absent ==
  /\ NoOptimizer \in OptimizerVersions /\ NoOptimizer.uid = 0 /\ NoOptimizer.rv = 0
  /\ ~NoOptimizer.finalizer /\ ~NoOptimizer.deleting
  /\ NoEndpoints \in EndpointsVersions
  /\ NoEntry \in EntryVersions
BY DEF NoOptimizer, NoEndpoints, NoEntry, OptimizerVersions, EndpointsVersions, EntryVersions, Reports

\* Where the worker may be.
LEMMA AtTyped ==
  ASSUME NEW pc \in {"addFinalizer", "fetch", "clean"}, NEW copy \in OptimizerVersions
  PROVE  At(pc, copy) \in WorkerStates
BY Absent DEF At, WorkerStates, Reports

LEMMA IdleTyped == Idle \in WorkerStates /\ Idle.pc = "idle"
BY Absent DEF Idle, At, WorkerStates, Reports

\* The invariant holds when the manager starts.
LEMMA InitLifecycleInv ==
  ASSUME Init
  PROVE  LifecycleInv
<1>1. TypeOK
  <2>2. Versions(optimizer) \subseteq OptimizerVersions
    BY Absent DEF Init, Versions, Cached
  <2>3. Versions(endpoints) \subseteq EndpointsVersions
    BY DEF Init, Versions, Cached, EndpointsVersions
  <2>4. DOMAIN entries = Numbers /\ \A n \in Numbers : Versions(entries[n]) \subseteq EntryVersions
    BY Absent DEF Init, Versions, Cached
  <2>5. worker \in WorkerStates
    BY Absent, IdleTyped DEF Init
  <2>6. uids \in 0..MaxOptimizers /\ faults \in 0..MaxFaults
    BY LifecycleAssumption DEF Init
  <2>7. service \in BOOLEAN /\ queue \in BOOLEAN
    BY DEF Init
  <2>. QED BY <2>2, <2>3, <2>4, <2>5, <2>6, <2>7 DEF TypeOK
<1>2. Coherent(optimizer) /\ Held /\ WorkerCopy /\ WorkerHolds /\ WorkerCleans
  BY Absent, IdleTyped DEF Init, Coherent, Cached, Held, WorkerCopy, WorkerHolds, WorkerCleans, Present
<1>. QED BY <1>1, <1>2 DEF LifecycleInv

\* Steps that leave the optimizer and the worker alone.
LEMMA ElsewhereInv ==
  ASSUME LifecycleInv,
         \/ ChangeEndpoints \/ DeleteService \/ DeleteEndpoints \/ Collect
         \/ DeliverEndpoints \/ (\E n \in Numbers : DeliverEntry(n)) \/ Resync
  PROVE  LifecycleInv'
<1>. USE DEF LifecycleInv, cluster, reconcileVars, bounds
<1>1. UNCHANGED <<optimizer, worker, bounds>> /\ queue' \in BOOLEAN /\ service' \in BOOLEAN
  BY DEF ChangeEndpoints, DeleteService, DeleteEndpoints, Collect, CollectEntry, DeliverEndpoints,
         DeliverEntry, Resync, TypeOK
<1>2. Versions(endpoints') \subseteq EndpointsVersions
  <2>1. CASE ChangeEndpoints \/ DeleteEndpoints
    BY <2>1, Absent DEF ChangeEndpoints, DeleteEndpoints, TypeOK, Versions, Write, EndpointsVersions
  <2>2. CASE DeliverEndpoints
    BY <2>2 DEF DeliverEndpoints, TypeOK, Versions, Deliver
  <2>. QED BY <2>1, <2>2 DEF DeleteService, Collect, CollectEntry, DeliverEntry, Resync, TypeOK, Versions
<1>3. DOMAIN entries' = Numbers /\ \A n \in Numbers : Versions(entries'[n]) \subseteq EntryVersions
  <2>1. ASSUME NEW n \in Numbers, NEW e, Versions(e) \subseteq EntryVersions, entries' = [entries EXCEPT ![n] = e]
        PROVE  DOMAIN entries' = Numbers /\ \A m \in Numbers : Versions(entries'[m]) \subseteq EntryVersions
    BY <2>1 DEF TypeOK
  <2>2. ASSUME NEW n \in Numbers, CollectEntry(n)
        PROVE  Versions(Write(entries[n], [NoEntry EXCEPT !.rv = entries[n].stored.rv + 1])) \subseteq EntryVersions
    BY Absent DEF TypeOK, Versions, Write, EntryVersions
  <2>3. ASSUME NEW n \in Numbers, NEW v \in entries[n].watch
        PROVE  Versions(Deliver(entries[n], v)) \subseteq EntryVersions
    BY DEF TypeOK, Versions, Deliver
  <2>4. CASE Collect
    BY <2>1, <2>2, <2>4 DEF Collect, CollectEntry
  <2>5. CASE \E n \in Numbers : DeliverEntry(n)
    BY <2>1, <2>3, <2>5 DEF DeliverEntry
  <2>. QED BY <2>4, <2>5 DEF ChangeEndpoints, DeleteService, DeleteEndpoints, DeliverEndpoints, Resync, TypeOK
<1>4. TypeOK'
  BY <1>1, <1>2, <1>3 DEF TypeOK, Versions
<1>5. (Coherent(optimizer) /\ Held /\ WorkerCopy /\ WorkerHolds /\ WorkerCleans)'
  BY <1>1 DEF Coherent, Held, Holds, WorkerCopy, WorkerHolds, WorkerCleans
<1>. QED BY <1>4, <1>5

-----------------------------------------------------------------------------
\* A new optimizer has no finalizer, and nothing of the one before it that could
\* pass for held is on its way.
LEMMA CreateOptimizerInv ==
  ASSUME LifecycleInv, CreateOptimizer
  PROVE  LifecycleInv'
<1>. USE DEF LifecycleInv, cluster, reconcileVars, bounds
<1>. DEFINE v == [NoOptimizer EXCEPT !.uid = uids + 1]
<1>1. v \in OptimizerVersions /\ uids' \in 0..MaxOptimizers
  <2>1. uids \in Nat /\ uids' = uids + 1 /\ uids < MaxOptimizers
    BY LifecycleAssumption DEF CreateOptimizer, TypeOK
  <2>. QED BY <2>1, Absent, LifecycleAssumption DEF OptimizerVersions
<1>2. optimizer' = PutOptimizer(v) /\ ~Present(optimizer.stored)
  BY DEF CreateOptimizer
<1>3. ~v.finalizer
  BY Absent DEF OptimizerVersions
<1>. HIDE DEF v
<1>4. /\ Versions(optimizer') \subseteq OptimizerVersions /\ Coherent(optimizer')
      /\ optimizer'.cached = optimizer.cached
      /\ optimizer'.watch \subseteq optimizer.watch \cup {optimizer'.stored}
      /\ ~optimizer'.stored.finalizer
      /\ optimizer' = optimizer \/ optimizer'.stored.rv > optimizer.stored.rv
  <2>1. optimizer'.stored = [v EXCEPT !.rv = optimizer'.stored.rv]
    BY <1>1, <1>2, PutOptimizerStores
  <2>2. ~optimizer'.stored.finalizer
    BY <1>1, <1>3, <2>1 DEF OptimizerVersions
  <2>. QED BY <1>1, <1>2, <2>2, PutOptimizerStores
<1>5. TypeOK'
  BY <1>1, <1>4 DEF CreateOptimizer, TypeOK, Versions
<1>6. Held'
  BY <1>2, <1>4 DEF Held, Holds, Present
<1>7. (WorkerCopy /\ WorkerHolds /\ WorkerCleans)'
  <2>1. worker' = worker
    BY DEF CreateOptimizer
  <2>2. WorkerCopy'
    BY <1>4, <2>1, LaterKeepsCopy DEF Versions
  <2>. QED BY <1>2, <1>4, <2>1, <2>2 DEF WorkerHolds, WorkerCleans, WorkerCopy, Holds, Present
<1>. QED BY <1>4, <1>5, <1>6, <1>7

\* A deletion keeps the optimizer for its finalizer; one that has none held nothing.
LEMMA DeleteOptimizerInv ==
  ASSUME LifecycleInv, DeleteOptimizer
  PROVE  LifecycleInv'
<1>. USE DEF LifecycleInv, cluster, reconcileVars, bounds
<1>. DEFINE v == IF optimizer.stored.finalizer THEN [optimizer.stored EXCEPT !.deleting = TRUE] ELSE NoOptimizer
<1>1. optimizer.stored \in OptimizerVersions /\ v \in OptimizerVersions
  BY Absent DEF TypeOK, Versions, OptimizerVersions
<1>2. optimizer' = PutOptimizer(v)
  BY DEF DeleteOptimizer
<1>3. \/ optimizer.stored.finalizer /\ v.uid = optimizer.stored.uid /\ v.finalizer /\ v.deleting
      \/ ~optimizer.stored.finalizer /\ v.uid = 0
  BY <1>1, Absent DEF OptimizerVersions
<1>. HIDE DEF v
<1>4. /\ Versions(optimizer') \subseteq OptimizerVersions /\ Coherent(optimizer')
      /\ optimizer'.cached = optimizer.cached
      /\ optimizer'.watch \subseteq optimizer.watch \cup {optimizer'.stored}
      /\ optimizer' = optimizer \/ optimizer'.stored.rv > optimizer.stored.rv
  BY <1>1, <1>2, PutOptimizerStores
<1>5. \/ /\ optimizer.stored.finalizer /\ optimizer'.stored.uid = optimizer.stored.uid
         /\ optimizer'.stored.finalizer /\ optimizer'.stored.deleting
      \/ ~optimizer.stored.finalizer /\ optimizer'.stored.uid = 0
  <2>1. optimizer'.stored = [v EXCEPT !.rv = optimizer'.stored.rv]
    BY <1>1, <1>2, PutOptimizerStores
  <2>. QED BY <1>1, <1>3, <2>1 DEF OptimizerVersions
<1>6. TypeOK'
  BY <1>4 DEF DeleteOptimizer, TypeOK, Versions
<1>7. Held'
  BY <1>4, <1>5 DEF Held, Holds, Present
<1>8. (WorkerCopy /\ WorkerHolds /\ WorkerCleans)'
  <2>1. worker' = worker
    BY DEF DeleteOptimizer
  <2>2. WorkerCopy'
    BY <1>4, <2>1, LaterKeepsCopy DEF Versions
  <2>. QED BY <1>4, <1>5, <2>1, <2>2 DEF WorkerHolds, WorkerCleans, WorkerCopy, Holds, Present
<1>. QED BY <1>4, <1>6, <1>7, <1>8

\* A delivery or a List moves the cache forward.
LEMMA DeliverOptimizerInv ==
  ASSUME LifecycleInv, DeliverOptimizer
  PROVE  LifecycleInv'
<1>. USE DEF LifecycleInv, cluster, reconcileVars, bounds
<1>1. PICK v \in optimizer.watch : optimizer' = Deliver(optimizer, v)
  BY DEF DeliverOptimizer
<1>2. Coherent(optimizer') /\ v.rv > optimizer.cached.rv
  BY <1>1, TypeOKNumbered, DeliverCoherent
<1>3. optimizer'.stored = optimizer.stored /\ optimizer'.cached = v /\ optimizer'.watch \subseteq optimizer.watch
  BY <1>1 DEF Deliver
<1>4. TypeOK'
  BY <1>3 DEF DeliverOptimizer, TypeOK, Versions
<1>5. (Held /\ WorkerCopy /\ WorkerHolds /\ WorkerCleans)'
  <2>1. worker' = worker /\ v.rv \in Nat /\ optimizer.cached.rv \in Nat
    BY <1>1 DEF DeliverOptimizer, TypeOK, Versions, OptimizerVersions
  <2>2. worker \in WorkerStates /\ worker.copy.rv \in Nat
    BY DEF TypeOK, WorkerStates, OptimizerVersions
  <2>. QED BY <1>1, <1>2, <1>3, <2>1, <2>2 DEF Held, Holds, WorkerCopy, WorkerHolds, WorkerCleans
<1>. QED BY <1>2, <1>4, <1>5

LEMMA RestartInv ==
  ASSUME LifecycleInv, Restart
  PROVE  LifecycleInv'
<1>. USE DEF LifecycleInv, cluster, reconcileVars, bounds
<1>1. Coherent(optimizer')
  BY TypeOKNumbered, RelistCoherent DEF Restart
<1>2. optimizer'.stored = optimizer.stored /\ optimizer'.cached = optimizer.stored /\ optimizer'.watch = {}
  BY DEF Restart, Relist, Cached
<1>3. /\ Versions(endpoints') \subseteq EndpointsVersions
      /\ DOMAIN entries' = Numbers /\ \A n \in Numbers : Versions(entries'[n]) \subseteq EntryVersions
  BY DEF Restart, Relist, Cached, Versions, TypeOK
<1>4. worker' = Idle /\ faults' \in 0..MaxFaults /\ queue' \in BOOLEAN
  BY LifecycleAssumption DEF Restart, Fault, TypeOK, Present
<1>5. TypeOK'
  BY <1>2, <1>3, <1>4, IdleTyped DEF Restart, TypeOK, Versions
<1>6. (Held /\ WorkerCopy /\ WorkerHolds /\ WorkerCleans)'
  BY <1>2, <1>4, IdleTyped DEF Held, Holds, WorkerCopy, WorkerHolds, WorkerCleans
<1>. QED BY <1>1, <1>5, <1>6

-----------------------------------------------------------------------------
\* Steps of the worker that read, or write something other than the optimizer.
LEMMA WorkerTypes ==
  ASSUME LifecycleInv,
         \/ StartReconcile \/ FetchEndpoints \/ AnnotateEndpoints \/ (\E n \in Numbers : CreateServiceEntry(n))
         \/ FetchAnnotation \/ RemoveAnnotation \/ CleanPods
  PROVE  TypeOK'
<1>. USE DEF LifecycleInv, cluster, reconcileVars, bounds
<1>1. Versions(endpoints') \subseteq EndpointsVersions
  <2>1. ASSUME NEW a \in BOOLEAN
        PROVE  Versions(PutEndpoints(a)) \subseteq EndpointsVersions
    <3>. DEFINE w == [rv |-> endpoints.stored.rv + 1, exists |-> TRUE, annotated |-> a]
    <3>1. w \in EndpointsVersions
      BY DEF TypeOK, Versions, EndpointsVersions
    <3>2. PutEndpoints(a) = endpoints \/ PutEndpoints(a) = Write(endpoints, w)
      BY DEF PutEndpoints
    <3>. HIDE DEF w
    <3>. QED BY <3>1, <3>2 DEF TypeOK, Versions, Write
  <2>. QED BY <2>1 DEF StartReconcile, FetchEndpoints, AnnotateEndpoints, CreateServiceEntry, FetchAnnotation,
                       RemoveAnnotation, CleanPods, TypeOK, Versions
<1>2. DOMAIN entries' = Numbers /\ \A n \in Numbers : Versions(entries'[n]) \subseteq EntryVersions
  <2>1. ASSUME NEW n \in Numbers
        PROVE  Versions(Write(entries[n], [rv |-> entries[n].stored.rv + 1, owner |-> worker.copy.uid]))
                 \subseteq EntryVersions
    BY DEF TypeOK, Versions, Write, EntryVersions, OptimizerVersions, WorkerStates
  <2>2. CASE \E n \in Numbers : CreateServiceEntry(n)
    BY <2>1, <2>2 DEF CreateServiceEntry, TypeOK
  <2>. QED BY <2>2 DEF StartReconcile, FetchEndpoints, AnnotateEndpoints, FetchAnnotation, RemoveAnnotation,
                       CleanPods, TypeOK
<1>3. UNCHANGED <<optimizer, service, uids>> /\ queue' \in BOOLEAN
  BY DEF StartReconcile, FetchEndpoints, AnnotateEndpoints, CreateServiceEntry, FetchAnnotation, RemoveAnnotation,
         CleanPods, GoTo, Finish, FinishWithError, AfterFailedCleanup, TypeOK
<1>4. faults' \in 0..MaxFaults
  <2>1. faults' = faults \/ Fault
    BY DEF StartReconcile, FetchEndpoints, AnnotateEndpoints, CreateServiceEntry, FetchAnnotation, RemoveAnnotation,
           CleanPods
  <2>. QED BY <2>1, LifecycleAssumption DEF Fault, TypeOK
<1>5. worker' \in WorkerStates
  <2>1. CASE worker' = Idle
    BY <2>1, IdleTyped
  <2>2. CASE StartReconcile
    BY <2>1, <2>2, AtTyped DEF StartReconcile, TypeOK, Versions
  <2>3. CASE AnnotateEndpoints \/ RemoveAnnotation \/ CleanPods
    <3>1. worker' = Idle \/ \E pc \in {"create", "cleanPods", "removeFinalizer"} : worker' = [worker EXCEPT !.pc = pc]
      BY <2>3 DEF AnnotateEndpoints, RemoveAnnotation, CleanPods, GoTo, FinishWithError, AfterFailedCleanup
    <3>. QED BY <2>1, <3>1 DEF TypeOK, WorkerStates
  <2>4. CASE FetchEndpoints \/ FetchAnnotation
    <3>1. worker' = Idle \/ \E pc \in {"annotate", "create", "unannotate", "cleanPods"} :
                               worker' = [worker EXCEPT !.pc = pc, !.ep = endpoints.cached]
      BY <2>4 DEF FetchEndpoints, FetchAnnotation, FinishWithError, AfterFailedCleanup
    <3>. QED BY <2>1, <3>1 DEF TypeOK, Versions, WorkerStates
  <2>5. CASE \E n \in Numbers : CreateServiceEntry(n)
    <3>1. PICK n \in Numbers : CreateServiceEntry(n)
      BY <2>5
    <3>2. entries[n].cached.owner \in Nat /\ worker.copy.uid \in Nat
      BY DEF TypeOK, Versions, EntryVersions, OptimizerVersions, WorkerStates
    <3>3. worker \in WorkerStates
      BY DEF TypeOK
    <3>4. ASSUME NEW owner \in Nat, Made(n, owner)
          PROVE  worker' \in WorkerStates
      <4>1. worker.made \cup {[number |-> n, owner |-> owner]} \in Reports /\ worker.next + 1 \in Nat
        BY <3>3 DEF WorkerStates, Reports
      <4>. QED BY <3>3, <3>4, <4>1 DEF Made, WorkerStates
    <3>5. ASSUME NotMade
          PROVE  worker' \in WorkerStates
      BY <3>3, <3>5 DEF NotMade, WorkerStates
    <3>. QED BY <3>1, <3>2, <3>4, <3>5 DEF CreateServiceEntry
  <2>. QED BY <2>2, <2>3, <2>4, <2>5
<1>. QED BY <1>1, <1>2, <1>3, <1>4, <1>5 DEF TypeOK, Versions

\* A reconcile starts from a cached optimizer, held if it has its finalizer; no
\* step of it turns the copy into another.
LEMMA WorkerInv ==
  ASSUME LifecycleInv,
         \/ StartReconcile \/ FetchEndpoints \/ AnnotateEndpoints \/ (\E n \in Numbers : CreateServiceEntry(n))
         \/ FetchAnnotation \/ RemoveAnnotation \/ CleanPods
  PROVE  LifecycleInv'
<1>. USE DEF LifecycleInv, cluster, reconcileVars, bounds
<1>1. optimizer' = optimizer
  BY DEF StartReconcile, FetchEndpoints, AnnotateEndpoints, CreateServiceEntry, FetchAnnotation, RemoveAnnotation,
         CleanPods
<1>2. TypeOK' /\ Coherent(optimizer') /\ Held'
  BY <1>1, WorkerTypes DEF Held, Holds
<1>3. worker \in WorkerStates
  BY DEF TypeOK
<1>4. CASE worker' = Idle
  BY <1>1, <1>2, <1>4, IdleTyped DEF WorkerCopy, WorkerHolds, WorkerCleans
<1>5. CASE StartReconcile /\ worker' # Idle
  <2>1. PICK pc \in {"addFinalizer", "fetch", "clean"} : worker' = At(pc, optimizer.cached)
    BY <1>5 DEF StartReconcile
  <2>2. /\ worker'.pc = pc /\ worker'.copy = optimizer.cached /\ Present(optimizer.cached)
        /\ pc = "fetch" => optimizer.cached.finalizer /\ ~optimizer.cached.deleting
        /\ pc = "clean" => optimizer.cached.deleting
    BY <1>5, <2>1 DEF StartReconcile, At, Idle
  <2>3. optimizer.cached.rv \in Nat
    BY DEF TypeOK, Versions, OptimizerVersions
  <2>. QED BY <1>1, <1>2, <2>2, <2>3 DEF WorkerCopy, WorkerHolds, WorkerCleans, Held, Holds, Coherent
<1>6. CASE worker' # Idle /\ ~StartReconcile
  <2>1. /\ worker'.copy = worker.copy
        /\ worker.pc # "idle"
        /\ worker'.pc \in {"fetch", "annotate", "create"} => worker.pc \in {"fetch", "annotate", "create"}
        /\ worker'.pc \in {"clean", "unannotate", "cleanPods", "removeFinalizer"} =>
             worker.pc \in {"clean", "unannotate", "cleanPods", "removeFinalizer"}
    BY <1>3, <1>6 DEF FetchEndpoints, AnnotateEndpoints, CreateServiceEntry, FetchAnnotation, RemoveAnnotation,
         CleanPods, GoTo, FinishWithError, AfterFailedCleanup, Made, NotMade, WorkerStates
  <2>. QED BY <1>1, <1>2, <2>1 DEF WorkerCopy, WorkerHolds, WorkerCleans, Holds
<1>. QED BY <1>4, <1>5, <1>6

-----------------------------------------------------------------------------
\* An Update of the optimizer is accepted from a copy that is the stored version.
LEMMA AcceptedCopy ==
  ASSUME LifecycleInv, worker.pc # "idle", Accepts(optimizer, worker.copy)
  PROVE  worker.copy = optimizer.stored /\ Present(optimizer.stored) /\ optimizer.stored \in OptimizerVersions
BY DEF LifecycleInv, WorkerCopy, Accepts, TypeOK, Versions

\* A failed call ends the reconcile and leaves the request in the work queue.
LEMMA FailedCallInv ==
  ASSUME LifecycleInv, worker' = Idle, queue' = TRUE, faults' = faults \/ Fault,
         UNCHANGED <<cluster, uids>>
  PROVE  LifecycleInv'
<1>. USE DEF LifecycleInv, cluster
<1>1. faults' \in 0..MaxFaults
  BY LifecycleAssumption DEF Fault, TypeOK
<1>2. TypeOK'
  BY <1>1, IdleTyped DEF TypeOK, Versions
<1>3. (Coherent(optimizer) /\ Held /\ WorkerCopy /\ WorkerHolds /\ WorkerCleans)'
  BY IdleTyped DEF Held, Holds, WorkerCopy, WorkerHolds, WorkerCleans
<1>. QED BY <1>2, <1>3

\* From here on the stored optimizer has its finalizer.
LEMMA AddFinalizerInv ==
  ASSUME LifecycleInv, AddFinalizer
  PROVE  LifecycleInv'
<1>. USE DEF LifecycleInv, cluster, reconcileVars, bounds
<1>1. CASE Accepts(optimizer, worker.copy) /\ optimizer' = PutOptimizer([worker.copy EXCEPT !.finalizer = TRUE])
           /\ worker' = At("fetch", optimizer'.stored) /\ UNCHANGED <<queue, faults>>
  <2>. DEFINE v == [worker.copy EXCEPT !.finalizer = TRUE]
  <2>1. worker.copy = optimizer.stored /\ Present(optimizer.stored) /\ optimizer.stored \in OptimizerVersions
    BY <1>1, AcceptedCopy DEF AddFinalizer
  <2>2. v \in OptimizerVersions /\ v.finalizer /\ v.uid = optimizer.stored.uid
    BY <2>1 DEF OptimizerVersions
  <2>3. optimizer' = PutOptimizer(v)
    BY <1>1
  <2>. HIDE DEF v
  <2>4. /\ Versions(optimizer') \subseteq OptimizerVersions /\ Coherent(optimizer')
        /\ optimizer'.cached = optimizer.cached
        /\ optimizer'.watch \subseteq optimizer.watch \cup {optimizer'.stored}
        /\ optimizer'.stored \in OptimizerVersions
        /\ optimizer'.stored = [v EXCEPT !.rv = optimizer'.stored.rv]
    BY <2>2, <2>3, PutOptimizerStores
  <2>5. optimizer'.stored.finalizer /\ optimizer'.stored.uid = optimizer.stored.uid
    BY <2>2, <2>4 DEF OptimizerVersions
  <2>6. TypeOK'
    BY <1>1, <2>4, AtTyped DEF AddFinalizer, TypeOK, Versions
  <2>7. Held'
    BY <2>4, <2>5 DEF Held, Holds
  <2>8. (WorkerCopy /\ WorkerHolds /\ WorkerCleans)'
    BY <1>1, <2>1, <2>4, <2>5 DEF At, WorkerCopy, WorkerHolds, WorkerCleans, Holds, Present, OptimizerVersions
  <2>. QED BY <2>4, <2>6, <2>7, <2>8
<1>2. CASE optimizer' = optimizer /\ AfterFailedFinalizer /\ (UNCHANGED faults \/ Fault)
  BY <1>2, FailedCallInv DEF AddFinalizer, AfterFailedFinalizer, FinishWithError
<1>. QED BY <1>1, <1>2 DEF AddFinalizer

\* The status changes nothing that holds the optimizer.
LEMMA UpdateStatusInv ==
  ASSUME LifecycleInv, UpdateStatus
  PROVE  LifecycleInv'
<1>. USE DEF LifecycleInv, cluster, reconcileVars, bounds
<1>1. CASE Accepts(optimizer, worker.copy) /\ optimizer' = PutOptimizer([worker.copy EXCEPT !.status = StatusEntries])
           /\ Finish /\ UNCHANGED faults
  <2>. DEFINE v == [worker.copy EXCEPT !.status = StatusEntries]
  <2>1. worker.copy = optimizer.stored /\ optimizer.stored \in OptimizerVersions
    BY <1>1, AcceptedCopy DEF UpdateStatus
  <2>2. StatusEntries \in Reports
    BY DEF StatusEntries, TypeOK, WorkerStates
  <2>3. v \in OptimizerVersions /\ v.uid = optimizer.stored.uid /\ v.finalizer = optimizer.stored.finalizer
    BY <2>1, <2>2 DEF OptimizerVersions
  <2>4. optimizer' = PutOptimizer(v) /\ worker' = Idle
    BY <1>1 DEF Finish
  <2>. HIDE DEF v
  <2>5. /\ Versions(optimizer') \subseteq OptimizerVersions /\ Coherent(optimizer')
        /\ optimizer'.cached = optimizer.cached
        /\ optimizer'.watch \subseteq optimizer.watch \cup {optimizer'.stored}
        /\ optimizer'.stored = [v EXCEPT !.rv = optimizer'.stored.rv]
    BY <2>3, <2>4, PutOptimizerStores
  <2>6. optimizer'.stored.finalizer = optimizer.stored.finalizer /\ optimizer'.stored.uid = optimizer.stored.uid
    BY <2>3, <2>5 DEF OptimizerVersions
  <2>7. TypeOK'
    BY <1>1, <2>4, <2>5, IdleTyped DEF UpdateStatus, Finish, TypeOK, Versions
  <2>8. Held'
    <3>1. optimizer.stored.finalizer = optimizer'.stored.finalizer
      BY <2>6
    <3>2. CASE optimizer.stored.finalizer
      BY <2>5, <2>6, <3>2 DEF Held, Holds
    <3>3. CASE ~optimizer.stored.finalizer
      BY <2>5, <2>6, <3>3 DEF Held, Holds
    <3>. QED BY <3>2, <3>3
  <2>9. (WorkerCopy /\ WorkerHolds /\ WorkerCleans)'
    BY <2>4, IdleTyped DEF WorkerCopy, WorkerHolds, WorkerCleans
  <2>. QED BY <2>5, <2>7, <2>8, <2>9
<1>2. CASE optimizer' = optimizer /\ FinishWithError /\ (UNCHANGED faults \/ Fault)
  BY <1>2, FailedCallInv DEF UpdateStatus, FinishWithError
<1>. QED BY <1>1, <1>2 DEF UpdateStatus

\* The finalizer is taken from the stored version, which the cache holds by then:
\* it is being deleted, so no version that looks held is left.
LEMMA RemoveFinalizerInv ==
  ASSUME LifecycleInv, RemoveFinalizer
  PROVE  LifecycleInv'
<1>. USE DEF LifecycleInv, cluster, reconcileVars, bounds
<1>1. CASE Accepts(optimizer, worker.copy) /\ optimizer' = PutOptimizer(NoOptimizer) /\ Finish /\ UNCHANGED faults
  <2>1. /\ worker.copy = optimizer.stored /\ worker.copy.deleting
        /\ worker.copy.rv <= optimizer.cached.rv
    BY <1>1, AcceptedCopy DEF RemoveFinalizer, WorkerCleans
  <2>2. Numbered(optimizer)
    BY TypeOKNumbered
  <2>3. optimizer.watch = {} /\ optimizer.cached.deleting
    BY <2>1, <2>2 DEF Coherent, Numbered
  <2>4. worker' = Idle
    BY <1>1 DEF Finish
  <2>5. /\ Versions(optimizer') \subseteq OptimizerVersions /\ Coherent(optimizer')
        /\ optimizer'.cached = optimizer.cached
        /\ optimizer'.watch \subseteq {optimizer'.stored}
        /\ optimizer'.stored = [NoOptimizer EXCEPT !.rv = optimizer'.stored.rv]
    BY <1>1, <2>3, Absent, PutOptimizerStores
  <2>6. ~optimizer'.stored.finalizer
    BY <2>5, Absent DEF OptimizerVersions
  <2>7. TypeOK'
    BY <1>1, <2>4, <2>5, IdleTyped DEF RemoveFinalizer, Finish, TypeOK, Versions
  <2>8. Held'
    BY <2>3, <2>5, <2>6 DEF Held
  <2>9. (WorkerCopy /\ WorkerHolds /\ WorkerCleans)'
    BY <2>4, IdleTyped DEF WorkerCopy, WorkerHolds, WorkerCleans
  <2>. QED BY <2>5, <2>7, <2>8, <2>9
<1>2. CASE optimizer' = optimizer /\ AfterFailedCleanup /\ (UNCHANGED faults \/ Fault)
  BY <1>2, FailedCallInv DEF RemoveFinalizer, AfterFailedCleanup, FinishWithError
<1>. QED BY <1>1, <1>2 DEF RemoveFinalizer

-----------------------------------------------------------------------------
\* Every step keeps the invariant.
LEMMA NextInv ==
  ASSUME LifecycleInv, [Next]_vars
  PROVE  LifecycleInv'
<1>1. CASE UNCHANGED vars
  BY <1>1 DEF vars, cluster, reconcileVars, bounds, LifecycleInv, TypeOK, Versions, Coherent, Held, Holds,
              WorkerCopy, WorkerHolds, WorkerCleans
<1>2. CASE Users
  BY <1>2, CreateOptimizerInv, DeleteOptimizerInv, ElsewhereInv DEF Users
<1>3. CASE Collect \/ Resync
  BY <1>3, ElsewhereInv
<1>4. CASE Informers
  BY <1>4, DeliverOptimizerInv, ElsewhereInv DEF Informers
<1>5. CASE Reconcile
  BY <1>5, WorkerInv, AddFinalizerInv, UpdateStatusInv, RemoveFinalizerInv DEF Reconcile
<1>. QED BY <1>1, <1>2, <1>3, <1>4, <1>5, RestartInv DEF Next

\* While the reconciler works on an optimizer, that very optimizer is stored with
\* its finalizer; when it takes the finalizer, no copy without the deletion is left.
THEOREM LifecycleInvariant == Spec => []LifecycleInv
<1>1. Init => LifecycleInv
  BY InitLifecycleInv
<1>2. LifecycleInv /\ [Next]_vars => LifecycleInv'
  BY NextInv
<1>. QED BY <1>1, <1>2, PTL DEF Spec

\* A step that annotates the Endpoints or makes a ServiceEntry does so for an
\* optimizer that is stored with its finalizer.
LEMMA NextHolds ==
  ASSUME LifecycleInv, [Next]_vars
  PROVE  /\ ~endpoints.stored.annotated /\ endpoints'.stored.annotated => optimizer.stored.finalizer
         /\ \A n \in Numbers :
              Owned(entries'[n].stored) /\ entries'[n].stored # entries[n].stored =>
                optimizer.stored.finalizer /\ entries'[n].stored.owner = optimizer.stored.uid
<1>. USE DEF cluster, reconcileVars, bounds
<1>1. DOMAIN entries = Numbers
  BY DEF LifecycleInv, TypeOK
<1>2. CASE AnnotateEndpoints
  BY <1>2 DEF AnnotateEndpoints, LifecycleInv, WorkerHolds, Holds
<1>3. CASE \E n \in Numbers : CreateServiceEntry(n)
  <2>1. PICK m \in Numbers : CreateServiceEntry(m)
    BY <1>3
  <2>2. Holds(worker.copy.uid) /\ endpoints' = endpoints
    BY <2>1 DEF CreateServiceEntry, LifecycleInv, WorkerHolds
  <2>. DEFINE w == [rv |-> entries[m].stored.rv + 1, owner |-> worker.copy.uid]
  <2>3. entries' = entries \/ entries' = [entries EXCEPT ![m] = Write(entries[m], w)]
    BY <2>1 DEF CreateServiceEntry
  <2>4. Write(entries[m], w).stored = w /\ w.owner = worker.copy.uid
    BY DEF Write
  <2>. HIDE DEF w
  <2>. QED BY <1>1, <2>2, <2>3, <2>4 DEF Holds
<1>4. CASE Collect
  <2>1. PICK m \in Numbers : CollectEntry(m)
    BY <1>4 DEF Collect
  <2>. DEFINE w == [NoEntry EXCEPT !.rv = entries[m].stored.rv + 1]
  <2>2. entries' = [entries EXCEPT ![m] = Write(entries[m], w)] /\ endpoints' = endpoints
    BY <2>1 DEF CollectEntry
  <2>3. Write(entries[m], w).stored = w /\ w.owner = 0
    BY DEF Write, NoEntry
  <2>. HIDE DEF w
  <2>. QED BY <1>1, <2>2, <2>3 DEF Owned
<1>5. CASE \E n \in Numbers : DeliverEntry(n)
  BY <1>1, <1>5 DEF DeliverEntry, Deliver
<1>6. CASE Restart
  BY <1>6 DEF Restart, Relist, Cached
<1>7. CASE DeliverEndpoints
  BY <1>7 DEF DeliverEndpoints, Deliver
<1>8. CASE ChangeEndpoints \/ DeleteEndpoints
  <2>1. entries' = entries
    BY <1>8 DEF ChangeEndpoints, DeleteEndpoints
  <2>2. endpoints'.stored.annotated => endpoints.stored.annotated
    BY <1>8, Absent DEF ChangeEndpoints, DeleteEndpoints, Write, LifecycleInv, TypeOK, Versions, EndpointsVersions, NoEndpoints
  <2>. QED BY <2>1, <2>2
<1>9. CASE RemoveAnnotation
  <2>1. entries' = entries
    BY <1>9 DEF RemoveAnnotation
  <2>2. endpoints'.stored.annotated => endpoints.stored.annotated
    BY <1>9 DEF RemoveAnnotation, PutEndpoints, Write
  <2>. QED BY <2>1, <2>2
<1>10. CASE UNCHANGED <<endpoints, entries>>
  BY <1>10
<1>. QED
  BY <1>2, <1>3, <1>4, <1>5, <1>6, <1>7, <1>8, <1>9, <1>10 DEF Next, Users, Informers, Reconcile, vars,
     CreateOptimizer, DeleteOptimizer, DeleteService, DeliverOptimizer, Resync, StartReconcile, AddFinalizer,
     FetchEndpoints, UpdateStatus, FetchAnnotation, CleanPods, RemoveFinalizer

\* Whatever the reconciler leaves in the cluster, it leaves for an optimizer that
\* is stored with the finalizer that has it cleaned up.
THEOREM NothingIsLeftBehind == Spec => NothingWithoutFinalizer
<1>. DEFINE A == /\ ~endpoints.stored.annotated /\ endpoints'.stored.annotated => optimizer.stored.finalizer
                 /\ \A n \in Numbers :
                      Owned(entries'[n].stored) /\ entries'[n].stored # entries[n].stored =>
                        optimizer.stored.finalizer /\ entries'[n].stored.owner = optimizer.stored.uid
<1>1. LifecycleInv /\ [Next]_vars => [A]_<<endpoints, entries, optimizer>>
  BY NextHolds
<1>2. NothingWithoutFinalizer <=> [][A]_<<endpoints, entries, optimizer>>
  BY PTL DEF NothingWithoutFinalizer
<1>. QED BY <1>1, <1>2, LifecycleInvariant, PTL DEF Spec

-----------------------------------------------------------------------------
\* A write is on its way to the cache, unless there was nothing to write.
LEMMA PutOptimizerSent ==
  ASSUME NEW v
  PROVE  \/ v = optimizer.stored /\ PutOptimizer(v) = optimizer
         \/ PutOptimizer(v).stored \in PutOptimizer(v).watch
BY DEF PutOptimizer, Write

\* Who writes the optimizer.
LEMMA OptimizerSteps ==
  ASSUME Next
  PROVE  \/ optimizer' = optimizer
         \/ \E v : optimizer' = PutOptimizer(v)
         \/ DeliverOptimizer
         \/ optimizer' = Relist(optimizer)
<1>. USE DEF cluster
<1>1. CASE Users
  BY <1>1, Zenon DEF Users, CreateOptimizer, DeleteOptimizer, ChangeEndpoints, DeleteService, DeleteEndpoints
<1>2. CASE Collect \/ Informers \/ Resync \/ Restart
  BY <1>2 DEF Collect, CollectEntry, Informers, DeliverEndpoints, DeliverEntry, Resync, Restart
<1>3. CASE Reconcile
  <2>1. CASE AddFinalizer \/ UpdateStatus \/ RemoveFinalizer
    BY <2>1, Zenon DEF AddFinalizer, UpdateStatus, RemoveFinalizer
  <2>. QED BY <1>3, <2>1 DEF Reconcile, StartReconcile, FetchEndpoints, AnnotateEndpoints, CreateServiceEntry,
                             FetchAnnotation, RemoveAnnotation, CleanPods
<1>. QED BY <1>1, <1>2, <1>3 DEF Next

\* The watch loses no optimizer, even one that is skipped.
LEMMA NextArriving ==
  ASSUME LifecycleInv, Arriving, Next
  PROVE  Arriving'
<1>1. CASE optimizer' = optimizer
  BY <1>1 DEF Arriving
<1>2. ASSUME NEW v, optimizer' = PutOptimizer(v)
      PROVE  Arriving'
  BY <1>2, PutOptimizerSent DEF Arriving
<1>3. CASE DeliverOptimizer
  <2>1. PICK v \in optimizer.watch : optimizer' = Deliver(optimizer, v)
    BY <1>3 DEF DeliverOptimizer
  <2>2. Numbered(optimizer) /\ Coherent(optimizer)
    BY TypeOKNumbered DEF LifecycleInv
  <2>3. v = optimizer.stored \/ (optimizer.stored \in optimizer.watch /\ optimizer.stored.rv > v.rv)
    <3>1. v.rv \in Nat /\ optimizer.stored.rv \in Nat /\ optimizer.cached.rv \in Nat
      BY <2>1, <2>2 DEF Numbered
    <3>2. optimizer.cached.rv < v.rv /\ v.rv <= optimizer.stored.rv
      BY <2>1, <2>2 DEF Coherent
    <3>3. v.rv = optimizer.stored.rv => v = optimizer.stored
      BY <2>1, <2>2 DEF Coherent
    <3>4. optimizer.stored # optimizer.cached
      BY <3>1, <3>2
    <3>. QED BY <3>1, <3>2, <3>3, <3>4 DEF Arriving
  <2>. QED BY <2>1, <2>3 DEF Arriving, Deliver
<1>4. CASE optimizer' = Relist(optimizer)
  BY <1>4 DEF Arriving, Relist, Cached
<1>. QED BY <1>1, <1>2, <1>3, <1>4, OptimizerSteps

\* The worker starts with an optimizer that is not being deleted, and keeps its copy.
LEMMA NextWorkerServes ==
  ASSUME LifecycleInv, WorkerServes, Next
  PROVE  WorkerServes'
<1>. USE DEF cluster, reconcileVars, bounds
<1>1. worker \in WorkerStates
  BY DEF LifecycleInv, TypeOK
<1>2. CASE worker' = worker
  BY <1>2 DEF WorkerServes
<1>3. CASE worker' = Idle
  BY <1>3, IdleTyped DEF WorkerServes
<1>4. CASE StartReconcile
  BY <1>3, <1>4 DEF StartReconcile, At, WorkerServes
<1>5. CASE AddFinalizer
  <2>1. CASE Accepts(optimizer, worker.copy) /\ optimizer' = PutOptimizer([worker.copy EXCEPT !.finalizer = TRUE])
             /\ worker' = At("fetch", optimizer'.stored)
    <3>1. /\ worker.copy \in OptimizerVersions /\ ~worker.copy.deleting
          /\ LifecycleInv => Coherent(optimizer) /\ TypeOK
      BY <1>1, <1>5 DEF AddFinalizer, WorkerServes, WorkerStates, LifecycleInv
    <3>. DEFINE v == [worker.copy EXCEPT !.finalizer = TRUE]
    <3>2. v \in OptimizerVersions /\ ~v.deleting
      BY <3>1 DEF OptimizerVersions
    <3>. HIDE DEF v
    <3>3. optimizer'.stored = [v EXCEPT !.rv = optimizer'.stored.rv]
      BY <2>1, <3>1, <3>2, PutOptimizerStores DEF v
    <3>4. ~optimizer'.stored.deleting
      BY <3>2, <3>3 DEF OptimizerVersions
    <3>. QED BY <2>1, <3>4 DEF At, WorkerServes
  <2>2. CASE AfterFailedFinalizer
    BY <1>3, <2>2 DEF AfterFailedFinalizer, FinishWithError
  <2>. QED BY <1>5, <2>1, <2>2 DEF AddFinalizer
<1>6. CASE FetchEndpoints \/ AnnotateEndpoints \/ (\E n \in Numbers : CreateServiceEntry(n))
           \/ FetchAnnotation \/ RemoveAnnotation \/ CleanPods
  <2>1. \/ worker' = Idle
        \/ /\ worker'.copy = worker.copy
           /\ worker'.pc \in {"addFinalizer", "fetch", "annotate", "create"} =>
                worker.pc \in {"addFinalizer", "fetch", "annotate", "create"}
    BY <1>1, <1>6 DEF FetchEndpoints, AnnotateEndpoints, CreateServiceEntry, FetchAnnotation, RemoveAnnotation,
         CleanPods, GoTo, FinishWithError, AfterFailedCleanup, Made, NotMade, WorkerStates
  <2>. QED BY <1>3, <2>1 DEF WorkerServes
<1>7. CASE UpdateStatus \/ RemoveFinalizer
  BY <1>3, <1>7 DEF UpdateStatus, RemoveFinalizer, Finish, FinishWithError, AfterFailedCleanup
<1>8. CASE Users \/ Collect \/ Informers \/ Resync \/ Restart
  BY <1>2, <1>3, <1>8 DEF Users, CreateOptimizer, DeleteOptimizer, ChangeEndpoints, DeleteService, DeleteEndpoints,
     Collect, CollectEntry, Informers, DeliverOptimizer, DeliverEndpoints, DeliverEntry, Resync, Restart
<1>. QED BY <1>4, <1>5, <1>6, <1>7, <1>8 DEF Next, Reconcile

\* Only this reconciler's clean-up takes the annotation away, and the worker that
\* created service entries is not at it.
LEMMA NextAnnotationStays ==
  ASSUME LifecycleInv, AnnotationStays, Next
  PROVE  AnnotationStays'
<1>. USE DEF cluster, reconcileVars, bounds
<1>1. worker \in WorkerStates /\ Versions(endpoints) \subseteq EndpointsVersions
  BY DEF LifecycleInv, TypeOK
<1>2. CASE worker' = worker /\ (\/ ~endpoints'.stored.exists
                                \/ /\ endpoints'.stored.annotated = endpoints.stored.annotated
                                   /\ endpoints'.stored.exists = endpoints.stored.exists)
  BY <1>2 DEF AnnotationStays
<1>3. CASE worker'.pc # "create"
  BY <1>3 DEF AnnotationStays
<1>4. CASE worker' = Idle
  BY <1>3, <1>4, IdleTyped
<1>5. CASE Users \/ Informers
  <2>1. CASE ChangeEndpoints \/ DeleteEndpoints
    BY <1>1, <1>2, <2>1 DEF ChangeEndpoints, DeleteEndpoints, Write, NoEndpoints, Versions, EndpointsVersions
  <2>2. CASE DeliverEndpoints
    BY <1>2, <2>2 DEF DeliverEndpoints, Deliver
  <2>3. CASE worker' = worker /\ endpoints' = endpoints
    BY <1>2, <2>3
  <2>. QED BY <1>5, <2>1, <2>2, <2>3 DEF Users, CreateOptimizer, DeleteOptimizer, DeleteService, Informers,
                                         DeliverOptimizer, DeliverEntry
<1>6. CASE Collect \/ Resync
  BY <1>2, <1>6 DEF Collect, CollectEntry, Resync
<1>7. CASE Restart
  BY <1>4, <1>7 DEF Restart
<1>8. CASE AnnotateEndpoints
  <2>1. CASE endpoints' = PutEndpoints(TRUE)
    BY <2>1 DEF PutEndpoints, Write, AnnotationStays
  <2>. QED BY <1>4, <1>8, <2>1 DEF AnnotateEndpoints, FinishWithError
<1>9. CASE \E n \in Numbers : CreateServiceEntry(n)
  BY <1>9 DEF CreateServiceEntry, AnnotationStays
<1>10. CASE FetchEndpoints
  <2>1. CASE worker' = [worker EXCEPT !.pc = IF Annotates THEN "annotate" ELSE "create", !.ep = endpoints.cached]
    BY <1>1, <2>1 DEF WorkerStates, AnnotationStays
  <2>. QED BY <1>4, <1>10, <2>1 DEF FetchEndpoints, FinishWithError
<1>11. CASE StartReconcile \/ AddFinalizer
  BY <1>3, <1>4, <1>11 DEF StartReconcile, AddFinalizer, At, AfterFailedFinalizer, FinishWithError
<1>12. CASE UpdateStatus \/ RemoveFinalizer
  BY <1>4, <1>12 DEF UpdateStatus, RemoveFinalizer, Finish, FinishWithError, AfterFailedCleanup
<1>13. CASE FetchAnnotation \/ RemoveAnnotation \/ CleanPods
  <2>1. worker' = Idle \/ worker'.pc \in {"unannotate", "cleanPods", "removeFinalizer"}
    BY <1>1, <1>13 DEF FetchAnnotation, RemoveAnnotation, CleanPods, GoTo, FinishWithError, AfterFailedCleanup, WorkerStates
  <2>. QED BY <1>3, <1>4, <2>1
<1>. QED BY <1>5, <1>6, <1>7, <1>8, <1>9, <1>10, <1>11, <1>12, <1>13 DEF Next, Reconcile

\* A reconcile that ends without an error leaves an optimizer that is served, or
\* none; every other step that disturbs one asks for a reconcile.
LEMMA NextServed ==
  ASSUME LifecycleInv, RestInv, Arriving', Next, AtRest', Present(optimizer'.stored)
  PROVE  /\ ~optimizer'.stored.deleting
         /\ optimizer'.stored.finalizer
         /\ Annotates /\ endpoints'.stored.exists => endpoints'.stored.annotated
<1>. USE DEF cluster, reconcileVars, bounds
<1>1. worker \in WorkerStates /\ Versions(endpoints) \subseteq EndpointsVersions /\ uids \in Nat
  BY LifecycleAssumption DEF LifecycleInv, TypeOK
<1>2. ~queue' /\ worker'.pc = "idle" /\ optimizer'.watch = {} /\ optimizer'.cached = optimizer'.stored
  BY DEF AtRest, Arriving
<1>3. ASSUME NEW v, optimizer' = PutOptimizer(v)
      PROVE  v = optimizer.stored /\ optimizer' = optimizer
  BY <1>2, <1>3, PutOptimizerSent
<1>4. CASE CreateOptimizer
  BY <1>1, <1>3, <1>4, Absent DEF CreateOptimizer, Present, OptimizerVersions
<1>5. CASE DeleteOptimizer
  <2>1. CASE optimizer.stored.finalizer
    <3>1. [optimizer.stored EXCEPT !.deleting = TRUE] = optimizer.stored /\ optimizer.stored \in OptimizerVersions
      BY <1>3, <1>5, <2>1 DEF DeleteOptimizer, LifecycleInv, TypeOK, Versions
    <3>2. optimizer.stored.deleting
      BY <3>1 DEF OptimizerVersions
    <3>. QED BY <1>5, <3>2 DEF DeleteOptimizer
  <2>2. CASE ~optimizer.stored.finalizer
    BY <1>3, <1>5, <2>2, Absent DEF DeleteOptimizer, Present
  <2>. QED BY <2>1, <2>2
<1>6. CASE UNCHANGED <<optimizer, queue, worker>> /\ (\/ ~endpoints'.stored.exists
                                                     \/ /\ endpoints'.stored.annotated = endpoints.stored.annotated
                                                        /\ endpoints'.stored.exists = endpoints.stored.exists)
  BY <1>6 DEF RestInv, ServedAtRest, AtRest
<1>7. CASE ChangeEndpoints \/ DeleteEndpoints
  <2>1. UNCHANGED <<optimizer, queue, worker>>
    BY <1>7 DEF ChangeEndpoints, DeleteEndpoints
  <2>2. CASE ChangeEndpoints
    BY <1>1, <1>6, <2>1, <2>2 DEF ChangeEndpoints, Write, Versions, EndpointsVersions
  <2>3. CASE DeleteEndpoints
    BY <1>6, <2>1, <2>3 DEF DeleteEndpoints, Write, NoEndpoints
  <2>. QED BY <1>7, <2>2, <2>3
<1>8. CASE DeleteService \/ Collect \/ DeliverEndpoints \/ (\E n \in Numbers : DeliverEntry(n))
  <2>1. UNCHANGED <<optimizer, queue, worker>>
    BY <1>8 DEF DeleteService, Collect, CollectEntry, DeliverEndpoints, DeliverEntry
  <2>2. endpoints'.stored = endpoints.stored
    <3>1. CASE DeliverEndpoints
      BY <3>1 DEF DeliverEndpoints, Deliver
    <3>2. CASE endpoints' = endpoints
      BY <3>2
    <3>. QED BY <1>8, <3>1, <3>2 DEF DeleteService, Collect, CollectEntry, DeliverEntry
  <2>. QED BY <1>6, <2>1, <2>2
<1>9. CASE DeliverOptimizer \/ Resync \/ Restart
  BY <1>2, <1>9 DEF DeliverOptimizer, Resync, Restart, Relist, Cached
<1>10. CASE StartReconcile
  BY <1>2, <1>10 DEF StartReconcile, At
<1>11. CASE AddFinalizer
  BY <1>2, <1>11 DEF AddFinalizer, At, AfterFailedFinalizer, FinishWithError
<1>12. CASE FetchEndpoints \/ AnnotateEndpoints \/ FetchAnnotation \/ RemoveAnnotation \/ CleanPods
  <2>1. queue' = TRUE \/ worker'.pc \in {"annotate", "create", "unannotate", "cleanPods", "removeFinalizer"}
    BY <1>1, <1>12 DEF FetchEndpoints, AnnotateEndpoints, FetchAnnotation, RemoveAnnotation, CleanPods, GoTo,
         FinishWithError, AfterFailedCleanup, WorkerStates
  <2>. QED BY <1>2, <2>1
<1>13. CASE \E n \in Numbers : CreateServiceEntry(n)
  BY <1>1, <1>2, <1>13 DEF CreateServiceEntry, Made, NotMade, WorkerStates
<1>14. CASE UpdateStatus
  <2>1. Accepts(optimizer, worker.copy) /\ optimizer' = PutOptimizer([worker.copy EXCEPT !.status = StatusEntries])
    BY <1>2, <1>14 DEF UpdateStatus, FinishWithError
  <2>2. optimizer' = optimizer /\ endpoints' = endpoints /\ worker.pc = "create"
    BY <1>3, <1>14, <2>1 DEF UpdateStatus
  <2>3. worker.copy = optimizer.stored
    BY <2>1, <2>2, AcceptedCopy
  <2>. QED BY <2>2, <2>3 DEF RestInv, WorkerServes, AnnotationStays, LifecycleInv, WorkerHolds, Holds
<1>15. CASE RemoveFinalizer
  <2>1. optimizer' = PutOptimizer(NoOptimizer)
    BY <1>2, <1>15 DEF RemoveFinalizer, AfterFailedCleanup, FinishWithError
  <2>. QED BY <1>3, <2>1, Absent DEF Present
<1>. QED
  BY <1>4, <1>5, <1>7, <1>8, <1>9, <1>10, <1>11, <1>12, <1>13, <1>14, <1>15 DEF Next, Users, Informers, Reconcile

LEMMA NextRest ==
  ASSUME LifecycleInv, RestInv, [Next]_vars
  PROVE  RestInv'
<1>1. CASE UNCHANGED vars
  BY <1>1 DEF vars, cluster, reconcileVars, bounds, RestInv, ServedAtRest, AtRest, Arriving, AnnotationStays, WorkerServes
<1>2. CASE Next
  <2>1. Arriving' /\ AnnotationStays' /\ WorkerServes'
    BY <1>2, NextArriving, NextAnnotationStays, NextWorkerServes DEF RestInv
  <2>2. ServedAtRest'
    BY <1>2, <2>1, NextServed DEF ServedAtRest
  <2>. QED BY <2>1, <2>2 DEF RestInv
<1>. QED BY <1>1, <1>2

\* Whatever fails, conflicts or restarts, the reconciler comes to rest only when no
\* deleted optimizer is left and the present one has its finalizer and annotation.
THEOREM ServedOnceAtRest == Spec => []ServedAtRest
<1>1. Init => RestInv
  BY Absent, IdleTyped DEF Init, Cached, RestInv, ServedAtRest, Present, Arriving, AnnotationStays, WorkerServes
<1>2. LifecycleInv /\ RestInv /\ [Next]_vars => RestInv'
  BY NextRest
<1>3. RestInv => ServedAtRest
  BY DEF RestInv
<1>. QED BY <1>1, <1>2, <1>3, LifecycleInvariant, PTL DEF Spec
=============================================================================
