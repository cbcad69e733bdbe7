------------------------- MODULE OptimizerLifecycle -------------------------
(***************************************************************************)
(* The life of an IstioAdaptiveRequestOptimizer and of what it leaves in   *)
(* the cluster: the annotation of the Endpoints and a ServiceEntry for     *)
(* each port.                                                              *)
(*                                                                         *)
(*   IstioAdaptiveRequestOptimizerReconciler (worker) adds its finalizer,  *)
(*     annotates, creates the service entries and reports them in the      *)
(*     status; when the optimizer is being deleted it takes the annotation *)
(*     and the finalizer away;                                             *)
(*   the garbage collector deletes what an optimizer owned that is gone;   *)
(*   users create and delete optimizers, a service may leave.              *)
(*                                                                         *)
(* Addresses and weights are left to ServiceEntrySync, the weight          *)
(* optimizers to OptimizationCycles.                                       *)
(***************************************************************************)
EXTENDS Sequences, CachedObject

CONSTANTS
  ServicePorts,          \* the service's ports, a sequence of [number, protocol]
  ListedPorts,           \* the optimizer's ServicePorts
  MaxOptimizers,         \* bound: optimizers created
  MaxEndpointsVersions,  \* bound: changes of the Endpoints stop at this version
  MaxFaults              \* bound: restarts of the manager and calls that fail

Numbers == {ServicePorts[i].number : i \in DOMAIN ServicePorts}

ASSUME LifecycleAssumption ==
  /\ MaxOptimizers \in Nat
  /\ MaxEndpointsVersions \in Nat
  /\ MaxFaults \in Nat

VARIABLES
  \* Objects.  A version of the optimizer is [rv, uid, finalizer, deleting, status],
  \* of an Endpoints [rv, exists, annotated], of a ServiceEntry [rv, owner].  uid = 0
  \* and owner = 0 stand for an object that is not there; a deletion is a version of
  \* its own.
  optimizer, endpoints, entries,
  service,       \* whether the Service is there; nobody here writes it
  queue,         \* work queue of the IstioAdaptiveRequestOptimizerReconciler
  worker,        \* its worker: [pc, copy, ep, next, made]
  uids,          \* how many optimizers have been created
  faults

cluster == <<optimizer, endpoints, entries, service>>
reconcileVars == <<queue, worker>>
bounds == <<uids, faults>>
vars == <<cluster, reconcileVars, bounds>>

-----------------------------------------------------------------------------
NoOptimizer == [rv |-> 0, uid |-> 0, finalizer |-> FALSE, deleting |-> FALSE, status |-> {}]
NoEndpoints == [rv |-> 0, exists |-> FALSE, annotated |-> FALSE]
NoEntry == [rv |-> 0, owner |-> 0]

Present(v) == v.uid # 0
Owned(v) == v.owner # 0

\* normalizeProtocol, for protocols in lower case.
NormalizeProtocol(protocol) == IF protocol \in {"http", "grpc"} THEN "tcp" ELSE protocol

SamePort(p, q) == p.number = q.number /\ NormalizeProtocol(p.protocol) = NormalizeProtocol(q.protocol)

IsListed(port) == \E i \in DOMAIN ListedPorts : SamePort(ListedPorts[i], port)

\* collectPortsToProcess.
PortsToProcess == IF ListedPorts = <<>> THEN ServicePorts ELSE SelectSeq(ServicePorts, IsListed)

\* The worker at pc with its copy of the optimizer.
At(pc, copy) == [pc |-> pc, copy |-> copy, ep |-> NoEndpoints, next |-> 1, made |-> {}]
Idle == At("idle", NoOptimizer)

\* The optimizer after an accepted write of what the API server keeps of v.
PutOptimizer(v) ==
  IF v = optimizer.stored THEN optimizer
  ELSE Write(optimizer, [v EXCEPT !.rv = optimizer.stored.rv + 1])

PutEndpoints(annotated) ==
  IF annotated = endpoints.stored.annotated THEN endpoints
  ELSE Write(endpoints, [rv |-> endpoints.stored.rv + 1, exists |-> TRUE, annotated |-> annotated])

-----------------------------------------------------------------------------
Init ==
  /\ optimizer = Cached(NoOptimizer)
  /\ endpoints = Cached([rv |-> 1, exists |-> TRUE, annotated |-> FALSE])
  /\ entries = [n \in Numbers |-> Cached(NoEntry)]
  /\ service = TRUE
  /\ queue = FALSE
  /\ worker = Idle
  /\ uids = 0
  /\ faults = 0

-----------------------------------------------------------------------------
\* A call fails although the API server could have accepted it, or the manager is
\* restarted.
Fault == faults < MaxFaults /\ faults' = faults + 1

(* Users and the control plane.                                            *)

CreateOptimizer ==
  /\ ~Present(optimizer.stored)
  /\ uids < MaxOptimizers
  /\ uids' = uids + 1
  /\ optimizer' = PutOptimizer([NoOptimizer EXCEPT !.uid = uids + 1])
  /\ UNCHANGED <<endpoints, entries, service, reconcileVars, faults>>

\* An optimizer without a finalizer is gone at once.
DeleteOptimizer ==
  /\ Present(optimizer.stored)
  /\ ~optimizer.stored.deleting
  /\ optimizer' = PutOptimizer(IF optimizer.stored.finalizer THEN [optimizer.stored EXCEPT !.deleting = TRUE]
                               ELSE NoOptimizer)
  /\ UNCHANGED <<endpoints, entries, service, reconcileVars, bounds>>

\* Pods come and go.
ChangeEndpoints ==
  /\ endpoints.stored.exists
  /\ endpoints.stored.rv < MaxEndpointsVersions
  /\ endpoints' = Write(endpoints, [endpoints.stored EXCEPT !.rv = @ + 1])
  /\ UNCHANGED <<optimizer, entries, service, reconcileVars, bounds>>

DeleteService ==
  /\ service
  /\ service' = FALSE
  /\ UNCHANGED <<optimizer, endpoints, entries, reconcileVars, bounds>>

\* The Endpoints follows its Service.
DeleteEndpoints ==
  /\ ~service
  /\ endpoints.stored.exists
  /\ endpoints' = Write(endpoints, [NoEndpoints EXCEPT !.rv = endpoints.stored.rv + 1])
  /\ UNCHANGED <<optimizer, entries, service, reconcileVars, bounds>>

\* The garbage collector finds the owner gone, or replaced by another of its name.
CollectEntry(n) ==
  /\ Owned(entries[n].stored)
  /\ entries[n].stored.owner # optimizer.stored.uid
  /\ entries' = [entries EXCEPT ![n] = Write(@, [NoEntry EXCEPT !.rv = entries[n].stored.rv + 1])]
  /\ UNCHANGED <<optimizer, endpoints, service, reconcileVars, bounds>>

-----------------------------------------------------------------------------
(* The informers.  Nothing watches Endpoints and service entries here.     *)

DeliverOptimizer ==
  /\ \E v \in optimizer.watch : optimizer' = Deliver(optimizer, v)
  /\ queue' = TRUE
  /\ UNCHANGED <<endpoints, entries, service, worker, bounds>>

DeliverEndpoints ==
  /\ \E v \in endpoints.watch : endpoints' = Deliver(endpoints, v)
  /\ UNCHANGED <<optimizer, entries, service, reconcileVars, bounds>>

DeliverEntry(n) ==
  /\ \E v \in entries[n].watch : entries' = [entries EXCEPT ![n] = Deliver(@, v)]
  /\ UNCHANGED <<optimizer, endpoints, service, reconcileVars, bounds>>

\* The periodic resync of the informers.
Resync ==
  /\ Present(optimizer.cached)
  /\ queue' = TRUE
  /\ UNCHANGED <<cluster, worker, bounds>>

Restart ==
  /\ Fault
  /\ optimizer' = Relist(optimizer)
  /\ endpoints' = Relist(endpoints)
  /\ entries' = [n \in Numbers |-> Relist(entries[n])]
  /\ queue' = Present(optimizer.stored)
  /\ worker' = Idle
  /\ UNCHANGED <<service, uids>>

-----------------------------------------------------------------------------
(***************************************************************************)
(* IstioAdaptiveRequestOptimizerReconciler.Reconcile.                      *)
(*                                                                         *)
(*   idle -> [addFinalizer] -> fetch -> [annotate] -> create -> status     *)
(*   idle -> clean -> [unannotate] -> cleanPods -> removeFinalizer         *)
(***************************************************************************)
GoTo(pc) == worker' = [worker EXCEPT !.pc = pc] /\ UNCHANGED queue

Finish == worker' = Idle /\ UNCHANGED queue

\* Reconcile returns an error, so the request goes back to the work queue.
FinishWithError == worker' = Idle /\ queue' = TRUE

\* DeleteOptimizer leaves no optimizer deleting but with its finalizer, so what
\* handleFinalizer asks first is always so.
StartReconcile ==
  /\ worker.pc = "idle"
  /\ queue
  /\ queue' = FALSE
  /\ LET copy == optimizer.cached
     IN  \/ ~Present(copy) /\ worker' = Idle
         \/ Present(copy) /\ copy.deleting /\ worker' = At("clean", copy)
         \/ Present(copy) /\ ~copy.deleting /\ ~copy.finalizer /\ worker' = At("addFinalizer", copy)
         \/ Present(copy) /\ ~copy.deleting /\ copy.finalizer /\ worker' = At("fetch", copy)
  /\ UNCHANGED <<cluster, bounds>>

\* A variant that logs the error of addFinalizer and goes on.
AfterFailedFinalizerDropped == GoTo("fetch")

AfterFailedFinalizer == FinishWithError

\* The Update brings the copy to the version it made.
AddFinalizer ==
  /\ worker.pc = "addFinalizer"
  /\ \/ /\ Accepts(optimizer, worker.copy)
        /\ optimizer' = PutOptimizer([worker.copy EXCEPT !.finalizer = TRUE])
        /\ worker' = At("fetch", optimizer'.stored)
        /\ UNCHANGED <<queue, faults>>
     \/ /\ \/ ~Accepts(optimizer, worker.copy) /\ UNCHANGED faults
           \/ Fault
        /\ AfterFailedFinalizer
        /\ UNCHANGED optimizer
  /\ UNCHANGED <<endpoints, entries, service, uids>>

Annotates == Len(ListedPorts) > 0

\* Without a Service or an Endpoints the reconcile ends with an error.  An
\* optimizer that lists no ports is not annotated.
FetchEndpoints ==
  /\ worker.pc = "fetch"
  /\ \/ /\ ~(service /\ endpoints.cached.exists)
        /\ FinishWithError
     \/ /\ service /\ endpoints.cached.exists
        /\ worker' = [worker EXCEPT !.pc = IF Annotates THEN "annotate" ELSE "create",
                                    !.ep = endpoints.cached]
        /\ UNCHANGED queue
  /\ UNCHANGED <<cluster, bounds>>

AnnotateEndpoints ==
  /\ worker.pc = "annotate"
  /\ \/ /\ Accepts(endpoints, worker.ep)
        /\ endpoints' = PutEndpoints(TRUE)
        /\ GoTo("create")
        /\ UNCHANGED faults
     \/ /\ \/ ~Accepts(endpoints, worker.ep) /\ UNCHANGED faults
           \/ Fault
        /\ FinishWithError
        /\ UNCHANGED endpoints
  /\ UNCHANGED <<optimizer, entries, service, uids>>

\* createServiceEntry returned the entry of this owner for port n.
Made(n, owner) ==
  worker' = [worker EXCEPT !.next = @ + 1, !.made = @ \cup {[number |-> n, owner |-> owner]}]

NotMade == worker' = [worker EXCEPT !.next = @ + 1]

\* serviceEntryExists, whoever owns the entry.
Found(n) == Owned(entries[n].cached)

\* createServiceEntry for port n, the next of the loop.  A Create that fails is
\* logged, and the loop goes on.
CreateServiceEntry(n) ==
  /\ worker.pc = "create"
  /\ worker.next \in DOMAIN PortsToProcess
  /\ n = PortsToProcess[worker.next].number
  /\ \/ /\ Found(n)
        /\ Made(n, entries[n].cached.owner)
        /\ UNCHANGED <<entries, faults>>
     \/ /\ ~Found(n)
        /\ ~Owned(entries[n].stored)
        /\ entries' = [entries EXCEPT ![n] = Write(@, [rv |-> @.stored.rv + 1, owner |-> worker.copy.uid])]
        /\ Made(n, worker.copy.uid)
        /\ UNCHANGED faults
     \/ /\ ~Found(n)
        /\ \/ Owned(entries[n].stored) /\ UNCHANGED faults
           \/ Fault
        /\ NotMade
        /\ UNCHANGED entries
  /\ UNCHANGED <<optimizer, endpoints, service, queue, uids>>

\* A variant that adds to the status.
StatusEntriesAdded == worker.copy.status \cup worker.made

StatusEntries == worker.made

\* updateOptimizerStatus, after the last port.
UpdateStatus ==
  /\ worker.pc = "create"
  /\ worker.next \notin DOMAIN PortsToProcess
  /\ \/ /\ Accepts(optimizer, worker.copy)
        /\ optimizer' = PutOptimizer([worker.copy EXCEPT !.status = StatusEntries])
        /\ Finish
        /\ UNCHANGED faults
     \/ /\ \/ ~Accepts(optimizer, worker.copy) /\ UNCHANGED faults
           \/ Fault
        /\ FinishWithError
        /\ UNCHANGED optimizer
  /\ UNCHANGED <<endpoints, entries, service, uids>>

\* A variant that answers nil when the clean-up failed.
AfterFailedCleanupDropped == Finish

AfterFailedCleanup == FinishWithError

\* A variant that fails when there is no annotation left to remove.
CanCleanAnnotated == endpoints.cached.exists /\ endpoints.cached.annotated

CanClean == endpoints.cached.exists

\* cleanupSpecificEndpointAnnotations fetches the Endpoints, and writes it back
\* when the copy is annotated.
FetchAnnotation ==
  /\ worker.pc = "clean"
  /\ \/ /\ ~CanClean
        /\ AfterFailedCleanup
     \/ /\ CanClean
        /\ worker' = [worker EXCEPT !.pc = IF endpoints.cached.annotated THEN "unannotate" ELSE "cleanPods",
                                    !.ep = endpoints.cached]
        /\ UNCHANGED queue
  /\ UNCHANGED <<cluster, bounds>>

RemoveAnnotation ==
  /\ worker.pc = "unannotate"
  /\ \/ /\ Accepts(endpoints, worker.ep)
        /\ endpoints' = PutEndpoints(FALSE)
        /\ GoTo("cleanPods")
        /\ UNCHANGED faults
     \/ /\ \/ ~Accepts(endpoints, worker.ep) /\ UNCHANGED faults
           \/ Fault
        /\ AfterFailedCleanup
        /\ UNCHANGED endpoints
  /\ UNCHANGED <<optimizer, entries, service, uids>>

\* cleanupSpecificPodAnnotations needs the Service for its selector.  What it does
\* to a pod is not retried, and the series it deletes are none that were exported.
CleanPods ==
  /\ worker.pc = "cleanPods"
  /\ \/ ~service /\ AfterFailedCleanup
     \/ service /\ GoTo("removeFinalizer")
  /\ UNCHANGED <<cluster, bounds>>

\* The optimizer goes with its finalizer.
RemoveFinalizer ==
  /\ worker.pc = "removeFinalizer"
  /\ \/ /\ Accepts(optimizer, worker.copy)
        /\ optimizer' = PutOptimizer(NoOptimizer)
        /\ Finish
        /\ UNCHANGED faults
     \/ /\ \/ ~Accepts(optimizer, worker.copy) /\ UNCHANGED faults
           \/ Fault
        /\ AfterFailedCleanup
        /\ UNCHANGED optimizer
  /\ UNCHANGED <<endpoints, entries, service, uids>>

-----------------------------------------------------------------------------
Users == CreateOptimizer \/ DeleteOptimizer \/ ChangeEndpoints \/ DeleteService \/ DeleteEndpoints

Collect == \E n \in Numbers : CollectEntry(n)

Informers ==
  \/ DeliverOptimizer \/ DeliverEndpoints
  \/ \E n \in Numbers : DeliverEntry(n)

Reconcile ==
  \/ StartReconcile \/ AddFinalizer \/ FetchEndpoints \/ AnnotateEndpoints
  \/ (\E n \in Numbers : CreateServiceEntry(n)) \/ UpdateStatus
  \/ FetchAnnotation \/ RemoveAnnotation \/ CleanPods \/ RemoveFinalizer

Next == Users \/ Collect \/ Informers \/ Resync \/ Restart \/ Reconcile

Spec == Init /\ [][Next]_vars

(***************************************************************************)
(* Fairness: the watches deliver, the worker goroutine takes its next      *)
(* step and the garbage collector works.  Users, restarts and faults are   *)
(* left free.  ResyncSpec adds the resync timer of the informers.          *)
(***************************************************************************)
Fairness == WF_vars(Informers) /\ WF_vars(Collect) /\ WF_vars(Reconcile)

FairSpec == Spec /\ Fairness

ResyncSpec == FairSpec /\ WF_vars(Resync)

-----------------------------------------------------------------------------
Reports == SUBSET [number : Numbers, owner : Nat]
OptimizerVersions == [rv : Nat, uid : Nat, finalizer : BOOLEAN, deleting : BOOLEAN, status : Reports]
EndpointsVersions == [rv : Nat, exists : BOOLEAN, annotated : BOOLEAN]
EntryVersions == [rv : Nat, owner : Nat]
WorkerStates ==
  [pc : {"idle", "addFinalizer", "fetch", "annotate", "create", "clean", "unannotate", "cleanPods", "removeFinalizer"},
   copy : OptimizerVersions, ep : EndpointsVersions, next : Nat, made : Reports]

Versions(o) == o.watch \cup {o.stored, o.cached}

\* The types of the state.
TypeOK ==
  /\ Versions(optimizer) \subseteq OptimizerVersions
  /\ Versions(endpoints) \subseteq EndpointsVersions
  /\ DOMAIN entries = Numbers
  /\ \A n \in Numbers : Versions(entries[n]) \subseteq EntryVersions
  /\ service \in BOOLEAN /\ queue \in BOOLEAN
  /\ worker \in WorkerStates
  /\ uids \in 0..MaxOptimizers /\ faults \in 0..MaxFaults

(***************************************************************************)
(* Safety.                                                                 *)
(***************************************************************************)
\* Whatever the reconciler leaves in the cluster, an annotation or a ServiceEntry,
\* it leaves for an optimizer that is stored with the finalizer that has it
\* cleaned up, although it decided so on a cached copy that may be stale by then:
\* addFinalizer's Update is the guard, and only its own clean-up undoes it.
NothingWithoutFinalizer ==
  [][/\ ~endpoints.stored.annotated /\ endpoints'.stored.annotated => optimizer.stored.finalizer
     /\ \A n \in Numbers :
          Owned(entries'[n].stored) /\ entries'[n].stored # entries[n].stored =>
            optimizer.stored.finalizer /\ entries'[n].stored.owner = optimizer.stored.uid
    ]_<<endpoints, entries, optimizer>>

\* Nothing is left that would make the reconciler work on the optimizer, but for
\* the resync.
AtRest == ~queue /\ worker.pc = "idle" /\ optimizer.watch = {}

\* "Return with error to requeue": whatever call failed or conflicted, and whenever
\* the manager was restarted, the reconciler comes to rest only when no deleted
\* optimizer waits for its clean-up, the present one has its finalizer and, if it
\* lists ports, its Endpoints has the annotation.  (A service that went stays away
\* here; the Endpoints of one created anew has no annotation until the resync.)
ServedAtRest ==
  AtRest /\ Present(optimizer.stored) =>
    /\ ~optimizer.stored.deleting
    /\ optimizer.stored.finalizer
    /\ Annotates /\ endpoints.stored.exists => endpoints.stored.annotated

(***************************************************************************)
(* The inductive invariant: what a cached version of the optimizer, and    *)
(* the worker's copy of one, still tell about the stored optimizer.        *)
(***************************************************************************)
Holds(uid) == optimizer.stored.uid = uid /\ optimizer.stored.finalizer

\* The clean-up saw the optimizer deleted, so no version from before is cached
\* or under way when it takes the finalizer.
Held ==
  \A v \in optimizer.watch \cup {optimizer.cached} :
    Present(v) /\ v.finalizer /\ ~v.deleting => Holds(v.uid)

WorkerCopy ==
  worker.pc # "idle" =>
    /\ Present(worker.copy)
    /\ worker.copy.rv <= optimizer.stored.rv
    /\ worker.copy.rv = optimizer.stored.rv => worker.copy = optimizer.stored

WorkerHolds == worker.pc \in {"fetch", "annotate", "create"} => Holds(worker.copy.uid)

WorkerCleans ==
  worker.pc \in {"clean", "unannotate", "cleanPods", "removeFinalizer"} =>
    worker.copy.deleting /\ worker.copy.rv <= optimizer.cached.rv

\* While the reconciler works on an optimizer, that very optimizer is stored with
\* its finalizer, and when it takes the finalizer no copy without it is left.
LifecycleInv ==
  TypeOK /\ Coherent(optimizer) /\ Held /\ WorkerCopy /\ WorkerHolds /\ WorkerCleans

\* The stored optimizer is cached or on its way there.
Arriving == optimizer.stored \in optimizer.watch \cup {optimizer.cached}

\* The annotation this reconcile made stays until it ends: nothing but this
\* reconciler's clean-up takes it away.
AnnotationStays ==
  worker.pc = "create" /\ Annotates => endpoints.stored.annotated \/ ~endpoints.stored.exists

\* What it works for is not being deleted, as far as its copy tells.
WorkerServes ==
  worker.pc \in {"addFinalizer", "fetch", "annotate", "create"} => ~worker.copy.deleting

\* What ServedAtRest needs beside LifecycleInv.
RestInv == ServedAtRest /\ Arriving /\ AnnotationStays /\ WorkerServes

Serving ==
  /\ Present(optimizer.stored) /\ ~optimizer.stored.deleting
  /\ service /\ endpoints.stored.exists

(***************************************************************************)
(* Liveness.                                                               *)
(***************************************************************************)
\* A deleted optimizer goes, as long as its service stays: a conflict or a failed
\* call only sends handleFinalizer round again.
DeletionCompletes == optimizer.stored.deleting ~> (~optimizer.stored.deleting \/ ~service)

\* handleFinalizer's "requeue and try cleanup again": a deleted optimizer goes.
DeletionNeverHangs == optimizer.stored.deleting ~> ~optimizer.stored.deleting

\* Every port to process gets a ServiceEntry of the present optimizer, and the
\* status names these entries and no others, whatever Create failed and whatever
\* entry of an earlier optimizer createServiceEntry took for its own.
EntriesSettle ==
  <>[](Serving =>
         LET numbers == {PortsToProcess[i].number : i \in DOMAIN PortsToProcess}
         IN  /\ \A n \in numbers : entries[n].stored.owner = optimizer.stored.uid
             /\ optimizer.stored.status = {[number |-> n, owner |-> optimizer.stored.uid] : n \in numbers})
=============================================================================
