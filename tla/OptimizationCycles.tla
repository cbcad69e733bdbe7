------------------------- MODULE OptimizationCycles -------------------------
(***************************************************************************)
(* The loop of the WeightOptimizerReconciler over the ports of an          *)
(* optimizer, cycle after cycle, while optimizers and service entries come *)
(* and go:                                                                 *)
(*                                                                         *)
(*   idle -> (port -> ensure -> update)* -> idle                           *)
(*                                                                         *)
(* Between port and ensure it waits for the metrics.  What a cycle         *)
(* computes for a port is module WeightOptimizer's; here a WeightOptimizer *)
(* is optimized, when it holds weights made from metrics, or it is not.    *)
(* An Update that leaves it so makes no new version.                       *)
(***************************************************************************)
EXTENDS Sequences, CachedObject

CONSTANTS
  Ports,          \* the port numbers of the optimizer's ServicePorts, a sequence
  MaxOptimizers,  \* bound: optimizers created; the last of them stays
  MaxFaults       \* bound: restarts, calls that fail, changes of the service
                  \* entries, collections before the cache knows

Numbers == {Ports[i] : i \in DOMAIN Ports}

ASSUME CyclesAssumption ==
  /\ MaxOptimizers \in Nat
  /\ MaxFaults \in Nat

VARIABLES
  \* Objects.  A version of the optimizer is [rv, uid, deleting], of a
  \* WeightOptimizer [rv, exists, owner, optimized].  uid = 0 stands for an optimizer
  \* that is not there; a deletion is a version of its own.
  optimizer, weightOptimizers,
  entries,       \* ports whose ServiceEntry the cache has, with endpoints
  queue,         \* the optimizer is in the work queue, or its RequeueAfter runs
  worker,        \* [pc, uid, next, fallback, wo]
  uids,          \* how many optimizers have been created
  faults

vars == <<optimizer, weightOptimizers, entries, queue, worker, uids, faults>>

-----------------------------------------------------------------------------
NoOptimizer == [rv |-> 0, uid |-> 0, deleting |-> FALSE]
NoWeightOptimizer == [rv |-> 0, exists |-> FALSE, owner |-> 0, optimized |-> FALSE]

Present(v) == v.uid # 0

Idle == [pc |-> "idle", uid |-> 0, next |-> 1, fallback |-> FALSE, wo |-> NoWeightOptimizer]

\* The API server's next version of the optimizer, and of the WeightOptimizer of port n.
PutOptimizer(v) == optimizer' = Write(optimizer, [v EXCEPT !.rv = optimizer.stored.rv + 1])

PutWeightOptimizer(n, v) ==
  weightOptimizers' =
    [weightOptimizers EXCEPT ![n] = Write(@, [v EXCEPT !.rv = weightOptimizers[n].stored.rv + 1])]

-----------------------------------------------------------------------------
Init ==
  /\ optimizer = Cached(NoOptimizer)
  /\ weightOptimizers = [n \in Numbers |-> Cached(NoWeightOptimizer)]
  /\ entries \in SUBSET Numbers
  /\ queue = FALSE
  /\ worker = Idle
  /\ uids = 0
  /\ faults = 0

\* What MaxFaults bounds.
Fault == faults < MaxFaults /\ faults' = faults + 1

-----------------------------------------------------------------------------
(* Users, the other reconcilers and the control plane.                     *)

CreateOptimizer ==
  /\ ~Present(optimizer.stored)
  /\ uids < MaxOptimizers
  /\ uids' = uids + 1
  /\ PutOptimizer([NoOptimizer EXCEPT !.uid = uids + 1])
  /\ UNCHANGED <<weightOptimizers, entries, queue, worker, faults>>

\* A user deletes it; it stays until its finalizer is gone.
MarkDeleted ==
  /\ Present(optimizer.stored)
  /\ ~optimizer.stored.deleting
  /\ uids < MaxOptimizers
  /\ PutOptimizer([optimizer.stored EXCEPT !.deleting = TRUE])
  /\ UNCHANGED <<weightOptimizers, entries, queue, worker, uids, faults>>

RemoveOptimizer ==
  /\ optimizer.stored.deleting
  /\ PutOptimizer(NoOptimizer)
  /\ UNCHANGED <<weightOptimizers, entries, queue, worker, uids, faults>>

\* A ServiceEntry is made while the loop runs, or finds pods again.
CreateServiceEntry(n) ==
  /\ Fault
  /\ n \notin entries
  /\ entries' = entries \cup {n}
  /\ UNCHANGED <<optimizer, weightOptimizers, queue, worker, uids>>

\* The last pod of a ServiceEntry goes, or the garbage collector takes it.
EmptyServiceEntry(n) ==
  /\ Fault
  /\ n \in entries
  /\ entries' = entries \ {n}
  /\ UNCHANGED <<optimizer, weightOptimizers, queue, worker, uids>>

\* The garbage collector finds the owner gone, or replaced by another of its name.
CollectWeightOptimizer(n) ==
  /\ weightOptimizers[n].stored.owner \notin {0, optimizer.stored.uid}
  /\ PutWeightOptimizer(n, NoWeightOptimizer)
  /\ \/ weightOptimizers[n].stored.owner # optimizer.cached.uid /\ UNCHANGED faults
     \/ weightOptimizers[n].stored.owner = optimizer.cached.uid /\ Fault
  /\ UNCHANGED <<optimizer, entries, queue, worker, uids>>

-----------------------------------------------------------------------------
(* The informers.  Their resync asks for no cycle that NeverForgotten does *)
(* not promise already.                                                    *)

\* The event filter lets no deletion pass.
DeliverOptimizer ==
  /\ \E v \in optimizer.watch :
       /\ optimizer' = Deliver(optimizer, v)
       /\ queue' = (queue \/ Present(v))
  /\ UNCHANGED <<weightOptimizers, entries, worker, uids, faults>>

DeliverWeightOptimizer(n) ==
  /\ \E v \in weightOptimizers[n].watch :
       weightOptimizers' = [weightOptimizers EXCEPT ![n] = Deliver(@, v)]
  /\ UNCHANGED <<optimizer, entries, queue, worker, uids, faults>>

\* Timers, queue and worker live in the process.
Restart ==
  /\ Fault
  /\ optimizer' = Relist(optimizer)
  /\ weightOptimizers' = [n \in Numbers |-> Relist(weightOptimizers[n])]
  /\ queue' = Present(optimizer.stored)
  /\ worker' = Idle
  /\ UNCHANGED <<entries, uids>>

-----------------------------------------------------------------------------
(* WeightOptimizerReconciler.Reconcile.                                    *)

\* A variant that requeues nothing.
EndCycleForgotten == worker' = Idle /\ UNCHANGED queue

\* An error, or RequeueAfter when the last port is done: another cycle follows.
EndCycle == worker' = Idle /\ queue' = TRUE

NextPort ==
  /\ worker' = [Idle EXCEPT !.pc = "port", !.uid = worker.uid, !.next = worker.next + 1]
  /\ UNCHANGED queue

\* No cycle, and none asked for, for an optimizer that is gone or going.
StartCycle ==
  /\ worker.pc = "idle"
  /\ queue
  /\ queue' = FALSE
  /\ worker' = IF Present(optimizer.cached) /\ ~optimizer.cached.deleting
               THEN [Idle EXCEPT !.pc = "port", !.uid = optimizer.cached.uid]
               ELSE Idle
  /\ UNCHANGED <<optimizer, weightOptimizers, entries, uids, faults>>

FinishCycle ==
  /\ worker.pc = "port"
  /\ worker.next \notin DOMAIN Ports
  /\ EndCycle
  /\ UNCHANGED <<optimizer, weightOptimizers, entries, uids, faults>>

\* A variant that breaks out of the loop.
WithoutServiceEntryBroken == EndCycle

\* A port without a ServiceEntry, or with an empty one, is left out.
WithoutServiceEntry == NextPort

Ensure(fallback) == worker' = [worker EXCEPT !.pc = "ensure", !.fallback = fallback] /\ UNCHANGED queue

\* The ServiceEntry, the pods and the metrics of the next port.  Without pods the
\* cycle ends, without an answer the fallback is tried, and readings of no listed
\* pod leave the port out.
FetchServiceEntry ==
  /\ worker.pc = "port"
  /\ worker.next \in DOMAIN Ports
  /\ \/ Ports[worker.next] \notin entries /\ WithoutServiceEntry /\ UNCHANGED faults
     \/ Ports[worker.next] \in entries /\ Ensure(FALSE) /\ UNCHANGED faults
     \/ Ports[worker.next] \in entries /\ Fault /\ (EndCycle \/ Ensure(TRUE) \/ NextPort)
  /\ UNCHANGED <<optimizer, weightOptimizers, entries, uids>>

\* A variant whose owner reference is left out.
OwnerForgotten == 0

\* The optimizer fetched at the start of the cycle.
OwnerReference == worker.uid

\* The WeightOptimizer whose weights are computed next.
Ensured(copy) == worker' = [worker EXCEPT !.pc = "update", !.wo = copy] /\ UNCHANGED queue

\* ensureWeightOptimizer for port n, and shouldSkipFallback: a new object is
\* recent, any other may be.
EnsureWeightOptimizer(n) ==
  /\ worker.pc = "ensure"
  /\ n = Ports[worker.next]
  /\ LET wo == weightOptimizers[n]
         made == [NoWeightOptimizer EXCEPT !.exists = TRUE, !.owner = OwnerReference]
     IN  \/ /\ wo.cached.exists
            /\ Ensured(wo.cached) \/ (worker.fallback /\ NextPort)
            /\ UNCHANGED <<weightOptimizers, faults>>
         \/ /\ ~wo.cached.exists /\ ~wo.stored.exists
            /\ PutWeightOptimizer(n, made)
            /\ IF worker.fallback THEN NextPort ELSE Ensured(weightOptimizers'[n].stored)
            /\ UNCHANGED faults
         \/ /\ ~wo.cached.exists
            /\ (wo.stored.exists /\ UNCHANGED faults) \/ Fault
            /\ EndCycle
            /\ UNCHANGED weightOptimizers
  /\ UNCHANGED <<optimizer, entries, uids>>

\* A variant whose Update carries no resourceVersion.
UpdateAcceptedUnversioned(n) == TRUE

UpdateAccepted(n) == Accepts(weightOptimizers[n], worker.wo)

\* The Update of the new weights, or the one of resetWeights.
UpdateWeightOptimizer(n) ==
  /\ worker.pc = "update"
  /\ n = Ports[worker.next]
  /\ \/ /\ UpdateAccepted(n)
        /\ IF weightOptimizers[n].stored.optimized = ~worker.fallback THEN UNCHANGED weightOptimizers
           ELSE PutWeightOptimizer(n, [worker.wo EXCEPT !.optimized = ~worker.fallback])
        /\ NextPort
        /\ UNCHANGED faults
     \/ /\ (~UpdateAccepted(n) /\ UNCHANGED faults) \/ Fault
        /\ EndCycle
        /\ UNCHANGED weightOptimizers
  /\ UNCHANGED <<optimizer, entries, uids>>

-----------------------------------------------------------------------------
Entries == \E n \in Numbers : CreateServiceEntry(n) \/ EmptyServiceEntry(n)

Users == CreateOptimizer \/ MarkDeleted \/ RemoveOptimizer \/ Entries

Collect == \E n \in Numbers : CollectWeightOptimizer(n)

Informers == DeliverOptimizer \/ \E n \in Numbers : DeliverWeightOptimizer(n)

Reconcile ==
  \/ StartCycle \/ FinishCycle \/ FetchServiceEntry
  \/ \E n \in Numbers : EnsureWeightOptimizer(n) \/ UpdateWeightOptimizer(n)

Next == Users \/ Collect \/ Informers \/ Restart \/ Reconcile

Spec == Init /\ [][Next]_vars

\* The watches deliver, the garbage collector works and the worker goroutine takes
\* its next step.  Users, restarts and faults are left free.
Fairness == WF_vars(Informers) /\ WF_vars(Collect) /\ WF_vars(Reconcile)

FairSpec == Spec /\ Fairness

-----------------------------------------------------------------------------
OptimizerVersions == [rv : Nat, uid : Nat, deleting : BOOLEAN]
WeightOptimizerVersions == [rv : Nat, exists : BOOLEAN, owner : Nat, optimized : BOOLEAN]
WorkerStates ==
  [pc : {"idle", "port", "ensure", "update"}, uid : Nat, next : Nat, fallback : BOOLEAN,
   wo : WeightOptimizerVersions]

Versions(o) == o.watch \cup {o.stored, o.cached}

\* The types of the state.
TypeOK ==
  /\ Versions(optimizer) \subseteq OptimizerVersions
  /\ DOMAIN weightOptimizers = Numbers
  /\ \A n \in Numbers : Versions(weightOptimizers[n]) \subseteq WeightOptimizerVersions
  /\ entries \subseteq Numbers
  /\ queue \in BOOLEAN
  /\ worker \in WorkerStates
  /\ uids \in 0..MaxOptimizers /\ faults \in 0..MaxFaults

(***************************************************************************)
(* Safety.                                                                 *)
(***************************************************************************)
\* However a cycle ends, and whatever event the filter dropped, an optimizer that
\* the cache shows is being worked on or has its next cycle coming.
NeverForgotten ==
  worker.pc = "idle" /\ Present(optimizer.cached) /\ ~optimizer.cached.deleting => queue

\* Weights outlive no owner: an Update from a copy of a WeightOptimizer that was
\* collected meanwhile does not bring it back, nor does one move it to another owner.
CollectedStaysCollected ==
  [][\A n \in Numbers :
       LET old == weightOptimizers[n].stored
           new == weightOptimizers'[n].stored
       IN  new # old /\ new.exists => IF old.exists THEN new.owner = old.owner ELSE ~new.optimized
    ]_weightOptimizers

\* What is at most as new as the stored version and, at its rv, is it.
CopyOf(v, o) == v.rv <= o.stored.rv /\ (v.rv = o.stored.rv => v = o.stored)

\* Where the worker is, and that its copy of a WeightOptimizer was one that existed.
WorkerCopy ==
  /\ worker.pc \in {"ensure", "update"} => worker.next \in DOMAIN Ports
  /\ worker.pc = "update" => worker.wo.exists /\ CopyOf(worker.wo, weightOptimizers[Ports[worker.next]])

\* The inductive invariant of the loop.
LoopInv ==
  /\ TypeOK
  /\ \A n \in Numbers : Coherent(weightOptimizers[n])
  /\ NeverForgotten
  /\ WorkerCopy

(***************************************************************************)
(* Liveness.                                                               *)
(***************************************************************************)
Serving == Present(optimizer.stored) /\ ~optimizer.stored.deleting

\* Every port with a ServiceEntry gets weights made from metrics, whichever other
\* ports have none, and whatever failed or conflicted on a port before it.
EveryPortOptimized == <>[](Serving => \A n \in entries : weightOptimizers[n].stored.optimized)

\* A cycle under way when its optimizer goes creates WeightOptimizers for it all
\* the same; in the end none is left without the present optimizer as its owner.
LeftoversCollected ==
  <>[](\A n \in Numbers :
         weightOptimizers[n].stored.exists => weightOptimizers[n].stored.owner = optimizer.stored.uid)
=============================================================================
