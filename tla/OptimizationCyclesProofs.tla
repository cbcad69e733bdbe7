---------------------- MODULE OptimizationCyclesProofs ----------------------
(***************************************************************************)
(* Theorems of OptimizationCycles for every list of ports and every bound. *)
(***************************************************************************)
EXTENDS OptimizationCycles, CachedObjectProofs

\* The versions that stand for an object that is not there.
LEMMA Absent ==
  /\ NoOptimizer \in OptimizerVersions /\ NoOptimizer.uid = 0
  /\ NoWeightOptimizer \in WeightOptimizerVersions
  /\ ~NoWeightOptimizer.exists /\ ~NoWeightOptimizer.optimized
BY DEF NoOptimizer, NoWeightOptimizer, OptimizerVersions, WeightOptimizerVersions

LEMMA IdleTyped == Idle \in WorkerStates /\ Idle.pc = "idle"
BY Absent DEF Idle, WorkerStates

\* The weight optimizers of a state: their types, and caches that are coherent.
Stocked ==
  /\ DOMAIN weightOptimizers = Numbers
  /\ \A n \in Numbers :
       Versions(weightOptimizers[n]) \subseteq WeightOptimizerVersions /\ Coherent(weightOptimizers[n])

\* A step leaves the stored version of port n or stores a later one.
Later(n) ==
  \/ weightOptimizers'[n].stored = weightOptimizers[n].stored
  \/ weightOptimizers'[n].stored.rv > weightOptimizers[n].stored.rv

\* A write of port n stores v under a later resourceVersion.
LEMMA PutStores ==
  ASSUME Stocked, NEW n \in Numbers, NEW v \in WeightOptimizerVersions, PutWeightOptimizer(n, v)
  PROVE  /\ Stocked'
         /\ \A m \in Numbers : Later(m)
         /\ \A m \in Numbers \ {n} : weightOptimizers'[m] = weightOptimizers[m]
         /\ weightOptimizers'[n].stored = [v EXCEPT !.rv = weightOptimizers[n].stored.rv + 1]
<1>. DEFINE w == [v EXCEPT !.rv = weightOptimizers[n].stored.rv + 1]
<1>1. weightOptimizers[n].stored.rv \in Nat /\ Numbered(weightOptimizers[n])
  BY DEF Stocked, Versions, WeightOptimizerVersions, Numbered
<1>2. w \in WeightOptimizerVersions /\ w.rv = weightOptimizers[n].stored.rv + 1
  BY <1>1 DEF WeightOptimizerVersions
<1>3. weightOptimizers' = [weightOptimizers EXCEPT ![n] = Write(weightOptimizers[n], w)]
  BY DEF PutWeightOptimizer
<1>. HIDE DEF w
<1>4. Coherent(Write(weightOptimizers[n], w))
  BY <1>1, <1>2, WriteCoherent DEF Stocked
<1>5. Versions(Write(weightOptimizers[n], w)) \subseteq WeightOptimizerVersions
  BY <1>2 DEF Stocked, Versions, Write
<1>6. /\ weightOptimizers'[n] = Write(weightOptimizers[n], w)
      /\ \A m \in Numbers \ {n} : weightOptimizers'[m] = weightOptimizers[m]
      /\ DOMAIN weightOptimizers' = Numbers
  BY <1>3 DEF Stocked
<1>7. Stocked'
  BY <1>4, <1>5, <1>6 DEF Stocked, Versions, Coherent
<1>8. weightOptimizers'[n].stored = w
  BY <1>6 DEF Write
<1>9. \A m \in Numbers : Later(m)
  BY <1>1, <1>2, <1>6, <1>8 DEF Later
<1>. QED BY <1>6, <1>7, <1>8, <1>9 DEF w

\* Deliveries and a restart store nothing.
LEMMA CachesOnly ==
  ASSUME Stocked, Restart \/ \E n \in Numbers : DeliverWeightOptimizer(n)
  PROVE  Stocked' /\ \A n \in Numbers : weightOptimizers'[n].stored = weightOptimizers[n].stored
<1>1. \A n \in Numbers : Numbered(weightOptimizers[n])
  BY DEF Stocked, Versions, WeightOptimizerVersions, Numbered
<1>2. CASE Restart
  <2>1. weightOptimizers' = [n \in Numbers |-> Relist(weightOptimizers[n])]
    BY <1>2 DEF Restart
  <2>2. ASSUME NEW n \in Numbers
        PROVE  /\ weightOptimizers'[n] = Relist(weightOptimizers[n])
               /\ Coherent(Relist(weightOptimizers[n]))
               /\ Versions(Relist(weightOptimizers[n])) \subseteq WeightOptimizerVersions
               /\ Relist(weightOptimizers[n]).stored = weightOptimizers[n].stored
    <3>1. Coherent(Relist(weightOptimizers[n]))
      BY <1>1, RelistCoherent
    <3>. QED BY <2>1, <3>1 DEF Stocked, Versions, Relist, Cached
  <2>. QED BY <2>1, <2>2 DEF Stocked, Versions, Coherent
<1>3. ASSUME NEW n \in Numbers, DeliverWeightOptimizer(n)
      PROVE  Stocked' /\ \A m \in Numbers : weightOptimizers'[m].stored = weightOptimizers[m].stored
  <2>1. PICK v \in weightOptimizers[n].watch :
          weightOptimizers' = [weightOptimizers EXCEPT ![n] = Deliver(weightOptimizers[n], v)]
    BY <1>3 DEF DeliverWeightOptimizer
  <2>2. Coherent(Deliver(weightOptimizers[n], v))
    BY <1>1, DeliverCoherent DEF Stocked
  <2>3. /\ Versions(Deliver(weightOptimizers[n], v)) \subseteq WeightOptimizerVersions
        /\ Deliver(weightOptimizers[n], v).stored = weightOptimizers[n].stored
    BY DEF Stocked, Versions, Deliver
  <2>. QED BY <2>1, <2>2, <2>3 DEF Stocked, Versions, Coherent
<1>. QED BY <1>2, <1>3

LEMMA LoopIsStocked ==
  ASSUME LoopInv
  PROVE  Stocked
BY DEF LoopInv, TypeOK, Stocked

\* What an accepted Update writes over is the copy it was computed from.
LEMMA AcceptedCopy ==
  ASSUME LoopInv, NEW n \in Numbers, worker.pc = "update", n = Ports[worker.next], UpdateAccepted(n)
  PROVE  worker.wo = weightOptimizers[n].stored /\ worker.wo.exists
BY DEF LoopInv, WorkerCopy, CopyOf, UpdateAccepted, Accepts

\* What a step of the worker may store for port n: the first version of an object,
\* without weights, or another version of the one that is there.
Stores(n) ==
  \/ weightOptimizers' = weightOptimizers
  \/ \E v \in WeightOptimizerVersions :
       /\ PutWeightOptimizer(n, v)
       /\ v.exists
       /\ \/ ~weightOptimizers[n].stored.exists /\ ~v.optimized
          \/ weightOptimizers[n].stored.exists /\ v.owner = weightOptimizers[n].stored.owner

LEMMA EnsureStores ==
  ASSUME LoopInv, NEW n \in Numbers, EnsureWeightOptimizer(n)
  PROVE  Stores(n)
<1>. DEFINE made == [NoWeightOptimizer EXCEPT !.exists = TRUE, !.owner = OwnerReference]
<1>1. made \in WeightOptimizerVersions /\ made.exists /\ ~made.optimized
  BY Absent DEF LoopInv, TypeOK, WorkerStates, OwnerReference, WeightOptimizerVersions
<1>2. \/ weightOptimizers' = weightOptimizers
      \/ ~weightOptimizers[n].stored.exists /\ PutWeightOptimizer(n, made)
  BY DEF EnsureWeightOptimizer
<1>. HIDE DEF made
<1>. QED BY <1>1, <1>2 DEF Stores

LEMMA UpdateStores ==
  ASSUME LoopInv, NEW n \in Numbers, UpdateWeightOptimizer(n)
  PROVE  Stores(n)
<1>. DEFINE v == [worker.wo EXCEPT !.optimized = ~worker.fallback]
<1>1. v \in WeightOptimizerVersions /\ v.exists = worker.wo.exists /\ v.owner = worker.wo.owner
  BY DEF LoopInv, TypeOK, WorkerStates, WeightOptimizerVersions
<1>2. weightOptimizers' = weightOptimizers \/ (UpdateAccepted(n) /\ PutWeightOptimizer(n, v))
  BY DEF UpdateWeightOptimizer
<1>3. worker.pc = "update" /\ n = Ports[worker.next]
  BY DEF UpdateWeightOptimizer
<1>. HIDE DEF v
<1>. QED BY <1>1, <1>2, <1>3, AcceptedCopy DEF Stores

\* What any step does to the weight optimizers.
LEMMA WeightOptimizerSteps ==
  ASSUME LoopInv, [Next]_vars
  PROVE  /\ Stocked'
         /\ \A n \in Numbers : Later(n)
<1>. USE LoopIsStocked
<1>1. CASE UNCHANGED weightOptimizers
  BY <1>1 DEF Stocked, Versions, Coherent, Later
<1>2. CASE Restart \/ \E n \in Numbers : DeliverWeightOptimizer(n)
  BY <1>2, CachesOnly DEF Later
<1>3. ASSUME NEW n \in Numbers, CollectWeightOptimizer(n)
      PROVE  Stocked' /\ \A m \in Numbers : Later(m)
  BY <1>3, Absent, PutStores DEF CollectWeightOptimizer
<1>4. ASSUME NEW n \in Numbers, EnsureWeightOptimizer(n) \/ UpdateWeightOptimizer(n)
      PROVE  Stocked' /\ \A m \in Numbers : Later(m)
  <2>1. Stores(n)
    BY <1>4, EnsureStores, UpdateStores
  <2>2. CASE weightOptimizers' = weightOptimizers
    BY <1>1, <2>2
  <2>3. CASE \E v \in WeightOptimizerVersions : PutWeightOptimizer(n, v)
    BY <2>3, PutStores
  <2>. QED BY <2>1, <2>2, <2>3 DEF Stores
<1>. QED
  BY <1>1, <1>2, <1>3, <1>4 DEF Next, Users, Collect, Informers, Reconcile, vars, CreateOptimizer, MarkDeleted,
     RemoveOptimizer, Entries, CreateServiceEntry, EmptyServiceEntry, DeliverOptimizer, StartCycle, FinishCycle, FetchServiceEntry

\* What any step does to the optimizer.
LEMMA OptimizerSteps ==
  ASSUME LoopInv, [Next]_vars
  PROVE  Versions(optimizer') \subseteq OptimizerVersions
<1>. USE DEF LoopInv, TypeOK
<1>1. ASSUME NEW v \in OptimizerVersions, PutOptimizer(v)
      PROVE  Versions(optimizer') \subseteq OptimizerVersions
  BY <1>1 DEF PutOptimizer, Write, Versions, OptimizerVersions
<1>2. CASE CreateOptimizer
  <2>1. [NoOptimizer EXCEPT !.uid = uids + 1] \in OptimizerVersions
    BY Absent, CyclesAssumption DEF OptimizerVersions
  <2>. QED BY <1>1, <1>2, <2>1 DEF CreateOptimizer
<1>3. CASE MarkDeleted
  <2>1. [optimizer.stored EXCEPT !.deleting = TRUE] \in OptimizerVersions
    BY DEF Versions, OptimizerVersions
  <2>. QED BY <1>1, <1>3, <2>1 DEF MarkDeleted
<1>4. CASE RemoveOptimizer
  BY <1>1, <1>4, Absent DEF RemoveOptimizer
<1>5. CASE DeliverOptimizer \/ Restart
  BY <1>5 DEF DeliverOptimizer, Restart, Deliver, Relist, Cached, Versions
<1>6. CASE UNCHANGED optimizer
  BY <1>6 DEF Versions
<1>. QED
  BY <1>2, <1>3, <1>4, <1>5, <1>6 DEF Next, Users, Collect, Informers, Reconcile, vars, Entries, CreateServiceEntry, EmptyServiceEntry,
     CollectWeightOptimizer, DeliverWeightOptimizer, StartCycle, FinishCycle, FetchServiceEntry,
     EnsureWeightOptimizer, UpdateWeightOptimizer

\* The worker goes idle, goes to the next port, or works on the one it has.
LEMMA WorkerSteps ==
  ASSUME LoopInv, Reconcile
  PROVE  /\ worker' \in WorkerStates /\ queue' \in BOOLEAN
         /\ uids' = uids /\ faults' \in 0..MaxFaults /\ entries' = entries
         /\ UNCHANGED optimizer
         /\ worker'.pc = "idle" => queue' \/ ~Present(optimizer.cached) \/ optimizer.cached.deleting
         /\ worker'.pc = "ensure" => worker'.next \in DOMAIN Ports
         /\ worker'.pc # "update" \/ (worker'.next \in DOMAIN Ports /\ worker'.wo.exists)
<1>. USE IdleTyped DEF LoopInv, TypeOK
<1>1. /\ worker \in WorkerStates /\ worker.next \in Nat /\ faults \in Nat
      /\ [worker EXCEPT !.pc = "ensure", !.fallback = TRUE] \in WorkerStates
      /\ [worker EXCEPT !.pc = "ensure", !.fallback = FALSE] \in WorkerStates
      /\ [Idle EXCEPT !.pc = "port", !.uid = worker.uid, !.next = worker.next + 1] \in WorkerStates
  <2>1. worker \in WorkerStates /\ faults \in Nat
    BY CyclesAssumption
  <2>2. worker.next \in Nat /\ worker.uid \in Nat
    BY <2>1 DEF WorkerStates
  <2>3. [Idle EXCEPT !.pc = "port", !.uid = worker.uid, !.next = worker.next + 1] \in WorkerStates
    <3>. DEFINE k == worker.next + 1
    <3>1. k \in Nat
      BY <2>2
    <3>. HIDE DEF k
    <3>2. [Idle EXCEPT !.pc = "port", !.uid = worker.uid, !.next = k] \in WorkerStates
      BY <2>2, <3>1 DEF WorkerStates
    <3>. QED BY <3>2 DEF k
  <2>4. /\ [worker EXCEPT !.pc = "ensure", !.fallback = TRUE] \in WorkerStates
        /\ [worker EXCEPT !.pc = "ensure", !.fallback = FALSE] \in WorkerStates
    BY <2>1 DEF WorkerStates
  <2>. QED BY <2>1, <2>2, <2>3, <2>4
<1>2. Fault \/ UNCHANGED faults => faults' \in 0..MaxFaults
  BY <1>1, CyclesAssumption DEF Fault
<1>3. CASE EndCycle /\ (Fault \/ UNCHANGED faults) /\ UNCHANGED <<optimizer, entries, uids>>
  BY <1>2, <1>3 DEF EndCycle
<1>4. CASE NextPort /\ (Fault \/ UNCHANGED faults) /\ UNCHANGED <<optimizer, entries, uids>>
  <2>1. worker'.pc = "port"
    BY <1>4 DEF NextPort, Idle
  <2>. QED BY <1>1, <1>2, <1>4, <2>1 DEF NextPort
<1>5. CASE StartCycle
  <2>1. optimizer.cached.uid \in Nat
    BY DEF Versions, OptimizerVersions
  <2>2. /\ [Idle EXCEPT !.pc = "port", !.uid = optimizer.cached.uid] \in WorkerStates
        /\ [Idle EXCEPT !.pc = "port", !.uid = optimizer.cached.uid].pc = "port"
    BY <2>1 DEF WorkerStates
  <2>. QED BY <1>5, <2>2 DEF StartCycle
<1>6. CASE FinishCycle
  BY <1>3, <1>6 DEF FinishCycle
<1>7. CASE FetchServiceEntry
  <2>1. CASE (\E fallback \in BOOLEAN : Ensure(fallback)) /\ (Fault \/ UNCHANGED faults)
    <3>1. PICK fallback \in BOOLEAN : Ensure(fallback)
      BY <2>1
    <3>2. /\ worker'.pc = "ensure" /\ worker'.next = worker.next /\ worker' \in WorkerStates
          /\ queue' = queue
      BY <1>1, <3>1 DEF Ensure, WorkerStates
    <3>. QED BY <1>2, <1>7, <2>1, <3>2 DEF FetchServiceEntry
  <2>. QED BY <1>3, <1>4, <1>7, <2>1 DEF FetchServiceEntry, WithoutServiceEntry
<1>8. ASSUME NEW v \in WeightOptimizerVersions, v.exists, Ensured(v), worker.next \in DOMAIN Ports
      PROVE  /\ worker' \in WorkerStates /\ queue' = queue
             /\ worker'.pc = "update" /\ worker'.next \in DOMAIN Ports /\ worker'.wo.exists
  BY <1>8 DEF Ensured, WorkerStates
<1>9. ASSUME NEW n \in Numbers, EnsureWeightOptimizer(n)
      PROVE  /\ (Fault \/ UNCHANGED faults) /\ UNCHANGED <<optimizer, entries, uids>>
             /\ \/ EndCycle
                \/ NextPort
                \/ \E v \in WeightOptimizerVersions : v.exists /\ Ensured(v)
  <2>. DEFINE made == [NoWeightOptimizer EXCEPT !.exists = TRUE, !.owner = OwnerReference]
  <2>1. made \in WeightOptimizerVersions /\ made.exists
    BY Absent DEF WorkerStates, OwnerReference, WeightOptimizerVersions
  <2>2. weightOptimizers[n].cached \in WeightOptimizerVersions /\ weightOptimizers[n].stored.rv \in Nat
    BY DEF Versions, WeightOptimizerVersions
  <2>3. (Fault \/ UNCHANGED faults) /\ UNCHANGED <<optimizer, entries, uids>>
    BY <1>9 DEF EnsureWeightOptimizer
  <2>4. \/ EndCycle
        \/ NextPort
        \/ weightOptimizers[n].cached.exists /\ Ensured(weightOptimizers[n].cached)
        \/ PutWeightOptimizer(n, made) /\ Ensured(weightOptimizers'[n].stored)
    BY <1>9 DEF EnsureWeightOptimizer
  <2>5. ASSUME PutWeightOptimizer(n, made)
        PROVE  weightOptimizers'[n].stored \in WeightOptimizerVersions /\ weightOptimizers'[n].stored.exists
    <3>1. weightOptimizers'[n].stored = [made EXCEPT !.rv = weightOptimizers[n].stored.rv + 1]
      BY <2>1, <2>5, LoopIsStocked, PutStores
    <3>. HIDE DEF made
    <3>. QED BY <2>1, <2>2, <3>1 DEF WeightOptimizerVersions
  <2>. QED BY <2>2, <2>3, <2>4, <2>5
<1>10. ASSUME NEW n \in Numbers, UpdateWeightOptimizer(n)
       PROVE  (EndCycle \/ NextPort) /\ (Fault \/ UNCHANGED faults) /\ UNCHANGED <<optimizer, entries, uids>>
  BY <1>10 DEF UpdateWeightOptimizer
<1>11. ASSUME NEW n \in Numbers, EnsureWeightOptimizer(n)
       PROVE  worker.next \in DOMAIN Ports
  BY <1>11 DEF EnsureWeightOptimizer, WorkerCopy
<1>. QED
  <2>1. CASE \E n \in Numbers : EnsureWeightOptimizer(n)
    BY <1>2, <1>3, <1>4, <1>8, <1>9, <1>11, <2>1
  <2>2. CASE \E n \in Numbers : UpdateWeightOptimizer(n)
    BY <1>3, <1>4, <1>10, <2>2
  <2>. QED BY <1>5, <1>6, <1>7, <2>1, <2>2 DEF Reconcile

-----------------------------------------------------------------------------
LEMMA InitLoopInv ==
  ASSUME Init
  PROVE  LoopInv
<1>1. Versions(optimizer) \subseteq OptimizerVersions
  BY Absent DEF Init, Versions, Cached
<1>2. Stocked
  <2>1. NoWeightOptimizer.rv \in Nat
    BY Absent DEF WeightOptimizerVersions
  <2>2. Coherent(Cached(NoWeightOptimizer)) /\ Versions(Cached(NoWeightOptimizer)) \subseteq WeightOptimizerVersions
    BY <2>1, Absent, CachedCoherent DEF Versions, Cached
  <2>. QED BY <2>2 DEF Init, Stocked
<1>3. TypeOK
  <2>1. uids \in 0..MaxOptimizers /\ faults \in 0..MaxFaults
    BY CyclesAssumption DEF Init
  <2>2. entries \subseteq Numbers /\ queue \in BOOLEAN /\ worker \in WorkerStates
    BY IdleTyped DEF Init
  <2>. QED BY <1>1, <1>2, <2>1, <2>2 DEF TypeOK, Stocked
<1>4. NeverForgotten /\ WorkerCopy
  BY Absent, IdleTyped DEF Init, NeverForgotten, WorkerCopy, Present, Cached
<1>. QED BY <1>2, <1>3, <1>4 DEF LoopInv, Stocked

\* The steps that are none of the worker's.
LEMMA ElsewhereSteps ==
  ASSUME LoopInv, Users \/ Collect \/ Informers \/ Restart \/ UNCHANGED vars
  PROVE  /\ entries' \subseteq Numbers /\ queue' \in BOOLEAN
         /\ uids' \in 0..MaxOptimizers /\ faults' \in 0..MaxFaults
         /\ worker' = worker \/ worker' = Idle
         /\ NeverForgotten'
<1>. USE DEF LoopInv, TypeOK
<1>1. CASE Users
  <2>1. uids' \in 0..MaxOptimizers /\ faults' \in 0..MaxFaults
    BY <1>1, CyclesAssumption DEF Users, CreateOptimizer, MarkDeleted, RemoveOptimizer, Entries, CreateServiceEntry, EmptyServiceEntry, Fault
  <2>2. entries' \subseteq Numbers /\ UNCHANGED <<queue, worker>> /\ optimizer'.cached = optimizer.cached
    BY <1>1 DEF Users, CreateOptimizer, MarkDeleted, RemoveOptimizer, Entries, CreateServiceEntry, EmptyServiceEntry, PutOptimizer, Write
  <2>. QED BY <2>1, <2>2 DEF NeverForgotten, Present
<1>2. CASE Collect
  <2>1. faults' \in 0..MaxFaults /\ UNCHANGED <<optimizer, entries, queue, worker, uids>>
    BY <1>2, CyclesAssumption DEF Collect, CollectWeightOptimizer, Fault
  <2>. QED BY <2>1 DEF NeverForgotten, Present
<1>3. CASE DeliverOptimizer
  <2>1. UNCHANGED <<entries, worker, uids, faults>> /\ queue' = (queue \/ Present(optimizer'.cached))
    BY <1>3 DEF DeliverOptimizer, Deliver
  <2>2. queue' \in BOOLEAN
    BY <2>1
  <2>. QED BY <2>1, <2>2 DEF NeverForgotten, Present
<1>4. CASE \E n \in Numbers : DeliverWeightOptimizer(n)
  BY <1>4 DEF DeliverWeightOptimizer, NeverForgotten, Present
<1>5. CASE Restart
  <2>1. faults' \in 0..MaxFaults /\ UNCHANGED <<entries, uids>> /\ worker' = Idle
    BY <1>5, CyclesAssumption DEF Restart, Fault
  <2>2. queue' = Present(optimizer'.cached) /\ queue' \in BOOLEAN
    BY <1>5 DEF Restart, Relist, Cached, Present
  <2>. QED BY <2>1, <2>2 DEF NeverForgotten, Present
<1>6. CASE UNCHANGED vars
  BY <1>6 DEF vars, NeverForgotten, Present
<1>. QED BY <1>1, <1>2, <1>3, <1>4, <1>5, <1>6 DEF Informers

\* An Update is pending for the version that ensureWeightOptimizer returned.
LEMMA EnsureCopies ==
  ASSUME LoopInv, NEW n \in Numbers, EnsureWeightOptimizer(n), worker'.pc = "update"
  PROVE  /\ Ports[worker'.next] = n
         /\ \/ worker'.wo = weightOptimizers[n].cached
            \/ worker'.wo = weightOptimizers'[n].stored
<1>1. worker \in WorkerStates
  BY DEF LoopInv, TypeOK
<1>2. worker'.pc # "update" \/ Ensured(weightOptimizers[n].cached) \/ Ensured(weightOptimizers'[n].stored)
  BY IdleTyped DEF EnsureWeightOptimizer, EndCycle, NextPort, WorkerStates
<1>3. n = Ports[worker.next]
  BY DEF EnsureWeightOptimizer
<1>4. ASSUME NEW v, Ensured(v)
      PROVE  worker'.next = worker.next /\ worker'.wo = v
  BY <1>1, <1>4 DEF Ensured, WorkerStates
<1>. QED BY <1>2, <1>3, <1>4

\* A copy stays a copy while later versions are stored.
LEMMA CopiesStay ==
  ASSUME LoopInv, [Next]_vars
  PROVE  WorkerCopy'
<1>1. Stocked /\ Stocked' /\ \A n \in Numbers : Later(n)
  BY LoopIsStocked, WeightOptimizerSteps
<1>2. \A n \in Numbers :
        /\ weightOptimizers[n].stored.rv \in Nat /\ weightOptimizers'[n].stored.rv \in Nat
        /\ weightOptimizers[n].cached.rv \in Nat
  BY <1>1 DEF Stocked, Versions, WeightOptimizerVersions
<1>3. ASSUME NEW n \in Numbers, NEW v, v.rv \in Nat, CopyOf(v, weightOptimizers[n])
      PROVE  CopyOf(v, weightOptimizers'[n])
  BY <1>1, <1>2, <1>3 DEF CopyOf, Later
<1>4. worker.wo.rv \in Nat
  BY DEF LoopInv, TypeOK, WorkerStates, WeightOptimizerVersions
<1>5. CASE worker' = worker
  BY <1>3, <1>4, <1>5 DEF LoopInv, WorkerCopy, Numbers
<1>6. CASE worker' = Idle
  BY <1>6, IdleTyped DEF WorkerCopy
<1>7. CASE Reconcile
  <2>1. /\ worker'.pc = "ensure" => worker'.next \in DOMAIN Ports
        /\ worker'.pc = "update" => worker'.next \in DOMAIN Ports /\ worker'.wo.exists
    BY <1>7, WorkerSteps
  <2>2. ASSUME worker'.pc = "update"
        PROVE  \E n \in Numbers : EnsureWeightOptimizer(n)
    <3>. DEFINE Ported(uid, next) == [Idle EXCEPT !.pc = "port", !.uid = uid, !.next = next]
    <3>. DEFINE Started(uid) == [Idle EXCEPT !.pc = "port", !.uid = uid]
    <3>1. worker' # Idle
      BY <2>2, IdleTyped
    <3>2. (\A uid, next : Ported(uid, next).pc = "port") /\ \A uid : Started(uid).pc = "port"
      BY DEF Idle
    <3>3. (\A uid, next : worker' # Ported(uid, next)) /\ \A uid : worker' # Started(uid)
      <4>. HIDE DEF Ported, Started
      <4>. QED BY <2>2, <3>2
    <3>4. ~EndCycle /\ ~NextPort /\ ~StartCycle
      <4>1. ~EndCycle /\ ~NextPort
        BY <3>1, <3>3 DEF EndCycle, NextPort
      <4>2. ASSUME StartCycle
            PROVE  FALSE
        <5>1. worker' = Idle \/ worker' = Started(optimizer.cached.uid)
          BY <4>2 DEF StartCycle
        <5>. QED BY <3>1, <3>3, <5>1
      <4>. QED BY <4>1, <4>2
    <3>5. \A fallback : ~Ensure(fallback)
      BY <2>2 DEF Ensure, LoopInv, TypeOK, WorkerStates
    <3>6. ~FinishCycle /\ ~FetchServiceEntry /\ \A n \in Numbers : ~UpdateWeightOptimizer(n)
      BY <3>4, <3>5 DEF FinishCycle, FetchServiceEntry, UpdateWeightOptimizer, WithoutServiceEntry
    <3>. QED BY <1>7, <3>4, <3>6 DEF Reconcile
  <2>3. ASSUME worker'.pc = "update"
        PROVE  CopyOf(worker'.wo, weightOptimizers'[Ports[worker'.next]])
    <3>1. PICK n \in Numbers : EnsureWeightOptimizer(n)
      BY <2>2, <2>3
    <3>2. Ports[worker'.next] = n
      BY <2>3, <3>1, EnsureCopies
    <3>3. CASE worker'.wo = weightOptimizers[n].cached
      <4>1. CopyOf(weightOptimizers[n].cached, weightOptimizers[n])
        BY DEF LoopInv, Coherent, CopyOf
      <4>. QED BY <1>2, <1>3, <3>2, <3>3, <4>1
    <3>4. CASE worker'.wo = weightOptimizers'[n].stored
      BY <1>2, <3>2, <3>4 DEF CopyOf
    <3>. QED BY <2>3, <3>1, <3>3, <3>4, EnsureCopies
  <2>. QED BY <2>1, <2>3 DEF WorkerCopy
<1>. QED BY <1>5, <1>6, <1>7, ElsewhereSteps DEF Next, vars

\* Every step keeps the invariant.
LEMMA NextLoopInv ==
  ASSUME LoopInv, [Next]_vars
  PROVE  LoopInv'
<1>1. Stocked' /\ Versions(optimizer') \subseteq OptimizerVersions /\ WorkerCopy'
  BY WeightOptimizerSteps, OptimizerSteps, CopiesStay
<1>2. CASE Reconcile
  <2>1. TypeOK'
    BY <1>1, <1>2, WorkerSteps DEF TypeOK, Stocked, LoopInv
  <2>2. NeverForgotten'
    BY <1>2, WorkerSteps DEF NeverForgotten, Present
  <2>. QED BY <1>1, <2>1, <2>2 DEF LoopInv, Stocked
<1>3. CASE ~Reconcile
  <2>1. Users \/ Collect \/ Informers \/ Restart \/ UNCHANGED vars
    BY <1>3 DEF Next
  <2>2. worker' \in WorkerStates
    BY <2>1, ElsewhereSteps, IdleTyped DEF LoopInv, TypeOK
  <2>3. TypeOK'
    BY <1>1, <2>1, <2>2, ElsewhereSteps DEF TypeOK, Stocked
  <2>. QED BY <1>1, <2>1, <2>3, ElsewhereSteps DEF LoopInv, Stocked
<1>. QED BY <1>2, <1>3

\* However a cycle ends, an optimizer in the cache has its next cycle coming, and
\* what a worker is about to write over was a version that existed.
THEOREM LoopInvariant == Spec => []LoopInv
<1>1. Init => LoopInv
  BY InitLoopInv
<1>2. LoopInv /\ [Next]_vars => LoopInv'
  BY NextLoopInv
<1>. QED BY <1>1, <1>2, PTL DEF Spec

\* What a step may do to the stored version of a port.
Stays(n) ==
  LET old == weightOptimizers[n].stored
      new == weightOptimizers'[n].stored
  IN  new # old /\ new.exists => IF old.exists THEN new.owner = old.owner ELSE ~new.optimized

LEMMA NextStays ==
  ASSUME LoopInv, [Next]_vars
  PROVE  \A n \in Numbers : Stays(n)
<1>. USE LoopIsStocked
<1>1. CASE UNCHANGED weightOptimizers
  BY <1>1 DEF Stays
<1>2. CASE Restart \/ \E n \in Numbers : DeliverWeightOptimizer(n)
  BY <1>2, CachesOnly DEF Stays
<1>3. ASSUME NEW n \in Numbers, NEW v \in WeightOptimizerVersions, PutWeightOptimizer(n, v)
      PROVE  /\ weightOptimizers'[n].stored.exists = v.exists
             /\ weightOptimizers'[n].stored.owner = v.owner
             /\ weightOptimizers'[n].stored.optimized = v.optimized
             /\ \A m \in Numbers \ {n} : Stays(m)
  <2>1. /\ \A m \in Numbers \ {n} : weightOptimizers'[m] = weightOptimizers[m]
        /\ weightOptimizers'[n].stored = [v EXCEPT !.rv = weightOptimizers[n].stored.rv + 1]
    BY <1>3, PutStores
  <2>. QED BY <2>1 DEF Stays, WeightOptimizerVersions
<1>4. ASSUME NEW n \in Numbers, CollectWeightOptimizer(n)
      PROVE  \A m \in Numbers : Stays(m)
  BY <1>3, <1>4, Absent DEF CollectWeightOptimizer, Stays
<1>5. ASSUME NEW n \in Numbers, EnsureWeightOptimizer(n) \/ UpdateWeightOptimizer(n)
      PROVE  \A m \in Numbers : Stays(m)
  <2>1. Stores(n)
    BY <1>5, EnsureStores, UpdateStores
  <2>2. CASE weightOptimizers' = weightOptimizers
    BY <1>1, <2>2
  <2>3. ASSUME NEW v \in WeightOptimizerVersions, PutWeightOptimizer(n, v),
               \/ ~weightOptimizers[n].stored.exists /\ ~v.optimized
               \/ weightOptimizers[n].stored.exists /\ v.owner = weightOptimizers[n].stored.owner
        PROVE  \A m \in Numbers : Stays(m)
    BY <1>3, <2>3 DEF Stays
  <2>. QED BY <2>1, <2>2, <2>3 DEF Stores
<1>. QED
  BY <1>1, <1>2, <1>4, <1>5 DEF Next, Users, Collect, Informers, Reconcile, vars, CreateOptimizer, MarkDeleted,
     RemoveOptimizer, Entries, CreateServiceEntry, EmptyServiceEntry, DeliverOptimizer, StartCycle, FinishCycle, FetchServiceEntry

\* No Update brings a collected WeightOptimizer back or gives one another owner.
THEOREM CollectedStays == Spec => CollectedStaysCollected
<1>. DEFINE A == \A n \in Numbers :
                   LET old == weightOptimizers[n].stored
                       new == weightOptimizers'[n].stored
                   IN  new # old /\ new.exists => IF old.exists THEN new.owner = old.owner ELSE ~new.optimized
<1>1. LoopInv /\ [Next]_vars => [A]_weightOptimizers
  BY NextStays DEF Stays
<1>2. CollectedStaysCollected <=> [][A]_weightOptimizers
  BY PTL DEF CollectedStaysCollected
<1>. QED BY <1>1, <1>2, LoopInvariant, PTL DEF Spec
=============================================================================
