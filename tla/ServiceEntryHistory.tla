------------------------ MODULE ServiceEntryHistory ------------------------
(***************************************************************************)
(* ServiceEntrySync with history variables that keep every version of the  *)
(* Endpoints and of the WeightOptimizer, and the ServiceEntryContract it   *)
(* implements.                                                             *)
(***************************************************************************)
EXTENDS ServiceEntrySync, Sequences

VARIABLES addressesSoFar, publishedSoFar

historyVars == <<vars, addressesSoFar, publishedSoFar>>

HistoryInit ==
  /\ Init
  /\ addressesSoFar = <<endpoints.stored.addrs>>
  /\ publishedSoFar = <<>>

HistoryNext ==
  /\ Next
  /\ addressesSoFar' = IF endpoints'.stored = endpoints.stored THEN addressesSoFar
                       ELSE Append(addressesSoFar, endpoints'.stored.addrs)
  /\ publishedSoFar' = IF weightOptimizer'.stored = weightOptimizer.stored THEN publishedSoFar
                       ELSE Append(publishedSoFar, weightOptimizer'.stored.weights)

HistorySpec == HistoryInit /\ [][HistoryNext]_historyVars

(***************************************************************************)
(* The history is kept by resourceVersion, and every copy a reconciler     *)
(* holds is the version it says it is.                                     *)
(***************************************************************************)
IsEndpointsVersion(v) == v.rv \in DOMAIN addressesSoFar /\ v.addrs = addressesSoFar[v.rv]

IsWeightOptimizerVersion(v) == v.rv \in DOMAIN publishedSoFar /\ v.weights = publishedSoFar[v.rv]

EndpointsHistory ==
  /\ addressesSoFar \in Seq(SUBSET Addr)
  /\ Len(addressesSoFar) = endpoints.stored.rv
  /\ \A v \in endpoints.watch \cup {endpoints.stored, endpoints.cached} : IsEndpointsVersion(v)
  /\ optimizer.pc # "idle" => IsEndpointsVersion(optimizer.ep)
  /\ worker.pc = "putMerged" =>
       worker.se.epv \in DOMAIN addressesSoFar /\ DOMAIN worker.se.weights = addressesSoFar[worker.se.epv]

WeightsHistory ==
  /\ publishedSoFar \in Seq(Published)
  /\ Len(publishedSoFar) = weightOptimizer.stored.rv
  /\ \A v \in weightOptimizer.watch \cup {weightOptimizer.stored, weightOptimizer.cached} :
       Exists(v) => IsWeightOptimizerVersion(v)
  /\ worker.pc \in {"apply", "putWeights"} => IsWeightOptimizerVersion(worker.wo)

\* The ServiceEntry lists the addresses of one version of the Endpoints, never a
\* mixture of two, although createServiceEntry, HandleEndpointUpdate and
\* ValidateAndUpdateWeights all write it.
EntryHasOneVersion ==
  Exists(serviceEntry.stored) =>
    /\ serviceEntry.stored.epv \in DOMAIN addressesSoFar
    /\ DOMAIN serviceEntry.stored.weights = addressesSoFar[serviceEntry.stored.epv]

HistoryInv == EndpointsHistory /\ WeightsHistory /\ EntryHasOneVersion

\* The abstract state: the histories, and of the ServiceEntry what is not its
\* resourceVersion.
Contract ==
  INSTANCE ServiceEntryContract
    WITH addresses <- addressesSoFar,
         published <- publishedSoFar,
         entry <- [weights |-> serviceEntry.stored.weights,
                   epv |-> serviceEntry.stored.epv, wov |-> serviceEntry.stored.wov]

\* The three reconcilers keep the promise of the ServiceEntry.
KeepsContract == Contract!Spec
=============================================================================
