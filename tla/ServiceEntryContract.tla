------------------------ MODULE ServiceEntryContract ------------------------
(***************************************************************************)
(* What a ServiceEntry promises the mesh that reads it, whatever           *)
(* reconcilers, caches and retries keep it: its addresses are those of one *)
(* version of the Endpoints, its weights those of versions of the          *)
(* WeightOptimizer, and neither ever goes back to an earlier version.      *)
(***************************************************************************)
EXTENDS Naturals, Sequences

CONSTANT Addr

VARIABLES
  addresses,  \* the addresses of every version of the Endpoints so far, in order
  published,  \* the weights of every version of the WeightOptimizer so far
  entry       \* [weights, epv, wov]: the weights by address, the versions they are from

vars == <<addresses, published, entry>>

NoEntry == [weights |-> [a \in {} |-> 0], epv |-> 0, wov |-> 0]

\* The entry, new with the addresses of version v.
CreatedFrom(v) == entry.epv = v /\ entry.wov = 0 /\ DOMAIN entry.weights = addresses[v]

Init ==
  /\ \E addrs \in SUBSET Addr : addresses = <<addrs>>
  /\ published = <<>>
  /\ entry = NoEntry \/ CreatedFrom(1)

\* The sequence has another version.
Extended(s, t) == Len(t) = Len(s) + 1 /\ \A i \in DOMAIN s : t[i] = s[i]

ChangeAddresses == Extended(addresses, addresses') /\ UNCHANGED <<published, entry>>

Publish == Extended(published, published') /\ UNCHANGED <<addresses, entry>>

Create ==
  /\ entry = NoEntry
  /\ \E v \in DOMAIN addresses : CreatedFrom(v)'
  /\ UNCHANGED <<addresses, published>>

\* The addresses become those of version v, the ones that stay keep their weight.
Merge(v) ==
  /\ v >= entry.epv
  /\ entry'.epv = v /\ entry'.wov = entry.wov
  /\ DOMAIN entry'.weights = addresses[v]
  /\ \A a \in addresses[v] \cap DOMAIN entry.weights : entry'.weights[a] = entry.weights[a]
  /\ UNCHANGED <<addresses, published>>

\* Every address takes the weight version v has for it, where 0 is none.
Apply(v) ==
  /\ v >= entry.wov
  /\ entry'.wov = v /\ entry'.epv = entry.epv
  /\ DOMAIN entry'.weights = DOMAIN entry.weights
  /\ \A a \in DOMAIN entry.weights :
       entry'.weights[a] = IF a \in DOMAIN published[v] /\ published[v][a] # 0 THEN published[v][a]
                           ELSE entry.weights[a]
  /\ UNCHANGED <<addresses, published>>

Next ==
  \/ ChangeAddresses \/ Publish \/ Create
  \/ entry # NoEntry /\ ((\E v \in DOMAIN addresses : Merge(v)) \/ (\E v \in DOMAIN published : Apply(v)))

Spec == Init /\ [][Next]_vars
=============================================================================
