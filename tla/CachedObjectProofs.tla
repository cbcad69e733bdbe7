------------------------ MODULE CachedObjectProofs ------------------------
(***************************************************************************)
(* Every operator of CachedObject keeps the cache coherent.                *)
(***************************************************************************)
EXTENDS CachedObject, TLAPS

\* The resourceVersions of an object are numbers.
Numbered(o) ==
  /\ o.stored.rv \in Nat
  /\ o.cached.rv \in Nat
  /\ \A v \in o.watch : v.rv \in Nat

\* A cache filled by a List (Init, Relist) is coherent.
LEMMA CachedCoherent ==
  ASSUME NEW v, v.rv \in Nat
  PROVE  Coherent(Cached(v)) /\ Numbered(Cached(v))
BY DEF Coherent, Cached, Numbered

\* A restarted manager's List keeps the object coherent.
LEMMA RelistCoherent ==
  ASSUME NEW o, Numbered(o)
  PROVE  Coherent(Relist(o)) /\ Numbered(Relist(o))
BY DEF Coherent, Cached, Relist, Numbered

\* A newer version stored by the API server leaves the cache coherent.
LEMMA WriteCoherent ==
  ASSUME NEW o, NEW v, Numbered(o), Coherent(o), v.rv \in Nat, v.rv > o.stored.rv
  PROVE  Coherent(Write(o, v)) /\ Numbered(Write(o, v))
BY DEF Coherent, Write, Numbered

\* A delivery moves the cache forward and leaves it coherent.
LEMMA DeliverCoherent ==
  ASSUME NEW o, Numbered(o), Coherent(o), NEW v \in o.watch
  PROVE  /\ Coherent(Deliver(o, v))
         /\ Numbered(Deliver(o, v))
         /\ v.rv > o.cached.rv
BY DEF Coherent, Deliver, Numbered

\* An Update accepted from a copy of the cache was made from the stored version.
LEMMA AcceptedIsCurrent ==
  ASSUME NEW o, Coherent(o), Accepts(o, o.cached)
  PROVE  o.cached = o.stored
BY DEF Coherent, Accepts
=============================================================================
