---------------------------- MODULE CachedObject ----------------------------
(***************************************************************************)
(* A Kubernetes object as the reconcilers see it through the client that   *)
(* mgr.GetClient() hands them.                                             *)
(*                                                                         *)
(*   stored   the version the API server holds;                            *)
(*   cached   the version the informer cache answers Get and List with;    *)
(*   watch    the versions written but not delivered to the cache yet.     *)
(*                                                                         *)
(* A version is a record whose field rv is the resourceVersion.  rv = 0 is *)
(* used for an object that does not exist.  Deliveries are made in order   *)
(* of rv and may skip versions, as a relist does.  None of this is code of *)
(* the repository: it is how controller-runtime and the API server answer  *)
(* the calls the reconcilers make.                                         *)
(***************************************************************************)
EXTENDS Naturals

\* An object whose cache is up to date.
Cached(v) == [stored |-> v, cached |-> v, watch |-> {}]

Exists(v) == v.rv # 0

\* Optimistic concurrency: an Update made from copy is accepted only when copy
\* carries the resourceVersion the API server holds.
Accepts(o, copy) == copy.rv = o.stored.rv

\* The object after the API server stored the new version v.
Write(o, v) == [stored |-> v, cached |-> o.cached, watch |-> o.watch \cup {v}]

\* The object after the watch brought version v to the cache.
Deliver(o, v) == [stored |-> o.stored, cached |-> v, watch |-> {u \in o.watch : u.rv > v.rv}]

\* The object after a restarted manager filled its cache with a List.
Relist(o) == Cached(o.stored)

(***************************************************************************)
(* What every history of the operators above keeps: the cache and the      *)
(* watch hold versions no newer than the stored one, and a version that    *)
(* has the stored resourceVersion is the stored version.                   *)
(***************************************************************************)
Coherent(o) ==
  /\ o.cached.rv <= o.stored.rv
  /\ \A v \in o.watch : o.cached.rv < v.rv /\ v.rv <= o.stored.rv
  /\ \A v \in o.watch \cup {o.cached} : v.rv = o.stored.rv => v = o.stored
=============================================================================
