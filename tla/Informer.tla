------------------------------ MODULE Informer ------------------------------
(***************************************************************************)
(* One object of the Kubernetes API server together with the informer      *)
(* through which the operator's cached client reads it.                    *)
(*                                                                         *)
(* Every Get and List of the operator answers from an informer cache, and  *)
(* every write goes to the API server.  An object is therefore a record    *)
(*                                                                         *)
(*    cache   the version the operator's cache holds, None if it holds no  *)
(*            such object;                                                 *)
(*    watch   the later versions, oldest first, whose watch events the     *)
(*            cache has not processed yet.                                 *)
(*                                                                         *)
(* A write carries the resourceVersion of the cached copy it was made      *)
(* from, so the API server refuses it exactly when watch is not empty.     *)
(* This is library behaviour (controller-runtime and the API server); the  *)
(* operator relies on it everywhere.                                       *)
(***************************************************************************)
EXTENDS Integers, Sequences

CONSTANT None          \* the absent object

(* The objects whose versions are drawn from Versions.                     *)
Object(Versions) == [cache : Versions, watch : Seq(Versions)]

(* An object the API server holds in version v and the cache does not know *)
(* about yet.                                                              *)
Created(v) == [cache |-> None, watch |-> <<v>>]

(* An object both the API server and the cache hold in version v.          *)
Listed(v) == [cache |-> v, watch |-> << >>]

(* The version the API server holds.                                       *)
Current(o) == IF o.watch = << >> THEN o.cache ELSE o.watch[Len(o.watch)]

(* No event is outstanding: a write made from the cached copy is accepted. *)
Fresh(o) == o.watch = << >>

(* The API server stores version v and emits its watch event.              *)
Commit(o, v) == [o EXCEPT !.watch = Append(@, v)]

(* The cache processes the oldest outstanding event.                       *)
Deliver(o) == [cache |-> Head(o.watch), watch |-> Tail(o.watch)]

(* A restarted operator lists the object afresh.                           *)
Relist(o) == Listed(Current(o))
=============================================================================
