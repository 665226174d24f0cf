--------------------------- MODULE InformerProofs ---------------------------
(***************************************************************************)
(* What the operations of Informer do to an object, for the proofs about   *)
(* the controllers.                                                        *)
(***************************************************************************)
EXTENDS Informer, SequenceTheorems, TLAPS

(* The version the API server holds is one of the object's versions.       *)
LEMMA CurrentType ==
  ASSUME NEW V, NEW o \in Object(V)
  PROVE  Current(o) \in V /\ o.cache \in V
  BY DEF Object, Current

(* A write from the cached copy that the API server accepts is made from   *)
(* the version the API server holds.                                       *)
LEMMA FreshCurrent ==
  ASSUME NEW o, Fresh(o)
  PROVE  Current(o) = o.cache
  BY DEF Fresh, Current

(* Commit leaves the cache behind and makes v the current version.         *)
LEMMA CommitType ==
  ASSUME NEW V, NEW o \in Object(V), NEW v \in V
  PROVE  /\ Commit(o, v) \in Object(V)
         /\ Commit(o, v).cache = o.cache
         /\ Current(Commit(o, v)) = v
         /\ ~Fresh(Commit(o, v))
<1> DEFINE w == Append(o.watch, v)
<1>1. Commit(o, v) = [cache |-> o.cache, watch |-> w]
  <2>1. o = [cache |-> o.cache, watch |-> o.watch]
    BY DEF Object
  <2>2. Commit(o, v) = [o EXCEPT !.watch = w]
    BY Zenon DEF Commit
  <2> HIDE DEF w
  <2> QED
    BY <2>1, <2>2
<1>2. w \in Seq(V) /\ w # << >> /\ w[Len(w)] = v
  BY DEF Object
<1>3. o.cache \in V
  BY DEF Object
<1> HIDE DEF w
<1> QED
  BY <1>1, <1>2, <1>3 DEF Object, Current, Fresh

(* A delivered event changes the cache only.                               *)
LEMMA DeliverType ==
  ASSUME NEW V, NEW o \in Object(V), ~Fresh(o)
  PROVE  /\ Deliver(o) \in Object(V)
         /\ Current(Deliver(o)) = Current(o)
<1> DEFINE w == o.watch
           t == Tail(o.watch)
<1>1. w \in Seq(V) /\ w # << >>
  BY DEF Object, Fresh
<1>2. /\ Head(w) \in V /\ t \in Seq(V)
      /\ Len(t) = Len(w) - 1
      /\ \A i \in 1 .. Len(t) : t[i] = w[i + 1]
  BY <1>1, HeadTailProperties
<1>3. Deliver(o) \in Object(V)
  BY <1>2 DEF Object, Deliver
<1>4. Current(Deliver(o)) = Current(o)
  <2>1. CASE t = << >>
    <3>1. Len(w) = 1
      <4>1. Len(t) = 0
        BY <2>1, EmptySeq
      <4>2. Len(w) \in Nat
        BY <1>1, LenProperties
      <4> QED
        BY <1>2, <4>1, <4>2
    <3>2. Head(w) = w[Len(w)]
      BY <1>1, <3>1
    <3> QED
      BY <1>1, <2>1, <3>2 DEF Deliver, Current
  <2>2. CASE t # << >>
    <3>1. Len(t) \in 1 .. Len(t)
      BY <1>2, <2>2, EmptySeq
    <3>2. t[Len(t)] = w[Len(w)]
      <4>1. t[Len(t)] = w[Len(t) + 1]
        BY <1>2, <3>1
      <4>2. Len(t) + 1 = Len(w)
        BY <1>1, <1>2, LenProperties
      <4> QED
        BY <4>1, <4>2
    <3> QED
      BY <1>1, <2>2, <3>2 DEF Deliver, Current
  <2> QED
    BY <2>1, <2>2
<1> QED
  BY <1>3, <1>4

(* A restart brings the cache up to date.                                  *)
LEMMA RelistType ==
  ASSUME NEW V, NEW o \in Object(V)
  PROVE  /\ Relist(o) \in Object(V)
         /\ Current(Relist(o)) = Current(o)
         /\ Relist(o).cache = Current(o)
  BY CurrentType DEF Object, Relist, Listed, Current

(* A wider set of versions admits the same objects.                        *)
LEMMA ObjectMonotonic ==
  ASSUME NEW V, NEW W, V \subseteq W
  PROVE  Object(V) \subseteq Object(W)
  BY DEF Object
=============================================================================
