------------------------- MODULE ControlPlaneProofs -------------------------
(***************************************************************************)
(* Proofs about ControlPlane, for any number of objects of every kind, any *)
(* edits in any order and any number of seconds.                           *)
(***************************************************************************)
EXTENDS ControlPlane, InformerProofs

-----------------------------------------------------------------------------
(* The versions of an informer object, and what the informer's operations  *)
(* do to them.                                                             *)

VersionsOf(o) == {o.cache} \cup {o.watch[i] : i \in DOMAIN o.watch}

IsObject(o) == o \in Object(VersionsOf(o))

LEMMA ObjectShape ==
  ASSUME NEW o, IsObject(o)
  PROVE  /\ o = [cache |-> o.cache, watch |-> o.watch]
         /\ o.watch \in Seq(VersionsOf(o))
         /\ Len(o.watch) \in Nat /\ DOMAIN o.watch = 1 .. Len(o.watch)
         /\ Current(o) \in VersionsOf(o)
<1>1. o = [cache |-> o.cache, watch |-> o.watch] /\ o.watch \in Seq(VersionsOf(o))
  BY DEF IsObject, Object
<1>2. Len(o.watch) \in Nat /\ DOMAIN o.watch = 1 .. Len(o.watch)
  BY <1>1, LenProperties
<1>3. Current(o) \in VersionsOf(o)
  BY CurrentType DEF IsObject
<1> QED BY <1>1, <1>2, <1>3

(* A write adds one version, the newest.                                   *)
LEMMA CommitObject ==
  ASSUME NEW o, NEW v, IsObject(o)
  PROVE  LET w == Commit(o, v).watch
         IN  /\ IsObject(Commit(o, v))
             /\ Commit(o, v).cache = o.cache
             /\ VersionsOf(Commit(o, v)) = VersionsOf(o) \cup {v}
             /\ Current(Commit(o, v)) = v
             /\ DOMAIN w = 1 .. Len(o.watch) + 1
             /\ \A i \in 1 .. Len(o.watch) : w[i] = o.watch[i]
             /\ w[Len(o.watch) + 1] = v
<1> DEFINE V == VersionsOf(o) \cup {v}
           w == Commit(o, v).watch
<1>1. /\ o = [cache |-> o.cache, watch |-> o.watch]
      /\ o.watch \in Seq(V) /\ o \in Object(V)
      /\ Len(o.watch) \in Nat /\ DOMAIN o.watch = 1 .. Len(o.watch)
  <2>1. o \in Object(V)
    BY ObjectMonotonic DEF IsObject
  <2> QED BY <2>1, ObjectShape DEF Object
<1>2. Commit(o, v).cache = o.cache
  BY <1>1, CommitType
<1>3. w = Append(o.watch, v)
  BY <1>1 DEF Commit, Object
<1>4. /\ w \in Seq(V) /\ DOMAIN w = 1 .. Len(o.watch) + 1
      /\ \A i \in 1 .. Len(o.watch) : w[i] = o.watch[i]
      /\ w[Len(o.watch) + 1] = v
  BY <1>1, <1>3, AppendProperties
<1>5. VersionsOf(Commit(o, v)) = V
  BY <1>1, <1>2, <1>4 DEF VersionsOf
<1>6. IsObject(Commit(o, v))
  BY <1>1, <1>5, CommitType DEF IsObject
<1>7. Current(Commit(o, v)) = v
  BY <1>1, CommitType
<1> HIDE DEF w, V
<1> QED BY <1>2, <1>4, <1>5, <1>6, <1>7 DEF w, V

(* An event takes the oldest version out of the watch into the cache.      *)
LEMMA DeliverObject ==
  ASSUME NEW o, IsObject(o), ~Fresh(o)
  PROVE  LET w == Deliver(o).watch
         IN  /\ IsObject(Deliver(o))
             /\ Deliver(o).cache = o.watch[1] /\ Head(o.watch) = o.watch[1]
             /\ 1 \in DOMAIN o.watch
             /\ VersionsOf(Deliver(o)) \subseteq VersionsOf(o)
             /\ Current(Deliver(o)) = Current(o)
             /\ DOMAIN w = 1 .. Len(o.watch) - 1
             /\ \A i \in DOMAIN w : w[i] = o.watch[i + 1]
<1> DEFINE V == VersionsOf(o)
           w == Deliver(o).watch
<1>1. /\ o.watch \in Seq(V) /\ o.watch # << >> /\ o \in Object(V)
      /\ Len(o.watch) \in Nat /\ DOMAIN o.watch = 1 .. Len(o.watch)
  BY ObjectShape DEF Fresh, IsObject
<1>2. Deliver(o) = [cache |-> Head(o.watch), watch |-> Tail(o.watch)]
  BY DEF Deliver
<1>3. /\ Tail(o.watch) \in Seq(V) /\ Len(Tail(o.watch)) = Len(o.watch) - 1
      /\ \A i \in 1 .. Len(Tail(o.watch)) : Tail(o.watch)[i] = o.watch[i + 1]
  BY <1>1, HeadTailProperties
<1>4. Head(o.watch) = o.watch[1] /\ 1 \in DOMAIN o.watch
  <2>1. Len(o.watch) # 0
    BY <1>1, EmptySeq
  <2> QED BY <1>1, <2>1
<1>5. DOMAIN w = 1 .. Len(o.watch) - 1 /\ \A i \in DOMAIN w : w[i] = o.watch[i + 1]
  BY <1>2, <1>3, LenProperties
<1>6. VersionsOf(Deliver(o)) \subseteq V
  <2>1. \A i \in DOMAIN w : i + 1 \in DOMAIN o.watch
    BY <1>1, <1>5
  <2> QED BY <1>2, <1>4, <1>5, <2>1 DEF VersionsOf
<1>7. IsObject(Deliver(o))
  <2>1. w \in Seq(VersionsOf(Deliver(o)))
    <3>1. w = Tail(o.watch) /\ w \in Seq(V)
      BY <1>2, <1>3
    <3>2. \A i \in 1 .. Len(w) : w[i] \in VersionsOf(Deliver(o))
      BY <3>1, LenProperties, Zenon DEF VersionsOf
    <3>3. w = [i \in 1 .. Len(w) |-> w[i]] /\ Len(w) \in Nat
      BY <3>1
    <3>4. w \in [1 .. Len(w) -> VersionsOf(Deliver(o))]
      BY <3>2, <3>3
    <3> QED BY <3>3, <3>4, SeqDef
  <2> QED BY <1>2, <2>1 DEF IsObject, Object, VersionsOf
<1>8. Current(Deliver(o)) = Current(o)
  BY <1>1, DeliverType
<1>9. Deliver(o).cache = o.watch[1]
  BY <1>2, <1>4
<1> QED BY <1>4, <1>5, <1>6, <1>7, <1>8, <1>9

(* A restart leaves the newest version, in the cache.                      *)
LEMMA RelistObject ==
  ASSUME NEW o, IsObject(o)
  PROVE  /\ IsObject(Relist(o)) /\ Fresh(Relist(o))
         /\ Relist(o).cache = Current(o) /\ Current(Relist(o)) = Current(o)
         /\ VersionsOf(Relist(o)) = {Current(o)}
         /\ DOMAIN Relist(o).watch = {}
<1>1. Relist(o) = [cache |-> Current(o), watch |-> << >>]
  BY DEF Relist, Listed
<1>2. DOMAIN Relist(o).watch = {}
  BY <1>1
<1>3. VersionsOf(Relist(o)) = {Current(o)}
  BY <1>1, <1>2 DEF VersionsOf
<1> QED BY <1>1, <1>2, <1>3 DEF IsObject, Object, Fresh, Current
-----------------------------------------------------------------------------
(* Which objects of a kind have no event outstanding.                      *)

(* The cached copy is then the stored one.                                 *)
LEMMA UpToDateCurrent ==
  ASSUME NEW o, NEW x, IsObject(o), UpToDate(o, x)
  PROVE  Same(Current(o), o.cache, x)
<1>1. CASE o.watch = << >>
  BY <1>1 DEF Current, Same
<1>2. CASE o.watch # << >>
  <2>1. Len(o.watch) \in DOMAIN o.watch
    BY <1>2, ObjectShape, EmptySeq
  <2> QED BY <1>2, <2>1 DEF UpToDate, Current
<1> QED BY <1>1, <1>2

(* A write makes no copy current, and outdates the copy it differs from.   *)
LEMMA UpToDateCommit ==
  ASSUME NEW o, NEW v, NEW x, IsObject(o), UpToDate(Commit(o, v), x)
  PROVE  UpToDate(o, x) /\ Same(v, o.cache, x)
<1>1. /\ Len(o.watch) \in Nat /\ DOMAIN o.watch = 1 .. Len(o.watch)
      /\ Commit(o, v).cache = o.cache
      /\ DOMAIN Commit(o, v).watch = 1 .. Len(o.watch) + 1
      /\ \A i \in 1 .. Len(o.watch) : Commit(o, v).watch[i] = o.watch[i]
      /\ Commit(o, v).watch[Len(o.watch) + 1] = v
  BY ObjectShape, CommitObject
<1>2. UpToDate(o, x)
  <2>1. ASSUME NEW i \in DOMAIN o.watch PROVE Same(o.watch[i], o.cache, x)
    <3>1. i \in DOMAIN Commit(o, v).watch
      BY <1>1
    <3> QED BY <1>1, <3>1 DEF UpToDate
  <2> QED BY <2>1 DEF UpToDate
<1>3. Same(v, o.cache, x)
  <2>1. Len(o.watch) + 1 \in DOMAIN Commit(o, v).watch
    BY <1>1
  <2> QED BY <1>1, <2>1 DEF UpToDate
<1> QED BY <1>2, <1>3

(* An event of other objects makes no copy current either.                 *)
LEMMA UpToDateDeliver ==
  ASSUME NEW o, NEW x, IsObject(o), ~Fresh(o),
         x \notin Changed(o.cache, Head(o.watch)), UpToDate(Deliver(o), x)
  PROVE  UpToDate(o, x) /\ Same(o.cache, Deliver(o).cache, x)
<1>1. /\ Len(o.watch) \in Nat /\ DOMAIN o.watch = 1 .. Len(o.watch)
      /\ Deliver(o).cache = o.watch[1] /\ Head(o.watch) = o.watch[1]
      /\ DOMAIN Deliver(o).watch = 1 .. Len(o.watch) - 1
      /\ \A i \in DOMAIN Deliver(o).watch : Deliver(o).watch[i] = o.watch[i + 1]
  BY ObjectShape, DeliverObject
<1>2. Same(o.cache, o.watch[1], x)
  BY <1>1 DEF Changed, Same
<1>3. ASSUME NEW i \in DOMAIN o.watch PROVE Same(o.watch[i], o.cache, x)
  <2>1. CASE i = 1
    BY <1>2, <2>1 DEF Same
  <2>2. CASE i # 1
    <3>1. i - 1 \in DOMAIN Deliver(o).watch /\ (i - 1) + 1 = i
      BY <1>1, <2>2
    <3>2. Deliver(o).watch[i - 1] = o.watch[i]
      BY <1>1, <3>1
    <3>3. Same(o.watch[i], o.watch[1], x)
      BY <1>1, <3>1, <3>2 DEF UpToDate
    <3> QED BY <1>2, <3>3 DEF Same
  <2> QED BY <2>1, <2>2
<1> QED BY <1>1, <1>2, <1>3 DEF UpToDate
-----------------------------------------------------------------------------
(* What every version of a kind looks like, and how one follows another:   *)
(* a spec without a new generation is the old spec.                        *)

WellFormed(kind, v) ==
  IF kind = "secrets"
  THEN DOMAIN v = SecretKinds /\ \A k \in SecretKinds : Objects(k, v[k])
  ELSE Objects(kind, v)

Watched == {"sbn", "eob", "policy"}    \* the kinds with a generation predicate

SpecOf(kind) == Editable[kind] \ {"labels"}

Follows(kind, old, new) ==
  kind \in Watched =>
    \A x \in DOMAIN old \cap DOMAIN new :
      old[x].gen = new[x].gen => \A f \in SpecOf(kind) : old[x][f] = new[x][f]

Before(o, i) == IF i = 1 THEN o.cache ELSE o.watch[i - 1]

History(kind, o) ==
  /\ IsObject(o)
  /\ \A v \in VersionsOf(o) : WellFormed(kind, v)
  /\ \A i \in DOMAIN o.watch : Follows(kind, Before(o, i), o.watch[i])

Histories ==
  /\ obj = [k \in Kinds |-> obj[k]]
  /\ \A k \in Kinds : History(k, obj[k])

(* Triggers are stamped with the second they are pulled in.                *)
Stamps(kind, old, new) ==
  kind = "sbn" =>
    \A x \in DOMAIN new : \/ new[x].stamp \in {0, clock}
                          \/ x \in DOMAIN old /\ new[x].stamp = old[x].stamp

Legal(kind, old, new) ==
  WellFormed(kind, new) /\ Follows(kind, old, new) /\ Stamps(kind, old, new)

LEMMA HistoryCurrent ==
  ASSUME NEW k, NEW o, History(k, o)
  PROVE  IsObject(o) /\ WellFormed(k, o.cache) /\ WellFormed(k, Current(o))
<1>1. IsObject(o) /\ \A v \in VersionsOf(o) : WellFormed(k, v)
  BY DEF History
<1>2. o.cache \in VersionsOf(o)
  BY DEF VersionsOf
<1> QED BY <1>1, <1>2, ObjectShape

LEMMA HistoryListed ==
  ASSUME NEW k, NEW v, WellFormed(k, v)
  PROVE  History(k, Listed(v))
<1>1. /\ Listed(v).cache = v /\ Listed(v).watch = << >>
      /\ DOMAIN Listed(v).watch = {}
  BY DEF Listed
<1>2. VersionsOf(Listed(v)) = {v}
  BY <1>1 DEF VersionsOf
<1>3. IsObject(Listed(v))
  BY <1>2 DEF IsObject, Object, Listed
<1> QED BY <1>1, <1>2, <1>3 DEF History

LEMMA HistoryCommit ==
  ASSUME NEW k, NEW o, NEW v, History(k, o), Legal(k, Current(o), v)
  PROVE  History(k, Commit(o, v))
<1> DEFINE w == Commit(o, v).watch
           n == Len(o.watch)
<1>1. IsObject(o) /\ n \in Nat /\ DOMAIN o.watch = 1 .. n
  BY ObjectShape DEF History
<1>2. /\ IsObject(Commit(o, v)) /\ Commit(o, v).cache = o.cache
      /\ VersionsOf(Commit(o, v)) = VersionsOf(o) \cup {v}
      /\ DOMAIN w = 1 .. n + 1 /\ \A i \in 1 .. n : w[i] = o.watch[i]
      /\ w[n + 1] = v
  BY <1>1, CommitObject
<1>3. \A u \in VersionsOf(Commit(o, v)) : WellFormed(k, u)
  BY <1>2 DEF History, Legal
<1>4. Before(Commit(o, v), n + 1) = Current(o)
  <2>1. CASE n = 0
    BY <1>1, <1>2, <2>1, ObjectShape, EmptySeq DEF Before, Current
  <2>2. CASE n # 0
    <3>1. o.watch # << >>
      BY <2>2
    <3>2. n \in 1 .. n /\ n + 1 # 1 /\ (n + 1) - 1 = n
      BY <1>1, <2>2
    <3> QED BY <1>2, <3>1, <3>2 DEF Before, Current
  <2> QED BY <2>1, <2>2
<1>5. ASSUME NEW i \in DOMAIN w PROVE Follows(k, Before(Commit(o, v), i), w[i])
  <2>1. CASE i = n + 1
    BY <1>2, <1>4, <2>1 DEF Legal
  <2>2. CASE i # n + 1
    <3>1. i \in DOMAIN o.watch /\ (i # 1 => i - 1 \in 1 .. n)
      BY <1>1, <1>2, <2>2
    <3>2. Before(Commit(o, v), i) = Before(o, i)
      BY <1>1, <1>2, <3>1 DEF Before
    <3> QED BY <1>1, <1>2, <3>1, <3>2 DEF History
  <2> QED BY <2>1, <2>2
<1> QED BY <1>2, <1>3, <1>5 DEF History

LEMMA HistoryDeliver ==
  ASSUME NEW k, NEW o, History(k, o), ~Fresh(o)
  PROVE  History(k, Deliver(o)) /\ Follows(k, o.cache, Deliver(o).cache)
<1> DEFINE w == Deliver(o).watch
           n == Len(o.watch)
<1>1. IsObject(o) /\ n \in Nat /\ DOMAIN o.watch = 1 .. n
  BY ObjectShape DEF History
<1>2. /\ IsObject(Deliver(o)) /\ Deliver(o).cache = o.watch[1] /\ 1 \in DOMAIN o.watch
      /\ VersionsOf(Deliver(o)) \subseteq VersionsOf(o)
      /\ DOMAIN w = 1 .. n - 1 /\ \A i \in DOMAIN w : w[i] = o.watch[i + 1]
  BY <1>1, DeliverObject
<1>3. \A u \in VersionsOf(Deliver(o)) : WellFormed(k, u)
  BY <1>2 DEF History
<1>4. ASSUME NEW i \in DOMAIN w PROVE Follows(k, Before(Deliver(o), i), w[i])
  <2>1. /\ i + 1 \in DOMAIN o.watch /\ i + 1 # 1 /\ (i + 1) - 1 = i
        /\ i # 1 => i - 1 \in DOMAIN w /\ (i - 1) + 1 = i
    <3>1. n \in Nat /\ DOMAIN o.watch = 1 .. n /\ DOMAIN w = 1 .. n - 1
      BY <1>1, <1>2, Zenon
    <3>2. i \in 1 .. n - 1
      BY <3>1, Zenon
    <3> HIDE DEF n, w
    <3>3. /\ i + 1 \in 1 .. n /\ i + 1 # 1 /\ (i + 1) - 1 = i
          /\ i # 1 => i - 1 \in 1 .. n - 1 /\ (i - 1) + 1 = i
      BY <3>1, <3>2
    <3> QED BY <3>1, <3>3, Zenon
  <2>2. Before(Deliver(o), i) = Before(o, i + 1)
    BY <1>2, <2>1 DEF Before
  <2> QED BY <1>2, <2>1, <2>2 DEF History
<1>5. Follows(k, o.cache, Deliver(o).cache)
  BY <1>2 DEF History, Before
<1> QED BY <1>2, <1>3, <1>4, <1>5 DEF History
-----------------------------------------------------------------------------
(* All steps but events and restarts only write.                           *)

Writes ==
  /\ obj' = [k \in Kinds |-> obj'[k]]
  /\ \A k \in Kinds :
       \/ obj'[k] = obj[k]
       \/ \E v : Legal(k, Current(obj[k]), v) /\ obj'[k] = Commit(obj[k], v)

LEMMA NoWrite ==
  ASSUME Histories, UNCHANGED obj
  PROVE  Writes
BY DEF Histories, Writes

LEMMA StoreWrites ==
  ASSUME Histories, NEW k \in Kinds, NEW objects, Legal(k, Stored(k), objects),
         obj' = Store(k, objects)
  PROVE  Writes
<1>1. CASE objects = Stored(k)
  BY <1>1, NoWrite DEF Store
<1>2. CASE objects # Stored(k)
  <2>1. obj' = [obj EXCEPT ![k] = Commit(@, objects)]
    BY <1>2 DEF Store
  <2>2. obj' = [j \in Kinds |-> IF j = k THEN Commit(obj[k], objects) ELSE obj[j]]
    BY <2>1 DEF Histories
  <2> QED BY <2>2 DEF Writes, Stored
<1> QED BY <1>1, <1>2

LEMMA WritesKeepHistories ==
  ASSUME Histories, Writes
  PROVE  Histories'
<1>1. ASSUME NEW k \in Kinds PROVE History(k, obj'[k])
  <2>1. CASE obj'[k] = obj[k]
    BY <2>1 DEF Histories
  <2>2. CASE \E v : Legal(k, Current(obj[k]), v) /\ obj'[k] = Commit(obj[k], v)
    BY <2>2, HistoryCommit DEF Histories
  <2> QED BY <2>1, <2>2 DEF Writes
<1> QED BY <1>1 DEF Histories, Writes

(* The caches stay, and no copy becomes current.                           *)
LEMMA WritesKeepCaches ==
  ASSUME Histories, Writes
  PROVE  /\ View' = View
         /\ \A k \in Kinds : obj'[k].cache = obj[k].cache
         /\ \A k \in Kinds : \A x : UpToDate(obj'[k], x) => UpToDate(obj[k], x)
<1>1. ASSUME NEW k \in Kinds
      PROVE  /\ obj'[k].cache = obj[k].cache
             /\ \A x : UpToDate(obj'[k], x) => UpToDate(obj[k], x)
  <2>1. CASE obj'[k] = obj[k]
    BY <2>1
  <2>2. CASE \E v : Legal(k, Current(obj[k]), v) /\ obj'[k] = Commit(obj[k], v)
    <3>1. PICK v : obj'[k] = Commit(obj[k], v)
      BY <2>2
    <3>2. IsObject(obj[k])
      BY DEF Histories, History
    <3> QED BY <3>1, <3>2, CommitObject, UpToDateCommit
  <2> QED BY <2>1, <2>2 DEF Writes
<1>2. View' = View
  <2>1. /\ obj'.sbn.cache = obj.sbn.cache /\ obj'.eob.cache = obj.eob.cache
        /\ obj'.policy.cache = obj.policy.cache /\ obj'.user.cache = obj.user.cache
        /\ obj'.group.cache = obj.group.cache /\ obj'.secrets.cache = obj.secrets.cache
    BY <1>1 DEF Kinds
  <2> QED BY <2>1 DEF View
<1> QED BY <1>1, <1>2

(* A controller writes a current copy back, with the spec it found.        *)
KeepsSpec(k, o, r) ==
  /\ DOMAIN r = DOMAIN o /\ r.gen = o.gen
  /\ \A f \in Editable[k] : r[f] = o[f]
  /\ "stamp" \in Kept[k] => r.stamp \in {o.stamp, clock}

LEMMA WrittenBack ==
  ASSUME Histories, clock \in Nat, NEW k \in {"sbn", "eob", "policy", "user"},
         NEW x \in DOMAIN obj[k].cache,
         FreshFor(k, x), NEW r, KeepsSpec(k, obj[k].cache[x], r)
  PROVE  /\ Legal(k, Stored(k), With(Stored(k), x, r))
         /\ SameSpecs(k, Stored(k), With(Stored(k), x, r))
<1> DEFINE s == Stored(k)
           t == With(s, x, r)
<1>1. k \in Kinds /\ History(k, obj[k]) /\ k # "secrets"
  BY DEF Histories, Kinds
<1>2. Objects(k, s) /\ Objects(k, obj[k].cache)
  BY <1>1, HistoryCurrent DEF WellFormed, Stored
<1>3. x \in DOMAIN s /\ s[x] = obj[k].cache[x]
  BY <1>1, HistoryCurrent, UpToDateCurrent DEF FreshFor, Same, Stored
<1>4. t = [y \in DOMAIN s |-> IF y = x THEN r ELSE s[y]]
  BY <1>3 DEF With
<1>5. Objects(k, t)
  <2>1. k \in DOMAIN Kept
    BY DEF Kept
  <2>2. DOMAIN t \subseteq Names /\ t = [y \in DOMAIN t |-> t[y]]
    BY <1>2, <1>4 DEF Objects
  <2>3. ASSUME NEW y \in DOMAIN t
        PROVE  /\ DOMAIN t[y] = Editable[k] \cup Kept[k]
               /\ "gen" \in Kept[k] => t[y].gen \in Nat
               /\ "stamp" \in Kept[k] => t[y].stamp \in Nat
    <3>1. CASE y = x
      <4>1. t[y] = r
        BY <1>4, <3>1
      <4>2. /\ DOMAIN r = DOMAIN s[x] /\ r.gen = s[x].gen
            /\ "stamp" \in Kept[k] => r.stamp \in {s[x].stamp, clock}
        BY <1>3 DEF KeepsSpec
      <4> QED BY <1>2, <1>3, <2>1, <4>1, <4>2 DEF Objects
    <3>2. CASE y # x
      <4>1. t[y] = s[y] /\ y \in DOMAIN s
        BY <1>4, <3>2
      <4> QED BY <1>2, <2>1, <4>1, Zenon DEF Objects
    <3> QED BY <3>1, <3>2
  <2> QED BY <2>2, <2>3 DEF Objects
<1>6. Follows(k, s, t)
  <2>1. ASSUME NEW y \in DOMAIN s, NEW f \in SpecOf(k) PROVE s[y][f] = t[y][f]
    BY <1>3, <1>4, <2>1 DEF KeepsSpec, SpecOf
  <2> QED BY <1>4, <2>1 DEF Follows
<1>7. Stamps(k, s, t)
  <2>1. k = "sbn" => r.stamp \in {s[x].stamp, clock}
    BY <1>3 DEF KeepsSpec, Kept
  <2> QED BY <1>3, <1>4, <2>1 DEF Stamps
<1>8. SameSpecs(k, s, t)
  BY <1>3, <1>4 DEF SameSpecs, KeepsSpec
<1> QED BY <1>1, <1>5, <1>6, <1>7, <1>8 DEF Legal, WellFormed
-----------------------------------------------------------------------------
(* The writes of the controllers.                                          *)

(* The objects the caches show have the fields of their kind.              *)
LEMMA CachedObjects ==
  ASSUME Histories
  PROVE  /\ Objects("sbn", View.sbn) /\ Objects("eob", View.eob)
         /\ Objects("policy", View.policy) /\ Objects("user", View.user)
         /\ Objects("group", View.group) /\ Objects("secret", View.secret)
         /\ View.sbn = obj["sbn"].cache /\ View.eob = obj["eob"].cache
         /\ View.policy = obj["policy"].cache /\ View.user = obj["user"].cache
         /\ View.group = obj["group"].cache
<1>1. \A k \in Kinds : WellFormed(k, obj[k].cache)
  BY HistoryCurrent DEF Histories
<1> QED BY <1>1 DEF Kinds, WellFormed, View, SecretKinds

(* Likewise what is stored.                                                *)
LEMMA StoredObjects ==
  ASSUME Histories
  PROVE  /\ \A k \in Kinds : WellFormed(k, Stored(k))
         /\ \A k \in Kinds \ {"secrets"} : Objects(k, Stored(k))
BY HistoryCurrent DEF Histories, Stored, WellFormed

LEMMA NodeWrites ==
  ASSUME Histories, clock \in Nat, NEW n \in DOMAIN View.sbn, FreshFor("sbn", n)
  PROVE  /\ \A h : LET nodes == With(Stored("sbn"), n, nodeReport(n, h))
                   IN  Legal("sbn", Stored("sbn"), nodes) /\ SameSpecs("sbn", Stored("sbn"), nodes)
         /\ LET nodes == With(Stored("sbn"), n, [View.sbn[n] EXCEPT !.stamp = clock])
            IN  Legal("sbn", Stored("sbn"), nodes) /\ SameSpecs("sbn", Stored("sbn"), nodes)
<1> DEFINE o == View.sbn[n]
<1>1. Objects("sbn", View.sbn) /\ View.sbn = obj["sbn"].cache
  BY CachedObjects
<1>2. /\ DOMAIN o = Editable["sbn"] \cup Kept["sbn"]
      /\ o.gen \in Nat /\ o.stamp \in Nat
  BY <1>1 DEF Objects, Kept
<1>3. \A h : KeepsSpec("sbn", o, nodeReport(n, h))
  BY <1>2, Zenon DEF KeepsSpec, nodeReport, Editable, Kept
<1>4. KeepsSpec("sbn", o, [o EXCEPT !.stamp = clock])
  BY <1>2 DEF KeepsSpec, Editable, Kept
<1> QED BY <1>1, <1>3, <1>4, WrittenBack

LEMMA ExternalWrites ==
  ASSUME Histories, clock \in Nat, NEW e \in DOMAIN View.eob, FreshFor("eob", e), NEW reason
  PROVE  LET stored == Stored("eob")
         IN  /\ Legal("eob", stored, With(stored, e, setAccepted(e, reason)))
             /\ SameSpecs("eob", stored, With(stored, e, setAccepted(e, reason)))
<1> DEFINE o == View.eob[e]
<1>1. Objects("eob", View.eob) /\ View.eob = obj["eob"].cache
  BY CachedObjects
<1>2. DOMAIN o = Editable["eob"] \cup Kept["eob"] /\ o.gen \in Nat
  BY <1>1 DEF Objects, Kept
<1>3. KeepsSpec("eob", o, setAccepted(e, reason))
  BY <1>2, Zenon DEF KeepsSpec, setAccepted, Editable, Kept
<1> QED BY <1>1, <1>3, WrittenBack

LEMMA PolicyWrites ==
  ASSUME Histories, clock \in Nat, NEW p \in DOMAIN View.policy, FreshFor("policy", p)
  PROVE  LET stored == Stored("policy")
         IN  /\ Legal("policy", stored, With(stored, p, policyReport(p)))
             /\ SameSpecs("policy", stored, With(stored, p, policyReport(p)))
<1> DEFINE o == View.policy[p]
<1>1. Objects("policy", View.policy) /\ View.policy = obj["policy"].cache
  BY CachedObjects
<1>2. DOMAIN o = Editable["policy"] \cup Kept["policy"] /\ o.gen \in Nat
  BY <1>1 DEF Objects, Kept
<1>3. KeepsSpec("policy", o, policyReport(p))
  BY <1>2, Zenon DEF KeepsSpec, policyReport, Editable, Kept
<1> QED BY <1>1, <1>3, WrittenBack

LEMMA UserWrites ==
  ASSUME Histories, clock \in Nat, NEW u \in DOMAIN View.user, FreshFor("user", u)
  PROVE  LET stored == Stored("user")
         IN  /\ Legal("user", stored, With(stored, u, userReport(u)))
             /\ SameSpecs("user", stored, With(stored, u, userReport(u)))
<1> DEFINE o == View.user[u]
<1>1. Objects("user", View.user) /\ View.user = obj["user"].cache
  BY CachedObjects
<1>2. DOMAIN o = Editable["user"] \cup Kept["user"] /\ o.gen \in Nat /\ o.stamp \in Nat
  BY <1>1 DEF Objects, Kept
<1>3. KeepsSpec("user", o, userReport(u))
  BY <1>2, Zenon DEF KeepsSpec, userReport, Editable, Kept
<1> QED BY <1>1, <1>3, WrittenBack

(* The patch of a group's users.                                           *)
LEMMA GroupWrites ==
  ASSUME Histories, clock \in Nat, NEW M
  PROVE  LET stored == Stored("user")
             users  == [u \in DOMAIN stored |->
                          IF u \in M THEN [stored[u] EXCEPT !.stamp = clock] ELSE stored[u]]
         IN  Legal("user", stored, users) /\ SameSpecs("user", stored, users)
<1> DEFINE s == Stored("user")
           t == [u \in DOMAIN s |-> IF u \in M THEN [s[u] EXCEPT !.stamp = clock] ELSE s[u]]
<1>1. Objects("user", s)
  BY StoredObjects DEF Kinds
<1>2. ASSUME NEW u \in DOMAIN s
      PROVE  /\ DOMAIN t[u] = Editable["user"] \cup Kept["user"]
             /\ t[u].gen \in Nat /\ t[u].stamp \in Nat
  <2>1. DOMAIN s[u] = Editable["user"] \cup Kept["user"] /\ s[u].gen \in Nat /\ s[u].stamp \in Nat
    BY <1>1 DEF Objects, Kept
  <2> QED BY <2>1 DEF Kept
<1>3. Objects("user", t)
  BY <1>1, <1>2 DEF Objects
<1>4. Follows("user", s, t)
  BY DEF Follows, Watched
<1>5. SameSpecs("user", s, t)
  <2>1. ASSUME NEW u \in DOMAIN s, NEW f \in Editable["user"] \cup {"gen"}
        PROVE  s[u][f] = t[u][f]
    <3>1. f = "group" \/ f = "gen"
      BY DEF Editable
    <3>2. "group" \in DOMAIN s[u] /\ "gen" \in DOMAIN s[u]
      BY <1>1 DEF Objects, Kept, Editable
    <3>3. t[u] = s[u] \/ t[u] = [s[u] EXCEPT !.stamp = clock]
      OBVIOUS
    <3> HIDE DEF s, t
    <3> QED BY <3>1, <3>2, <3>3
  <2> QED BY <2>1 DEF SameSpecs
<1> QED BY <1>3, <1>4, <1>5 DEF Legal, WellFormed, Stamps

(* The edits of users.                                                     *)
Admissible(edit) ==
  /\ edit.kind \in SecretKinds \cup (Kinds \ {"secrets"})
  /\ edit.name \in Names
  /\ \/ edit.field = "none"
     \/ /\ edit.field = "object" /\ Untriggered(edit.kind, edit.value)
        /\ Objects(edit.kind, [x \in {edit.name} |-> edit.value])
     \/ edit.kind \in DOMAIN Editable /\ edit.field \in Editable[edit.kind]

LEMMA EditsAreLegal ==
  ASSUME NEW edit, Admissible(edit), NEW f, Objects(edit.kind, f),
         edit.field # "object" <=> edit.name \in DOMAIN f
  PROVE  /\ Objects(edit.kind, Edited(f, edit))
         /\ Follows(edit.kind, f, Edited(f, edit)) /\ Stamps(edit.kind, f, Edited(f, edit))
<1> DEFINE k == edit.kind
           n == edit.name
           g == Edited(f, edit)
<1>0. DOMAIN Editable = DOMAIN Kept
  BY DEF Editable, Kept
<1>1. CASE edit.field = "object"
  <2>1. n \notin DOMAIN f /\ g = [y \in DOMAIN f \cup {n} |-> IF y = n THEN edit.value ELSE f[y]]
    BY <1>1 DEF Edited, With
  <2>2. Objects(k, [x \in {n} |-> edit.value])
    BY <1>1 DEF Admissible, Editable
  <2>3. ASSUME NEW y \in DOMAIN g, k \in DOMAIN Kept
        PROVE  /\ DOMAIN g[y] = Editable[k] \cup Kept[k]
               /\ "gen" \in Kept[k] => g[y].gen \in Nat
               /\ "stamp" \in Kept[k] => g[y].stamp \in Nat
    <3>1. CASE y = n
      <4>1. g[y] = [x \in {n} |-> edit.value][n]
        BY <2>1, <3>1
      <4> QED BY <2>2, <2>3, <4>1 DEF Objects
    <3>2. CASE y # n
      BY <2>1, <2>3, <3>2 DEF Objects
    <3> QED BY <3>1, <3>2
  <2>4. DOMAIN g \subseteq Names /\ g = [y \in DOMAIN g |-> g[y]]
    BY <2>1 DEF Objects, Admissible
  <2>5. Objects(k, g)
    BY <2>3, <2>4, Zenon DEF Objects
  <2>6. Follows(k, f, g)
    BY <2>1 DEF Follows
  <2>7. Stamps(k, f, g)
    <3>1. k = "sbn" => edit.value.stamp = 0
      BY <1>1 DEF Admissible, Untriggered, Editable
    <3> QED BY <2>1, <3>1 DEF Stamps
  <2> QED BY <2>5, <2>6, <2>7
<1>2. CASE edit.field = "none"
  <2>1. g = [y \in DOMAIN f \ {n} |-> f[y]]
    BY <1>2 DEF Edited, Without
  <2>2. Objects(k, g)
    BY <2>1 DEF Objects
  <2> QED BY <2>1, <2>2 DEF Follows, Stamps
<1>3. CASE edit.field \notin {"object", "none"}
  <2>1. n \in DOMAIN f /\ k \in DOMAIN Kept /\ edit.field \in Editable[k]
    BY <1>0, <1>3 DEF Admissible
  <2>2. /\ f = [y \in DOMAIN f |-> f[y]] /\ DOMAIN f \subseteq Names
        /\ \A y \in DOMAIN f :
             /\ DOMAIN f[y] = Editable[k] \cup Kept[k]
             /\ "gen" \in Kept[k] => f[y].gen \in Nat
             /\ "stamp" \in Kept[k] => f[y].stamp \in Nat
    BY <2>1 DEF Objects
  <2> DEFINE r == g[n]
  <2>3. CASE edit.field \in {"labels", "keys"}
    <3>1. g = [y \in DOMAIN f |-> IF y = n THEN [f[n] EXCEPT ![edit.field] = edit.value] ELSE f[y]]
      BY <1>3, <2>2, <2>3, Zenon DEF Edited
    <3>2. r = [f[n] EXCEPT ![edit.field] = edit.value]
      BY <2>1, <3>1
    <3>3. /\ DOMAIN r = Editable[k] \cup Kept[k]
          /\ "gen" \in Kept[k] => r.gen \in Nat
          /\ "stamp" \in Kept[k] => r.stamp \in Nat
      BY <2>1, <2>2, <2>3, <3>2
    <3>4. Objects(k, g)
      BY <2>1, <2>2, <3>1, <3>3 DEF Objects
    <3>5. Follows(k, f, g)
      <4>1. k \in Watched => \A h \in SpecOf(k) : r[h] = f[n][h]
        BY <2>1, <2>2, <2>3, <3>2 DEF SpecOf, Watched, Editable
      <4> QED BY <3>1, <4>1, Zenon DEF Follows
    <3>6. Stamps(k, f, g)
      <4>1. k = "sbn" => r.stamp = f[n].stamp
        BY <2>1, <2>2, <2>3, <3>2 DEF Kept
      <4> QED BY <3>1, <4>1 DEF Stamps
    <3> QED BY <3>4, <3>5, <3>6
  <2>4. CASE edit.field \notin {"labels", "keys"}
    <3>1. "gen" \in Kept[k] /\ edit.field # "gen" /\ edit.field # "stamp"
      BY <2>1, <2>4 DEF Editable, Kept
    <3> DEFINE o == [f[n] EXCEPT ![edit.field] = edit.value, !.gen = @ + 1]
    <3>2. g = [y \in DOMAIN f |-> IF y = n THEN o ELSE f[y]]
      <4>1. g = With(f, n, o)
        BY <1>3, <2>4, Zenon DEF Edited
      <4> QED BY <2>1, <4>1, Zenon DEF With
    <3>3. r = o
      BY <2>1, <3>2, Zenon
    <3>4. /\ DOMAIN r = Editable[k] \cup Kept[k] /\ r.gen = f[n].gen + 1
          /\ "stamp" \in Kept[k] => r.stamp = f[n].stamp
      BY <2>1, <2>2, <3>1, <3>3, Zenon
    <3>5. r.gen \in Nat /\ r.gen # f[n].gen
      BY <2>1, <2>2, <3>1, <3>4
    <3>6. Objects(k, g)
      BY <2>1, <2>2, <3>2, <3>4, <3>5, ZenonT(30) DEF Objects
    <3>7. Follows(k, f, g)
      BY <3>2, <3>5, Zenon DEF Follows
    <3>8. Stamps(k, f, g)
      <4>1. k = "sbn" => r.stamp = f[n].stamp
        BY <2>1, <2>2, <3>1, <3>4 DEF Kept
      <4> QED BY <3>2, <4>1, Zenon DEF Stamps
    <3> QED BY <3>6, <3>7, <3>8
  <2> QED BY <2>3, <2>4
<1> QED BY <1>1, <1>2, <1>3

LEMMA UserEditWrites ==
  ASSUME Histories, UserEdit, \E all \in Scripts : script \subseteq all
  PROVE  Writes
<1>1. PICK edit \in script \ {Restarts} :
        LET kind == IF edit.kind \in Kinds THEN edit.kind ELSE "secrets"
            objs == Stored(kind)
            new  == IF kind = "secrets"
                    THEN [objs EXCEPT ![edit.kind] = Edited(@, edit)] ELSE Edited(objs, edit)
            names == IF kind = "secrets" THEN DOMAIN objs[edit.kind] ELSE DOMAIN objs
        IN  /\ edit.field # "object" <=> edit.name \in names
            /\ obj' = Store(kind, new)
  BY Zenon DEF UserEdit
<1>2. Admissible(edit)
  BY ScriptsAssumption DEF Admissible
<1>3. CASE edit.kind \in Kinds
  <2>1. edit.kind # "secrets"
    BY <1>2 DEF Admissible, SecretKinds
  <2>2. /\ edit.field # "object" <=> edit.name \in DOMAIN Stored(edit.kind)
        /\ obj' = Store(edit.kind, Edited(Stored(edit.kind), edit))
    BY <1>1, <1>3, <2>1
  <2>3. Objects(edit.kind, Stored(edit.kind))
    BY <1>3, <2>1, StoredObjects
  <2>4. Legal(edit.kind, Stored(edit.kind), Edited(Stored(edit.kind), edit))
    BY <1>2, <2>1, <2>2, <2>3, EditsAreLegal DEF Legal, WellFormed
  <2> QED BY <1>3, <2>2, <2>4, StoreWrites
<1>4. CASE edit.kind \notin Kinds
  <2> DEFINE s == Stored("secrets")
             t == [s EXCEPT ![edit.kind] = Edited(@, edit)]
  <2>1. edit.kind \in SecretKinds
    BY <1>2, <1>4 DEF Admissible
  <2>2. /\ edit.field # "object" <=> edit.name \in DOMAIN s[edit.kind]
        /\ obj' = Store("secrets", t)
    BY <1>1, <1>4
  <2>3. DOMAIN s = SecretKinds /\ \A k \in SecretKinds : Objects(k, s[k])
    BY StoredObjects DEF Kinds, WellFormed
  <2>4. Objects(edit.kind, Edited(s[edit.kind], edit))
    BY <1>2, <2>1, <2>2, <2>3, EditsAreLegal
  <2>5. WellFormed("secrets", t)
    BY <2>1, <2>3, <2>4 DEF WellFormed
  <2>6. Legal("secrets", s, t)
    BY <2>5 DEF Legal, Follows, Stamps, Watched
  <2> QED BY <2>2, <2>6, StoreWrites DEF Kinds
<1> QED BY <1>3, <1>4

(* A node pass may write twice: the credential, and the status.            *)
LEMMA NodePassWrites ==
  ASSUME Histories, clock \in Nat, NEW n, nodePass(n)
  PROVE  Writes
<1>1. n \in DOMAIN View.sbn
  BY DEF nodePass
<1> DEFINE s == Stored("secrets")
           c == [s EXCEPT !.relay = With(s.relay, n, n)]
           stored == ensureCredential(View, n)
<1>2. Legal("secrets", s, c)
  <2>1. DOMAIN s = SecretKinds /\ \A k \in SecretKinds : Objects(k, s[k])
    BY StoredObjects DEF Kinds, WellFormed
  <2>2. n \in Names
    BY <1>1, CachedObjects DEF Objects
  <2>3. Objects("relay", With(s.relay, n, n))
    BY <2>1, <2>2 DEF Objects, With, SecretKinds, Kept
  <2>4. DOMAIN c = SecretKinds /\ \A k \in SecretKinds : Objects(k, c[k])
    BY <2>1, <2>3 DEF SecretKinds
  <2> QED BY <2>4 DEF Legal, WellFormed, Follows, Stamps, Watched
<1>3. stored = obj \/ stored = [k \in Kinds |-> IF k = "secrets" THEN Commit(obj[k], c) ELSE obj[k]]
  <2>1. stored = obj \/ stored = [obj EXCEPT !.secrets = Commit(@, c)]
    BY DEF ensureCredential
  <2> QED BY <2>1 DEF Histories
<1>4. PICK h : LET nodes == With(Stored("sbn"), n, nodeReport(n, h))
               IN  obj' = IF FreshFor("sbn", n) /\ nodes # Stored("sbn")
                          THEN [stored EXCEPT !.sbn = Commit(@, nodes)] ELSE stored
  BY DEF nodePass
<1> DEFINE nodes == With(Stored("sbn"), n, nodeReport(n, h))
<1>5. CASE FreshFor("sbn", n) /\ nodes # Stored("sbn")
  <2>1. Legal("sbn", Current(obj["sbn"]), nodes)
    <3>1. Legal("sbn", Stored("sbn"), nodes)
      BY <1>1, <1>5, NodeWrites, Zenon
    <3> QED BY <3>1 DEF Stored
  <2>2. obj' = [stored EXCEPT !.sbn = Commit(@, nodes)]
    BY <1>4, <1>5
  <2>3. stored = [k \in Kinds |-> stored[k]] /\ stored["sbn"] = obj["sbn"]
    BY <1>3 DEF Kinds, Histories
  <2>4. obj' = [k \in Kinds |-> IF k = "sbn" THEN Commit(obj["sbn"], nodes) ELSE stored[k]]
    <3> HIDE DEF stored, nodes
    <3> QED BY <2>2, <2>3
  <2>5. ASSUME NEW k \in Kinds
        PROVE  \/ obj'[k] = obj[k]
               \/ \E v : Legal(k, Current(obj[k]), v) /\ obj'[k] = Commit(obj[k], v)
    <3>1. CASE k = "sbn"
      BY <2>1, <2>4, <3>1
    <3>2. CASE k # "sbn"
      <4>1. obj'[k] = stored[k]
        BY <2>4, <3>2
      <4> QED BY <1>2, <1>3, <4>1 DEF Stored
    <3> QED BY <3>1, <3>2
  <2> QED BY <2>4, <2>5 DEF Writes
<1>6. CASE ~(FreshFor("sbn", n) /\ nodes # Stored("sbn"))
  <2>1. obj' = stored
    BY <1>4, <1>6
  <2> QED BY <1>2, <1>3, <2>1, NoWrite DEF Writes, Stored
<1> QED BY <1>5, <1>6

LEMMA TriggerWrites ==
  ASSUME Histories, clock \in Nat, NEW n, triggerNodeReconcile(n)
  PROVE  Writes
<1>1. CASE triggerFails(n)
  BY <1>1, NoWrite DEF triggerNodeReconcile
<1>2. CASE ~triggerFails(n)
  <2>1. n \in DOMAIN View.sbn /\ FreshFor("sbn", n)
    BY <1>2 DEF triggerFails
  <2>2. obj' = Store("sbn", With(Stored("sbn"), n, [View.sbn[n] EXCEPT !.stamp = clock]))
    BY <1>2 DEF triggerNodeReconcile, Update
  <2> QED BY <2>1, <2>2, NodeWrites, StoreWrites DEF Kinds
<1> QED BY <1>1, <1>2

(* The steps that are neither events nor a restart.                        *)
Quietly == Controller \/ UserEdit \/ Tick \/ Resync \/ UNCHANGED vars

LEMMA QuietlyWrites ==
  ASSUME Histories, clock \in Nat, \E all \in Scripts : script \subseteq all, Quietly
  PROVE  Writes
<1>1. CASE Tick \/ Resync \/ UNCHANGED vars
  BY <1>1, NoWrite DEF Tick, Resync, vars
<1>2. CASE UserEdit
  BY <1>2, UserEditWrites
<1>3. CASE PolicyController
  <2>1. CASE \E p \in queue.policy : policyPass(p)
    BY <2>1, NoWrite DEF policyPass
  <2>2. CASE policyUpdateStatus
    <3> DEFINE p == pass.policy.key
    <3>1. CASE UNCHANGED obj
      BY <3>1, NoWrite
    <3>2. CASE obj' # obj
      <4>1. /\ p \in DOMAIN View.policy /\ FreshFor("policy", p)
            /\ obj' = Update("policy", p, policyReport(p))
        BY <2>2, <3>2, Zenon DEF policyUpdateStatus
      <4> QED BY <4>1, PolicyWrites, StoreWrites DEF Update, Kinds
    <3> QED BY <3>1, <3>2
  <2>3. CASE policyTrigger
    BY <2>3, TriggerWrites DEF policyTrigger
  <2> QED BY <1>3, <2>1, <2>2, <2>3 DEF PolicyController
<1>4. CASE UserController
  <2>1. CASE \E u \in queue.user : userPass(u)
    BY <2>1, NoWrite DEF userPass
  <2>2. CASE userTrigger
    BY <2>2, TriggerWrites DEF userTrigger
  <2>3. CASE userUpdateStatus
    <3> DEFINE u == pass.user.key
    <3>1. CASE u \notin DOMAIN View.user \/ ~FreshFor("user", u)
      BY <2>3, <3>1, NoWrite DEF userUpdateStatus
    <3>2. CASE u \in DOMAIN View.user /\ FreshFor("user", u)
      BY <2>3, <3>2, UserWrites, StoreWrites DEF userUpdateStatus, Update, Kinds
    <3> QED BY <3>1, <3>2
  <2> QED BY <1>4, <2>1, <2>2, <2>3 DEF UserController
<1>5. CASE GroupController
  <2>1. PICK g \in queue.group : userGroupPass(g)
    BY <1>5 DEF GroupController
  <2> QED BY <2>1, GroupWrites, StoreWrites, Zenon DEF userGroupPass, Kinds
<1>6. CASE ExternalController
  <2>1. PICK e \in queue.external : externalPass(e)
    BY <1>6 DEF ExternalController
  <2>2. CASE e \notin DOMAIN View.eob \/ ~FreshFor("eob", e)
    BY <2>1, <2>2, NoWrite DEF externalPass
  <2>3. CASE e \in DOMAIN View.eob /\ FreshFor("eob", e)
    BY <2>1, <2>3, ExternalWrites, StoreWrites DEF externalPass, Update, Kinds
  <2> QED BY <2>2, <2>3
<1>7. CASE NodeController
  <2>1. PICK n \in queue.node : nodePass(n) \/ nodeGone(n)
    BY <1>7 DEF NodeController
  <2> QED BY <2>1, NodePassWrites, NoWrite DEF nodeGone
<1> QED BY <1>1, <1>2, <1>3, <1>4, <1>5, <1>6, <1>7 DEF Quietly, Controller
-----------------------------------------------------------------------------
(* Events and restarts.                                                    *)

LEMMA ReceiveDelivers ==
  ASSUME Histories, NEW k \in Kinds, Receive(k)
  PROVE  /\ Histories'
         /\ \A j \in Kinds \ {k} : obj'[j] = obj[j]
         /\ obj'[k].cache = Head(obj[k].watch)
         /\ Follows(k, obj[k].cache, obj'[k].cache)
         /\ \A j \in Kinds : Current(obj'[j]) = Current(obj[j])
         /\ \A x : /\ x \notin Changed(obj[k].cache, obj'[k].cache)
                   /\ UpToDate(obj'[k], x)
                   => UpToDate(obj[k], x) /\ Same(obj[k].cache, obj'[k].cache, x)
<1>1. ~Fresh(obj[k]) /\ obj' = [j \in Kinds |-> IF j = k THEN Deliver(obj[k]) ELSE obj[j]]
  BY DEF Receive, Histories
<1>2. obj'[k] = Deliver(obj[k]) /\ \A j \in Kinds \ {k} : obj'[j] = obj[j]
  BY <1>1
<1>3. IsObject(obj[k]) /\ History(k, obj[k])
  BY DEF Histories, History
<1>4. History(k, obj'[k]) /\ Follows(k, obj[k].cache, obj'[k].cache)
  BY <1>1, <1>2, <1>3, HistoryDeliver
<1>5. Histories'
  <2>1. \A j \in Kinds : History(j, obj'[j])
    BY <1>2, <1>4 DEF Histories
  <2>2. obj' = [j \in Kinds |-> obj'[j]]
    BY <1>1
  <2> QED BY <2>1, <2>2 DEF Histories
<1>6. obj'[k].cache = Head(obj[k].watch) /\ Current(obj'[k]) = Current(obj[k])
  BY <1>1, <1>2, <1>3, DeliverObject
<1>7. ASSUME NEW x, x \notin Changed(obj[k].cache, obj'[k].cache), UpToDate(obj'[k], x)
      PROVE  UpToDate(obj[k], x) /\ Same(obj[k].cache, obj'[k].cache, x)
  BY <1>1, <1>2, <1>3, <1>6, <1>7, UpToDateDeliver
<1> QED BY <1>2, <1>4, <1>5, <1>6, <1>7

LEMMA RestartLists ==
  ASSUME Histories, Restart
  PROVE  /\ Histories' /\ View' = Now
         /\ \A k \in Kinds : Current(obj'[k]) = Current(obj[k])
<1>1. obj' = [k \in Kinds |-> Relist(obj[k])]
  BY DEF Restart
<1>2. ASSUME NEW k \in Kinds
      PROVE  /\ History(k, obj'[k]) /\ obj'[k].cache = Current(obj[k])
             /\ Current(obj'[k]) = Current(obj[k])
  <2>1. History(k, obj[k]) /\ obj'[k] = Relist(obj[k])
    BY <1>1 DEF Histories
  <2>2. WellFormed(k, Current(obj[k])) /\ IsObject(obj[k])
    BY <2>1, HistoryCurrent
  <2> QED BY <2>1, <2>2, HistoryListed, RelistObject DEF Relist
<1>3. View' = Now
  <2>1. /\ obj'.sbn.cache = Current(obj["sbn"]) /\ obj'.eob.cache = Current(obj["eob"])
        /\ obj'.policy.cache = Current(obj["policy"])
        /\ obj'.user.cache = Current(obj["user"])
        /\ obj'.group.cache = Current(obj["group"])
        /\ obj'.secrets.cache = Current(obj["secrets"])
    BY <1>2 DEF Kinds
  <2> QED BY <2>1 DEF View, Now, Stored
<1> QED BY <1>1, <1>2, <1>3 DEF Histories

LEMMA InitHistories ==
  ASSUME Init
  PROVE  Histories
<1> DEFINE nodes == [n \in DOMAIN Start.sbn |->
                       [Start.sbn[n] EXCEPT !.hash = Wanted(StartCluster, n)]]
           first(k) == IF k = "sbn" THEN nodes ELSE Start[k]
<1>1. obj = [k \in Kinds |-> Listed(first(k))]
  BY DEF Init
<1>2. ASSUME NEW k \in Kinds PROVE WellFormed(k, first(k))
  <2>1. CASE k = "sbn"
    <3>1. Objects("sbn", Start["sbn"])
      BY StartAssumption DEF Kinds
    <3>2. ASSUME NEW n \in DOMAIN nodes
          PROVE  /\ DOMAIN nodes[n] = Editable["sbn"] \cup Kept["sbn"]
                 /\ nodes[n].gen \in Nat /\ nodes[n].stamp \in Nat
      <4>1. /\ DOMAIN Start["sbn"][n] = Editable["sbn"] \cup Kept["sbn"]
            /\ Start["sbn"][n].gen \in Nat /\ Start["sbn"][n].stamp \in Nat
        BY <3>1 DEF Objects, Kept
      <4> QED BY <4>1
    <3>3. Objects("sbn", nodes)
      BY <3>1, <3>2 DEF Objects
    <3> QED BY <2>1, <3>3 DEF WellFormed
  <2>2. CASE k # "sbn"
    BY <2>2, StartAssumption DEF WellFormed
  <2> QED BY <2>1, <2>2
<1>3. \A k \in Kinds : History(k, obj[k])
  <2> HIDE DEF first
  <2> QED BY <1>1, <1>2, HistoryListed
<1> QED BY <1>1, <1>3 DEF Histories
-----------------------------------------------------------------------------
(* No edit is undone.                                                      *)

LEMMA StoredStays ==
  ASSUME \A k \in Kinds : Current(obj'[k]) = Current(obj[k])
  PROVE  KeepsEdits
<1>1. \A k \in Kinds : Stored(k)' = Stored(k)
  BY DEF Stored
<1>2. Now' = Now
  BY <1>1 DEF Now, Kinds
<1> QED BY <1>1, <1>2 DEF KeepsEdits, SameSpecs

LEMMA StoreKeeps ==
  ASSUME Histories, NEW k \in Kinds \ {"secrets"}, NEW objects,
         SameSpecs(k, Stored(k), objects), obj' = Store(k, objects)
  PROVE  KeepsEdits
<1>1. CASE objects = Stored(k)
  BY <1>1, StoredStays DEF Store
<1>2. CASE objects # Stored(k)
  <2>1. obj' = [j \in Kinds |-> IF j = k THEN Commit(obj[k], objects) ELSE obj[j]]
    BY <1>2 DEF Store, Histories
  <2>2. Current(Commit(obj[k], objects)) = objects
    BY CommitObject DEF Histories, History
  <2>3. Stored(k)' = objects /\ \A j \in Kinds \ {k} : Stored(j)' = Stored(j)
    BY <2>1, <2>2 DEF Stored
  <2>4. Now'.relay = Now.relay /\ Now'.secret = Now.secret /\ Now'.auth = Now.auth
    BY <2>3 DEF Now, Kinds
  <2> QED BY <2>3, <2>4 DEF KeepsEdits, SameSpecs
<1> QED BY <1>1, <1>2

(* A node pass adds a credential only where none is stored.                *)
LEMMA NodePassKeeps ==
  ASSUME Histories, clock \in Nat, NEW n, nodePass(n)
  PROVE  KeepsEdits
<1> DEFINE s == Stored("secrets")
           c == [s EXCEPT !.relay = With(s.relay, n, n)]
           stored == ensureCredential(View, n)
<1>1. n \in DOMAIN View.sbn /\ (needsCredential(View, n) => n \notin DOMAIN Now.relay)
  BY DEF nodePass
<1>2. /\ stored = [k \in Kinds |-> stored[k]]
      /\ \A k \in Kinds \ {"secrets"} : stored[k] = obj[k]
      /\ \/ stored["secrets"] = obj["secrets"]
         \/ needsCredential(View, n) /\ stored["secrets"] = Commit(obj["secrets"], c)
  <2> HIDE DEF c
  <2> QED BY DEF ensureCredential, Histories, Kinds, c
<1>3. PICK h : LET nodes == With(Stored("sbn"), n, nodeReport(n, h))
               IN  obj' = IF FreshFor("sbn", n) /\ nodes # Stored("sbn")
                          THEN [stored EXCEPT !.sbn = Commit(@, nodes)] ELSE stored
  BY DEF nodePass
<1> DEFINE nodes == With(Stored("sbn"), n, nodeReport(n, h))
<1>4. /\ \A k \in Kinds \ {"sbn"} : obj'[k] = stored[k]
      /\ \/ obj'["sbn"] = obj["sbn"]
         \/ FreshFor("sbn", n) /\ obj'["sbn"] = Commit(obj["sbn"], nodes)
  <2> HIDE DEF stored, nodes
  <2> QED BY <1>2, <1>3 DEF nodes, Kinds
<1>5. SameSpecs("sbn", Stored("sbn"), Stored("sbn")')
  <2>1. CASE obj'["sbn"] = obj["sbn"]
    BY <2>1 DEF Stored, SameSpecs
  <2>2. CASE FreshFor("sbn", n) /\ obj'["sbn"] = Commit(obj["sbn"], nodes)
    <3>1. Stored("sbn")' = nodes
      BY <2>2, CommitObject DEF Stored, Histories, History, Kinds
    <3> QED BY <1>1, <2>2, <3>1, NodeWrites, ZenonT(30)
  <2> QED BY <1>4, <2>1, <2>2
<1>6. \A k \in Kinds \ {"sbn", "secrets"} : Stored(k)' = Stored(k)
  BY <1>2, <1>4 DEF Stored
<1>7. /\ Now'.secret = Now.secret /\ Now'.auth = Now.auth
      /\ \A m \in DOMAIN Now.relay : m \in DOMAIN Now'.relay /\ Now'.relay[m] = Now.relay[m]
  <2>1. CASE obj'["secrets"] = obj["secrets"]
    BY <2>1 DEF Now, Stored
  <2>2. CASE needsCredential(View, n) /\ obj'["secrets"] = Commit(obj["secrets"], c)
    <3>1. Stored("secrets")' = c
      BY <2>2, CommitObject DEF Stored, Histories, History, Kinds
    <3>2. DOMAIN s = SecretKinds
      BY StoredObjects DEF WellFormed, Kinds
    <3>3. c.secret = s.secret /\ c.auth = s.auth /\ c.relay = With(s.relay, n, n)
      BY <3>2 DEF SecretKinds
    <3>4. n \notin DOMAIN s.relay
      BY <1>1, <2>2 DEF Now
    <3>5. \A m \in DOMAIN s.relay : m \in DOMAIN c.relay /\ c.relay[m] = s.relay[m]
      BY <3>3, <3>4 DEF With
    <3> HIDE DEF c
    <3> QED BY <3>1, <3>3, <3>5 DEF Now
  <2> QED BY <1>2, <1>4, <2>1, <2>2 DEF Kinds
<1> QED BY <1>5, <1>6, <1>7 DEF KeepsEdits, SameSpecs

LEMMA TriggerKeeps ==
  ASSUME Histories, clock \in Nat, NEW n, triggerNodeReconcile(n)
  PROVE  KeepsEdits
<1>1. CASE triggerFails(n)
  BY <1>1, StoredStays DEF triggerNodeReconcile
<1>2. CASE ~triggerFails(n)
  <2>1. n \in DOMAIN View.sbn /\ FreshFor("sbn", n)
    BY <1>2 DEF triggerFails
  <2>2. obj' = Store("sbn", With(Stored("sbn"), n, [View.sbn[n] EXCEPT !.stamp = clock]))
    BY <1>2 DEF triggerNodeReconcile, Update
  <2> QED BY <2>1, <2>2, NodeWrites, StoreKeeps DEF Kinds
<1> QED BY <1>1, <1>2

LEMMA ControllerKeeps ==
  ASSUME Histories, clock \in Nat, Controller
  PROVE  KeepsEdits
<1>1. CASE UNCHANGED obj
  BY <1>1, StoredStays
<1>2. CASE PolicyController /\ obj' # obj
  <2>1. CASE policyUpdateStatus
    <3> DEFINE p == pass.policy.key
    <3>1. /\ p \in DOMAIN View.policy /\ FreshFor("policy", p)
          /\ obj' = Update("policy", p, policyReport(p))
      BY <1>2, <2>1, Zenon DEF policyUpdateStatus
    <3> QED BY <3>1, PolicyWrites, StoreKeeps DEF Update, Kinds
  <2>2. CASE policyTrigger
    BY <2>2, TriggerKeeps DEF policyTrigger
  <2> QED BY <1>2, <2>1, <2>2 DEF PolicyController, policyPass
<1>3. CASE UserController /\ obj' # obj
  <2>1. CASE userTrigger
    BY <2>1, TriggerKeeps DEF userTrigger
  <2>2. CASE userUpdateStatus
    <3> DEFINE u == pass.user.key
    <3>1. /\ u \in DOMAIN View.user /\ FreshFor("user", u)
          /\ obj' = Update("user", u, userReport(u))
      BY <1>3, <2>2 DEF userUpdateStatus
    <3> QED BY <3>1, UserWrites, StoreKeeps DEF Update, Kinds
  <2> QED BY <1>3, <2>1, <2>2, Zenon DEF UserController, userPass
<1>4. CASE GroupController
  <2>1. PICK g \in queue.group : userGroupPass(g)
    BY <1>4 DEF GroupController
  <2> QED BY <2>1, GroupWrites, StoreKeeps, Zenon DEF userGroupPass, Kinds
<1>5. CASE ExternalController /\ obj' # obj
  <2>1. PICK e \in queue.external : externalPass(e)
    BY <1>5 DEF ExternalController
  <2>2. /\ e \in DOMAIN View.eob /\ FreshFor("eob", e)
        /\ obj' = Update("eob", e, setAccepted(e, acceptedReason(View, e)))
    BY <1>5, <2>1 DEF externalPass
  <2> QED BY <2>2, ExternalWrites, StoreKeeps DEF Update, Kinds
<1>6. CASE NodeController
  BY <1>6, NodePassKeeps, StoredStays DEF NodeController, nodeGone
<1> QED BY <1>1, <1>2, <1>3, <1>4, <1>5, <1>6 DEF Controller
-----------------------------------------------------------------------------
(* Type correctness.                                                       *)

Reasons ==
  {"none", "InvalidMatch", "IngressNotFound", "EgressNotFound", "EgressNotUnique", "Resolved"}

Passes ==
  [key : Nat, at : {"idle", "status", "trigger"}, todo : SUBSET Nat, nodes : SUBSET Nat,
   resolved : Nat, reason : Reasons]

TypeInv ==
  /\ TypeOK /\ Histories
  /\ pass \in [{"policy", "user"} -> Passes]

(* The part of it that is not about the stored objects.                    *)
Controls ==
  /\ queue \in [Controllers -> SUBSET Nat]
  /\ pass \in [{"policy", "user"} -> Passes]
  /\ \A w \in {"policy", "user"} :
       /\ pass[w].at = "idle" <=> pass[w] = Idle
       /\ pass[w].todo \subseteq pass[w].nodes
  /\ clock \in 1 .. MaxClock
  /\ \E all \in Scripts : script \subseteq all
  /\ DOMAIN config = DOMAIN seen
  /\ missed \subseteq {"node", "user"} \X Nat

Stamped == \A n \in DOMAIN Stored("sbn") : Stored("sbn")[n].stamp <= clock

LEMMA TypeInvParts == TypeInv <=> Histories /\ Controls /\ Stamped
<1>1. ASSUME TypeInv PROVE Histories /\ Controls /\ Stamped
  <2>1. DOMAIN pass = {"policy", "user"}
    BY <1>1 DEF TypeInv, TypeOK
  <2>2. Now.sbn = Stored("sbn")
    BY DEF Now
  <2> QED BY <1>1, <2>1, <2>2 DEF TypeInv, TypeOK, Controls, Stamped
<1>2. ASSUME Histories, Controls, Stamped PROVE TypeInv
  <2>1. DOMAIN pass = {"policy", "user"}
    BY <1>2 DEF Controls
  <2>2. Now.sbn = Stored("sbn")
    BY DEF Now
  <2>3. DOMAIN obj = Kinds
    BY <1>2 DEF Histories
  <2> QED BY <1>2, <2>1, <2>2, <2>3 DEF TypeInv, TypeOK, Controls, Stamped
<1> QED BY <1>1, <1>2

LEMMA ShownNext ==
  ASSUME Histories'
  PROVE  /\ Objects("sbn", View.sbn') /\ Objects("eob", View.eob')
         /\ Objects("policy", View.policy') /\ Objects("user", View.user')
         /\ Objects("group", View.group') /\ Objects("secret", View.secret')
         /\ View.sbn' = obj'["sbn"].cache /\ View.eob' = obj'["eob"].cache
         /\ View.policy' = obj'["policy"].cache /\ View.user' = obj'["user"].cache
         /\ View.group' = obj'["group"].cache /\ View.secret' = obj'["secrets"].cache.secret
<1>1. \A k \in Kinds : WellFormed(k, obj'[k].cache)
  BY HistoryCurrent DEF Histories
<1> QED BY <1>1 DEF Kinds, WellFormed, View, SecretKinds

LEMMA IdlePasses == Idle \in Passes /\ Idle.at = "idle" /\ Idle.todo \subseteq Idle.nodes
BY DEF Idle, Passes, Reasons, NoName

LEMMA StampedWrites ==
  ASSUME Histories, Stamped, Writes, clock \in Nat, clock' \in Nat, clock <= clock'
  PROVE  Stamped'
<1> DEFINE s == Current(obj["sbn"])
           t == Current(obj'["sbn"])
<1>0. "sbn" \in Kinds
  BY DEF Kinds
<1>1. t = s \/ Legal("sbn", s, t)
  <2>1. CASE obj'["sbn"] = obj["sbn"]
    BY <2>1
  <2>2. CASE \E v : Legal("sbn", s, v) /\ obj'["sbn"] = Commit(obj["sbn"], v)
    BY <1>0, <2>2, CommitObject DEF Histories, History
  <2> QED BY <1>0, <2>1, <2>2 DEF Writes
<1>2. \A n \in DOMAIN s : s[n].stamp \in Nat /\ s[n].stamp <= clock
  BY <1>0, StoredObjects, ZenonT(30) DEF Objects, Kept, Stamped, Stored
<1>3. ASSUME NEW n \in DOMAIN t PROVE t[n].stamp <= clock'
  BY <1>1, <1>2 DEF Legal, Stamps
<1> QED BY <1>3 DEF Stamped, Stored

LEMMA UniqueTargetType ==
  ASSUME NEW found, \A x \in found : x[2] \in Nat
  PROVE  uniqueTarget(found) \in Nat
BY DEF uniqueTarget, NoName

LEMMA ResolutionType ==
  ASSUME Histories, NEW p \in DOMAIN View.policy
  PROVE  /\ policyResolution(View, p) \in Passes
         /\ policyResolution(View, p).at = "status"
         /\ policyResolution(View, p).todo \subseteq policyResolution(View, p).nodes
<1> DEFINE policy == View.policy[p]
           found  == egressCandidates(policy.egress, View.sbn, View.eob)
           r      == policyResolution(View, p)
<1>1. p \in Nat /\ DOMAIN View.sbn \subseteq Nat /\ DOMAIN View.eob \subseteq Nat
  BY CachedObjects DEF Objects, Names
<1>2. egressPolicyMapper(View, policy) \subseteq Nat
  BY <1>1 DEF egressPolicyMapper, inbounds
<1>3. uniqueTarget(found) \in Nat
  <2>1. \A x \in found : x[2] \in Nat
    BY <1>1 DEF egressCandidates
  <2> QED BY <2>1, UniqueTargetType
<1>4. \A ings, fs : validatePolicyResolution(policy, ings, fs) \in Reasons
  BY DEF validatePolicyResolution, Reasons
<1>5. r = [key |-> p, at |-> "status", todo |-> egressPolicyMapper(View, policy),
           nodes |-> egressPolicyMapper(View, policy), resolved |-> uniqueTarget(found),
           reason |-> validatePolicyResolution(policy, egressPolicyMapper(View, policy), found)]
  BY DEF policyResolution
<1> DEFINE map == egressPolicyMapper(View, policy)
           why == validatePolicyResolution(policy, map, found)
           to  == uniqueTarget(found)
<1>6. map \subseteq Nat /\ why \in Reasons /\ to \in Nat
  BY <1>2, <1>3, <1>4, Zenon
<1>7. r = [key |-> p, at |-> "status", todo |-> map, nodes |-> map, resolved |-> to,
           reason |-> why]
  BY <1>5, Zenon
<1> HIDE DEF r, found, policy, map, why, to
<1>8. r \in Passes /\ r.at = "status" /\ r.todo \subseteq r.nodes
  BY <1>1, <1>6, <1>7 DEF Passes
<1> QED BY <1>8, Zenon DEF r

LEMMA EnqueueType ==
  ASSUME queue \in [Controllers -> SUBSET Nat], NEW r, Enqueue(r),
         \A c \in Controllers \cap DOMAIN r : r[c] \subseteq Nat
  PROVE  queue' \in [Controllers -> SUBSET Nat]
BY DEF Enqueue

LEMMA ChangedNames ==
  ASSUME Histories, NEW k \in Kinds \ {"secrets"}, Receive(k)
  PROVE  Changed(obj[k].cache, Head(obj[k].watch)) \subseteq Nat
<1>1. Histories' /\ obj'[k].cache = Head(obj[k].watch)
  BY ReceiveDelivers
<1>2. WellFormed(k, obj[k].cache) /\ WellFormed(k, obj'[k].cache)
  BY <1>1, HistoryCurrent DEF Histories
<1>3. DOMAIN obj[k].cache \subseteq Nat /\ DOMAIN obj'[k].cache \subseteq Nat
  BY <1>2 DEF WellFormed, Objects, Names
<1> QED BY <1>1, <1>3 DEF Changed

LEMMA EventControls ==
  ASSUME TypeInv, Watch
  PROVE  Controls' /\ Histories' /\ Stamped'
<1>0. Histories /\ Controls /\ Stamped
  BY TypeInvParts
<1>1. PICK k \in Kinds : Receive(k)
  BY Zenon DEF Watch, singBoxNodeEvent, externalOutboundEvent, egressPolicyEvent, userEvent,
         userGroupEvent, secretEvent, Kinds
<1>2. Histories' /\ \A j \in Kinds : Current(obj'[j]) = Current(obj[j])
  BY <1>0, <1>1, ReceiveDelivers
<1>3. Stamped'
  <2>1. clock' = clock /\ "sbn" \in Kinds
    BY <1>1 DEF Receive, Kinds
  <2> QED BY <1>0, <1>2, <2>1 DEF Stamped, Stored
<1>4. /\ DOMAIN View.sbn \subseteq Nat /\ DOMAIN View.eob \subseteq Nat
      /\ DOMAIN View.policy \subseteq Nat /\ DOMAIN View.user \subseteq Nat
      /\ DOMAIN View.group \subseteq Nat
      /\ View.sbn = obj.sbn.cache /\ View.eob = obj.eob.cache
      /\ View.policy = obj.policy.cache /\ View.user = obj.user.cache
      /\ View.group = obj.group.cache
  BY <1>0, CachedObjects DEF Objects, Names
<1>5. /\ DOMAIN View.sbn' \subseteq Nat /\ DOMAIN View.eob' \subseteq Nat
      /\ DOMAIN View.policy' \subseteq Nat /\ DOMAIN View.user' \subseteq Nat
      /\ DOMAIN View.group' \subseteq Nat
      /\ View.sbn' = obj'.sbn.cache /\ View.eob' = obj'.eob.cache
      /\ View.policy' = obj'.policy.cache /\ View.user' = obj'.user.cache
      /\ View.group' = obj'.group.cache
  BY <1>2, ShownNext, ZenonT(30) DEF Objects, Names
<1>6. /\ inbounds(View') \subseteq Nat
      /\ \A x, o : /\ sameRegionNodeMapper(View', x, o) \subseteq Nat
                   /\ egressPolicyMapper(View', o) \subseteq Nat
                   /\ externalOutboundMapper(View', x, o) \subseteq Nat
                   /\ externalCredentialSecretMapper(View', x) \subseteq Nat
                   /\ credentialsSecretMapper(View', x) \subseteq Nat
                   /\ usersInGroupToNodesMapper(View', x) \subseteq Nat
  BY <1>5, ZenonT(30)
     DEF inbounds, sameRegionNodeMapper, egressPolicyMapper, externalOutboundMapper,
              externalCredentialSecretMapper, credentialsSecretMapper,
              usersInGroupToNodesMapper, inboundsAffectedByExternalOutbound
<1>7. queue' \in [Controllers -> SUBSET Nat] /\ missed' \subseteq {"node", "user"} \X Nat
  <2>0. queue \in [Controllers -> SUBSET Nat] /\ missed \subseteq {"node", "user"} \X Nat
    BY <1>0 DEF Controls
  <2>1. CASE singBoxNodeEvent
    <3> DEFINE all == Changed(obj.sbn.cache, Head(obj.sbn.watch))
    <3>1. all \subseteq Nat
      BY <1>0, <2>1, ChangedNames, ZenonT(30) DEF singBoxNodeEvent, Kinds
    <3> DEFINE spec  == {x \in all : GenerationChanged(x, obj.sbn.cache, Head(obj.sbn.watch))}
               nodes == all \cup UNION {UNION {sameRegionNodeMapper(View', x, o) :
                          o \in Versions(x, obj.sbn.cache, Head(obj.sbn.watch))} : x \in spec}
               loud  == \E x \in all :
                          x \in spec \/ LabelChanged(x, obj.sbn.cache, Head(obj.sbn.watch))
               pols  == IF loud THEN policyMapper(View') ELSE {}
               r     == [node |-> nodes, policy |-> pols]
    <3>2. nodes \subseteq Nat /\ pols \subseteq Nat
      <4>1. nodes \subseteq Nat
        BY <1>6, <3>1
      <4>2. policyMapper(View') \subseteq Nat
        BY <1>5, Zenon DEF policyMapper
      <4> QED BY <4>1, <4>2, Zenon
    <3>3. Enqueue(r) /\ UsersMiss
      BY <2>1 DEF singBoxNodeEvent
    <3> HIDE DEF nodes, pols
    <3>4. \A c \in Controllers \cap DOMAIN r : r[c] \subseteq Nat
      <4>1. DOMAIN r = {"node", "policy"} /\ r["node"] = nodes /\ r["policy"] = pols
        OBVIOUS
      <4> QED BY <3>2, <4>1, Zenon
    <3> HIDE DEF r
    <3>5. queue' \in [Controllers -> SUBSET Nat]
      BY <2>0, <3>3, <3>4, EnqueueType
    <3> QED BY <1>4, <2>0, <3>3, <3>5 DEF UsersMiss
  <2>2. CASE externalOutboundEvent
    <3> DEFINE all == Changed(obj.eob.cache, Head(obj.eob.watch))
    <3>1. all \subseteq Nat
      BY <1>0, <2>2, ChangedNames DEF externalOutboundEvent, Kinds
    <3> DEFINE spec  == {x \in all : GenerationChanged(x, obj.eob.cache, Head(obj.eob.watch))}
               nodes == UNION {UNION {externalOutboundMapper(View', x, o) :
                          o \in Versions(x, obj.eob.cache, Head(obj.eob.watch))} : x \in spec}
               loud  == \E x \in all :
                          x \in spec \/ LabelChanged(x, obj.eob.cache, Head(obj.eob.watch))
               pols  == IF loud THEN policyMapper(View') ELSE {}
               r     == [external |-> all, node |-> nodes, policy |-> pols]
    <3>2. nodes \subseteq Nat /\ pols \subseteq Nat
      <4>1. nodes \subseteq Nat
        BY <1>6
      <4>2. policyMapper(View') \subseteq Nat
        BY <1>5, Zenon DEF policyMapper
      <4> QED BY <4>1, <4>2, Zenon
    <3>3. Enqueue(r) /\ missed' = missed
      BY <2>2 DEF externalOutboundEvent
    <3> HIDE DEF all, nodes, pols
    <3>4. \A c \in Controllers \cap DOMAIN r : r[c] \subseteq Nat
      <4>1. /\ DOMAIN r = {"external", "node", "policy"}
            /\ r["external"] = all /\ r["node"] = nodes /\ r["policy"] = pols
        OBVIOUS
      <4> QED BY <3>1, <3>2, <4>1, Zenon
    <3> HIDE DEF r
    <3>5. queue' \in [Controllers -> SUBSET Nat]
      BY <2>0, <3>3, <3>4, EnqueueType
    <3> QED BY <2>0, <3>3, <3>5
  <2>3. CASE egressPolicyEvent
    <3> DEFINE all == Changed(obj.policy.cache, Head(obj.policy.watch))
    <3>1. all \subseteq Nat
      BY <1>0, <2>3, ChangedNames DEF egressPolicyEvent, Kinds
    <3> DEFINE spec  == {x \in all : GenerationChanged(x, obj.policy.cache, Head(obj.policy.watch))}
               nodes == UNION {UNION {egressPolicyMapper(View', o) :
                          o \in Versions(x, obj.policy.cache, Head(obj.policy.watch))} : x \in spec}
               r     == [policy |-> all, node |-> nodes]
    <3>2. nodes \subseteq Nat
      BY <1>6
    <3>3. Enqueue(r)
      BY <2>3 DEF egressPolicyEvent
    <3> HIDE DEF all, nodes
    <3>4. \A c \in Controllers \cap DOMAIN r : r[c] \subseteq Nat
      <4>1. DOMAIN r = {"policy", "node"} /\ r["policy"] = all /\ r["node"] = nodes
        OBVIOUS
      <4> QED BY <3>1, <3>2, <4>1, Zenon
    <3> HIDE DEF r
    <3>5. queue' \in [Controllers -> SUBSET Nat]
      BY <2>0, <3>3, <3>4, EnqueueType
    <3> QED BY <2>0, <2>3, <3>5 DEF egressPolicyEvent
  <2>4. CASE userEvent
    <3> DEFINE all == Changed(obj.user.cache, Head(obj.user.watch))
    <3>1. all \subseteq Nat
      BY <1>0, <2>4, ChangedNames DEF userEvent, Kinds
    <3> QED BY <1>6, <2>0, <2>4, <3>1, EnqueueType DEF userEvent, matchingProtocolNodeMapper
  <2>5. CASE userGroupEvent
    <3> DEFINE all == Changed(obj.group.cache, Head(obj.group.watch))
    <3>1. all \subseteq Nat
      BY <1>0, <2>5, ChangedNames DEF userGroupEvent, Kinds
    <3> DEFINE nodes == UNION {usersInGroupToNodesMapper(View', x) : x \in all}
               r     == [group |-> all, node |-> nodes]
    <3>2. nodes \subseteq Nat
      BY <1>6
    <3>3. Enqueue(r)
      BY <2>5 DEF userGroupEvent
    <3> HIDE DEF all, nodes
    <3>4. \A c \in Controllers \cap DOMAIN r : r[c] \subseteq Nat
      <4>1. DOMAIN r = {"group", "node"} /\ r["group"] = all /\ r["node"] = nodes
        OBVIOUS
      <4> QED BY <3>1, <3>2, <4>1, ZenonT(30)
    <3> HIDE DEF r
    <3>5. queue' \in [Controllers -> SUBSET Nat]
      BY <2>0, <3>3, <3>4, EnqueueType
    <3> QED BY <2>0, <2>5, <3>5 DEF userGroupEvent
  <2>6. CASE secretEvent
    <3> DEFINE changed == Changed(obj.secrets.cache.secret, Head(obj.secrets.watch).secret)
               exts  == UNION {credentialsSecretMapper(View', s) : s \in changed}
               nodes == UNION {externalCredentialSecretMapper(View', s) : s \in changed}
               r     == [external |-> exts, node |-> nodes]
    <3>2. exts \subseteq Nat /\ nodes \subseteq Nat
      BY <1>6
    <3>3. Enqueue(r)
      BY <2>6 DEF secretEvent
    <3> HIDE DEF exts, nodes
    <3>4. \A c \in Controllers \cap DOMAIN r : r[c] \subseteq Nat
      <4>1. DOMAIN r = {"external", "node"} /\ r["external"] = exts /\ r["node"] = nodes
        OBVIOUS
      <4> QED BY <3>2, <4>1, Zenon
    <3> HIDE DEF r
    <3>5. queue' \in [Controllers -> SUBSET Nat]
      BY <2>0, <3>3, <3>4, EnqueueType
    <3> QED BY <2>0, <2>6, <3>5 DEF secretEvent
  <2> QED BY <2>1, <2>2, <2>3, <2>4, <2>5, <2>6 DEF Watch
<1>8. UNCHANGED <<pass, config, clock, script, seen>>
  BY <1>1 DEF Receive
<1> QED BY <1>0, <1>2, <1>3, <1>7, <1>8 DEF Controls

LEMMA PolicyControls ==
  ASSUME TypeInv, PolicyController
  PROVE  Controls'
<1>0. Histories /\ Controls
  BY TypeInvParts
<1>1. /\ queue \in [Controllers -> SUBSET Nat] /\ pass \in [{"policy", "user"} -> Passes]
      /\ pass.policy \in Passes /\ pass.policy.key \in Nat
      /\ "policy" \in Controllers
  BY <1>0 DEF Controls, Passes, Controllers
<1>2. CASE \E p \in queue.policy : policyPass(p)
  <2>1. PICK p \in queue.policy : policyPass(p)
    BY <1>2
  <2> DEFINE r == IF p \in DOMAIN View.policy THEN policyResolution(View, p) ELSE Idle
  <2>2. r \in Passes /\ (r.at = "idle" <=> r = Idle) /\ r.todo \subseteq r.nodes
    BY <1>0, IdlePasses, ResolutionType
  <2>3. pass' = [pass EXCEPT !.policy = r] /\ queue' = [queue EXCEPT !.policy = @ \ {p}]
    BY <2>1 DEF policyPass
  <2> HIDE DEF r
  <2> QED BY <1>0, <1>1, <2>1, <2>2, <2>3 DEF Controls, policyPass
<1>3. ASSUME NEW err, EndPolicyPass(err)
      PROVE  /\ queue' \in [Controllers -> SUBSET Nat]
             /\ pass' \in [{"policy", "user"} -> Passes]
             /\ \A w \in {"policy", "user"} :
                  /\ pass'[w].at = "idle" <=> pass'[w] = Idle
                  /\ pass'[w].todo \subseteq pass'[w].nodes
  BY <1>0, <1>1, <1>3, IdlePasses DEF EndPolicyPass, Controls
<1>4. CASE policyUpdateStatus
  <2>1. /\ UNCHANGED <<config, clock, script, seen, missed>> /\ pass.policy.at = "status"
        /\ \/ \E err : EndPolicyPass(err)
           \/ pass' = [pass EXCEPT !.policy.at = "trigger"] /\ UNCHANGED queue
    BY <1>4, Zenon DEF policyUpdateStatus
  <2>2. CASE \E err : EndPolicyPass(err)
    BY <1>0, <1>3, <2>1, <2>2 DEF Controls
  <2>3. CASE pass' = [pass EXCEPT !.policy.at = "trigger"] /\ UNCHANGED queue
    <3> DEFINE r == [pass.policy EXCEPT !.at = "trigger"]
    <3>1. pass' = [pass EXCEPT !.policy = r]
      BY <1>1, <2>3
    <3>2. r \in Passes /\ r.at = "trigger" /\ r.todo \subseteq r.nodes /\ r # Idle
      BY <1>0, <1>1, IdlePasses DEF Passes, Controls
    <3> HIDE DEF r
    <3> QED BY <1>0, <1>1, <2>1, <2>3, <3>1, <3>2 DEF Controls
  <2> QED BY <2>1, <2>2, <2>3
<1>5. CASE policyTrigger
  <2>1. PICK n \in pass.policy.todo :
          /\ triggerNodeReconcile(n)
          /\ \/ \E err : EndPolicyPass(err)
             \/ pass' = [pass EXCEPT !.policy.todo = @ \ {n}] /\ UNCHANGED queue
    BY <1>5, Zenon DEF policyTrigger
  <2>2. UNCHANGED <<config, clock, script, seen>> /\ pass.policy.at = "trigger" /\ n \in Nat
    BY <1>1, <1>5 DEF policyTrigger, Passes
  <2>3. missed' \subseteq {"node", "user"} \X Nat
    BY <1>0, <2>1, <2>2 DEF triggerNodeReconcile, Controls
  <2>4. CASE \E err : EndPolicyPass(err)
    BY <1>0, <1>3, <2>2, <2>3, <2>4 DEF Controls
  <2>5. CASE pass' = [pass EXCEPT !.policy.todo = @ \ {n}] /\ UNCHANGED queue
    <3> DEFINE r == [pass.policy EXCEPT !.todo = pass.policy.todo \ {n}]
    <3>1. pass' = [pass EXCEPT !.policy = r]
      BY <1>1, <2>5
    <3>2. r \in Passes /\ r.at = "trigger" /\ r.todo \subseteq r.nodes /\ r # Idle
      BY <1>0, <1>1, <2>2, IdlePasses DEF Passes, Controls
    <3> HIDE DEF r
    <3> QED BY <1>0, <1>1, <2>2, <2>3, <2>5, <3>1, <3>2, ZenonT(30) DEF Controls
  <2> QED BY <2>1, <2>4, <2>5
<1> QED BY <1>2, <1>4, <1>5 DEF PolicyController

LEMMA UserControls ==
  ASSUME TypeInv, UserController
  PROVE  Controls'
<1>0. Histories /\ Controls
  BY TypeInvParts
<1>1. /\ queue \in [Controllers -> SUBSET Nat] /\ pass \in [{"policy", "user"} -> Passes]
      /\ pass.user \in Passes /\ pass.user.key \in Nat
      /\ "user" \in Controllers
  BY <1>0 DEF Controls, Passes, Controllers
<1>2. CASE \E u \in queue.user : userPass(u)
  <2>1. PICK u \in queue.user : userPass(u)
    BY <1>2
  <2> DEFINE nodes == findMatchingInboundNodes(View, u)
             r == IF u \in DOMAIN View.user
                  THEN [Idle EXCEPT !.key = u, !.at = "trigger", !.todo = nodes, !.nodes = nodes]
                  ELSE Idle
  <2>2. r \in Passes /\ (r.at = "idle" <=> r = Idle) /\ r.todo \subseteq r.nodes
    <3>1. nodes \subseteq Nat
      BY <1>0, CachedObjects, Zenon DEF findMatchingInboundNodes, inbounds, Objects, Names
    <3>2. u \in Nat
      BY <1>1
    <3> HIDE DEF nodes
    <3> QED BY <3>1, <3>2, IdlePasses, Zenon DEF Passes
  <2>3. pass' = [pass EXCEPT !.user = r] /\ queue' = [queue EXCEPT !.user = @ \ {u}]
    BY <2>1 DEF userPass
  <2>4. UNCHANGED <<config, clock, script, seen>> /\ missed' \subseteq missed
    BY <2>1 DEF userPass
  <2> HIDE DEF r
  <2> QED BY <1>0, <1>1, <2>2, <2>3, <2>4 DEF Controls
<1>3. CASE userTrigger
  <2>1. PICK n \in pass.user.todo :
          triggerNodeReconcile(n) /\ pass' = [pass EXCEPT !.user.todo = @ \ {n}]
    BY <1>3 DEF userTrigger
  <2>2. UNCHANGED <<queue, config, clock, script, seen>> /\ pass.user.at = "trigger" /\ n \in Nat
    BY <1>1, <1>3 DEF userTrigger, Passes
  <2>3. missed' \subseteq {"node", "user"} \X Nat
    BY <1>0, <2>1, <2>2 DEF triggerNodeReconcile, Controls
  <2> DEFINE r == [pass.user EXCEPT !.todo = pass.user.todo \ {n}]
  <2>4. pass' = [pass EXCEPT !.user = r]
    BY <1>1, <2>1
  <2>5. r \in Passes /\ r.at = "trigger" /\ r.todo \subseteq r.nodes /\ r # Idle
    BY <1>0, <1>1, <2>2, IdlePasses DEF Passes, Controls
  <2> HIDE DEF r
  <2> QED BY <1>0, <1>1, <2>2, <2>3, <2>4, <2>5 DEF Controls
<1>4. CASE userUpdateStatus
  BY <1>0, <1>1, <1>4, IdlePasses DEF userUpdateStatus, Controls
<1> QED BY <1>2, <1>3, <1>4 DEF UserController

LEMMA QuietlyControls ==
  ASSUME TypeInv, Quietly
  PROVE  Controls' /\ Histories' /\ Stamped'
<1>0. Histories /\ Controls /\ Stamped
  BY TypeInvParts
<1>1. clock \in Nat /\ clock' \in Nat /\ clock <= clock'
  <2>1. clock \in 1 .. MaxClock
    BY <1>0 DEF Controls
  <2>2. clock' = clock \/ clock' = clock + 1
    BY Zenon
       DEF Quietly, Controller, PolicyController, policyPass, policyUpdateStatus, policyTrigger,
           UserController, userPass, userTrigger, userUpdateStatus, GroupController,
           userGroupPass, ExternalController, externalPass, NodeController, nodePass, nodeGone,
           UserEdit, Tick, Resync, vars
  <2> QED BY <2>1, <2>2, ClockAssumption
<1>2. Writes
  BY <1>0, <1>1, QuietlyWrites DEF Controls
<1>3. Histories' /\ Stamped'
  BY <1>0, <1>1, <1>2, WritesKeepHistories, StampedWrites
<1>4. Controls'
  <2>1. CASE UNCHANGED vars
    BY <1>0, <2>1 DEF Controls, vars
  <2>2. CASE Tick
    <3>1. clock' \in 1 .. MaxClock
      BY <1>0, <2>2, ClockAssumption DEF Tick, Controls
    <3> QED BY <1>0, <2>2, <3>1 DEF Tick, Controls
  <2>3. CASE Resync
    <3>1. DOMAIN View.sbn \subseteq Nat
      BY <1>0, CachedObjects DEF Objects, Names
    <3>2. queue' \in [Controllers -> SUBSET Nat]
      BY <1>0, <2>3, <3>1, EnqueueType DEF Resync, Controls
    <3> QED BY <1>0, <2>3, <3>2 DEF Resync, Controls
  <2>4. CASE UserEdit
    BY <1>0, <2>4 DEF UserEdit, Controls
  <2>5. CASE GroupController
    <3>1. PICK g \in queue.group : userGroupPass(g)
      BY <2>5 DEF GroupController
    <3>2. Members(g) \subseteq Nat
      BY <1>0, CachedObjects, Zenon DEF Members, Objects, Names
    <3> QED BY <1>0, <3>1, <3>2 DEF userGroupPass, Controls
  <2>6. CASE ExternalController
    BY <1>0, <2>6 DEF ExternalController, externalPass, Controls
  <2>7. CASE NodeController
    BY <1>0, <2>7 DEF NodeController, nodePass, nodeGone, Controls, With, Without
  <2> QED BY <2>1, <2>2, <2>3, <2>4, <2>5, <2>6, <2>7, PolicyControls, UserControls
          DEF Quietly, Controller
<1> QED BY <1>3, <1>4

LEMMA TypeInvariance == Spec => []TypeInv
<1>1. Init => TypeInv
  <2> SUFFICES ASSUME Init PROVE TypeInv
    OBVIOUS
  <2>1. Histories
    BY InitHistories
  <2>2. Controls
    BY IdlePasses, ClockAssumption DEF Init, Controls
  <2>3. Stamped
    <3>1. Stored("sbn") = [n \in DOMAIN Start.sbn |->
                             [Start.sbn[n] EXCEPT !.hash = Wanted(StartCluster, n)]]
      BY DEF Init, Stored, Current, Listed, Kinds
    <3>2. ASSUME NEW n \in DOMAIN Start.sbn
          PROVE  Start.sbn[n].stamp = 0 /\ "stamp" \in DOMAIN Start.sbn[n]
      <4>1. Objects("sbn", Start["sbn"]) /\ Untriggered("sbn", Start["sbn"][n])
        BY StartAssumption DEF Kinds
      <4> QED BY <4>1 DEF Untriggered, Objects, Kept
    <3>3. ASSUME NEW n \in DOMAIN Start.sbn PROVE Stored("sbn")[n].stamp = 0
      BY <3>1, <3>2
    <3> QED BY <3>1, <3>3 DEF Init, Stamped
  <2> QED BY <2>1, <2>2, <2>3, TypeInvParts
<1>2. TypeInv /\ [Next]_vars => TypeInv'
  <2> SUFFICES ASSUME TypeInv, [Next]_vars PROVE Histories' /\ Controls' /\ Stamped'
    BY TypeInvParts, PTL
  <2>1. CASE Watch
    BY <2>1, EventControls
  <2>2. CASE Quietly
    BY <2>2, QuietlyControls
  <2>3. CASE Restart
    <3>1. Histories /\ Controls /\ Stamped
      BY TypeInvParts
    <3>2. Histories' /\ \A k \in Kinds : Current(obj'[k]) = Current(obj[k])
      BY <2>3, <3>1, RestartLists
    <3>3. Stamped'
      BY <2>3, <3>1, <3>2 DEF Stamped, Stored, Restart, Kinds
    <3>4. queue' \in [Controllers -> SUBSET Nat]
      <4>1. \A k \in Kinds \ {"secrets"} : DOMAIN Stored(k) \subseteq Nat
        BY <3>1, StoredObjects, ZenonT(30) DEF Objects, Names
      <4>2. /\ DOMAIN Now.sbn \subseteq Nat /\ DOMAIN Now.policy \subseteq Nat
            /\ DOMAIN Now.eob \subseteq Nat /\ DOMAIN Now.user \subseteq Nat
            /\ DOMAIN Now.group \subseteq Nat
        BY <4>1 DEF Now, Kinds
      <4>3. queue' = [node |-> DOMAIN Now.sbn, policy |-> DOMAIN Now.policy,
                      external |-> DOMAIN Now.eob, user |-> DOMAIN Now.user,
                      group |-> DOMAIN Now.group]
        BY <2>3, Zenon DEF Restart
      <4> DEFINE a == DOMAIN Now.sbn
                 b == DOMAIN Now.policy
                 c == DOMAIN Now.eob
                 d == DOMAIN Now.user
                 e == DOMAIN Now.group
      <4>4. queue' = [node |-> a, policy |-> b, external |-> c, user |-> d, group |-> e]
        BY <4>3, Zenon
      <4>5. a \in SUBSET Nat /\ b \in SUBSET Nat /\ c \in SUBSET Nat /\ d \in SUBSET Nat
            /\ e \in SUBSET Nat
        BY <4>2, Zenon
      <4> HIDE DEF a, b, c, d, e
      <4>6. /\ DOMAIN queue' = Controllers /\ queue'["node"] = a /\ queue'["policy"] = b
            /\ queue'["external"] = c /\ queue'["user"] = d /\ queue'["group"] = e
        BY <4>4 DEF Controllers
      <4>7. \A x \in Controllers : queue'[x] \in SUBSET Nat
        BY <4>5, <4>6, Zenon DEF Controllers
      <4>8. queue' = [x \in Controllers |-> queue'[x]]
        BY <4>4, <4>6
      <4> QED BY <4>7, <4>8, Zenon
    <3>5. pass' = [w \in {"policy", "user"} |-> Idle]
      BY <2>3, <3>1 DEF Restart, Controls
    <3>6. DOMAIN config' = DOMAIN seen'
      BY <2>3, <3>1 DEF Restart, Controls
    <3>7. \E all \in Scripts : script' \subseteq all
      BY <2>3, <3>1 DEF Restart, Controls
    <3>8. clock' = clock /\ missed' = missed
      BY <2>3 DEF Restart
    <3> QED BY <3>1, <3>2, <3>3, <3>4, <3>5, <3>6, <3>7, <3>8, IdlePasses DEF Controls
  <2> QED BY <2>1, <2>2, <2>3 DEF Next, Quietly
<1> QED BY <1>1, <1>2, PTL DEF Spec

(* The workqueues, passes, ConfigMaps and trigger stamps of the five       *)
(* controllers stay well formed: no reconciler queues or remembers what    *)
(* could not be an object, a pass has a key exactly while it is under way, *)
(* and no stored reconcile-trigger annotation comes from the future.       *)
THEOREM ControlPlaneTyped == Spec => []TypeOK
<1>1. TypeInv => TypeOK
  BY DEF TypeInv
<1> QED BY <1>1, TypeInvariance, PTL

(* No trigger and no status update, though each writes back a whole cached *)
(* object, reverts a user's edit, label or deletion; no group's patch      *)
(* changes more than the annotation; ensureRelayCredential replaces no     *)
(* stored credential.  Each write is refused unless no event of its object *)
(* is outstanding, and the copy is then the stored one.                    *)
THEOREM EditsAreKept == Spec => NoEditIsUndone
<1>1. TypeInv /\ [Next]_vars => [script' = script => KeepsEdits]_vars
  <2> SUFFICES ASSUME TypeInv, Next, script' = script PROVE KeepsEdits
    BY DEF vars
  <2>1. Histories /\ clock \in Nat
    BY ClockAssumption DEF TypeInv, TypeOK
  <2>2. CASE Controller
    BY <2>1, <2>2, ControllerKeeps
  <2>3. CASE Watch
    <3>1. \E k \in Kinds : Receive(k)
      BY <2>3, Zenon DEF Watch, singBoxNodeEvent, externalOutboundEvent, egressPolicyEvent,
                 userEvent, userGroupEvent, secretEvent, Kinds
    <3> QED BY <2>1, <3>1, ReceiveDelivers, StoredStays
  <2>4. CASE Tick \/ Resync
    BY <2>4, StoredStays DEF Tick, Resync
  <2>5. ~UserEdit /\ ~Restart
    BY ZenonT(30) DEF UserEdit, Restart
  <2> QED BY <2>2, <2>3, <2>4, <2>5 DEF Next
<1> QED BY <1>1, TypeInvariance, PTL DEF Spec, NoEditIsUndone
-----------------------------------------------------------------------------
(* What one step shows of the other steps' work.                           *)

LEMMA ReceiveView ==
  ASSUME Histories, NEW k \in Kinds, Receive(k)
  PROVE  /\ k # "sbn"     => View'.sbn = View.sbn /\ obj'["sbn"] = obj["sbn"]
         /\ k # "eob"     => View'.eob = View.eob /\ obj'["eob"] = obj["eob"]
         /\ k # "policy"  => View'.policy = View.policy /\ obj'["policy"] = obj["policy"]
         /\ k # "user"    => View'.user = View.user /\ obj'["user"] = obj["user"]
         /\ k # "group"   => View'.group = View.group
         /\ k # "secrets" => /\ View'.secret = View.secret /\ View'.relay = View.relay
                             /\ View'.auth = View.auth
<1>1. \A j \in Kinds \ {k} : obj'[j] = obj[j]
  BY ReceiveDelivers, Zenon
<1>2. /\ k # "sbn" => obj'["sbn"] = obj["sbn"]
      /\ k # "eob" => obj'["eob"] = obj["eob"]
      /\ k # "policy" => obj'["policy"] = obj["policy"]
      /\ k # "user" => obj'["user"] = obj["user"]
      /\ k # "group" => obj'["group"] = obj["group"]
      /\ k # "secrets" => obj'["secrets"] = obj["secrets"]
  BY <1>1 DEF Kinds
<1> QED BY <1>2, Zenon DEF View

LEMMA Enqueued ==
  ASSUME NEW r, Enqueue(r)
  PROVE  \A c \in Controllers : /\ queue[c] \subseteq queue'[c]
                                /\ c \in DOMAIN r => r[c] \subseteq queue'[c]
BY DEF Enqueue

(* An update that leaves the copy current has changed nothing.             *)
LEMMA UpdateShown ==
  ASSUME Histories, NEW k \in Kinds, NEW x \in DOMAIN obj[k].cache, NEW o,
         FreshFor(k, x), obj' = Update(k, x, o), UpToDate(obj'[k], x)
  PROVE  obj[k].cache[x] = o
<1> DEFINE v == With(Stored(k), x, o)
<1>1. IsObject(obj[k])
  BY DEF Histories, History
<1>2. x \in DOMAIN v /\ v[x] = o
  BY DEF With
<1>3. CASE v = Stored(k)
  BY <1>1, <1>2, <1>3, UpToDateCurrent DEF FreshFor, Same, Stored
<1>4. CASE v # Stored(k)
  <2>1. obj'[k] = Commit(obj[k], v)
    BY <1>4 DEF Update, Store, Histories
  <2>2. Same(v, obj[k].cache, x)
    BY <1>1, <2>1, UpToDateCommit
  <2> QED BY <1>2, <2>2 DEF Same
<1> QED BY <1>3, <1>4

LEMMA AtRest ==
  ASSUME Histories, Quiet
  PROVE  /\ View = Now
         /\ \A k \in Kinds : \A x : FreshFor(k, x)
<1>1. ASSUME NEW k \in Kinds
      PROVE  obj[k].cache = Current(obj[k]) /\ \A x : UpToDate(obj[k], x)
  <2>1. obj[k].watch = << >>
    BY DEF Quiet, Fresh
  <2> QED BY <2>1 DEF Current, UpToDate
<1>2. View = Now
  <2>1. /\ obj.sbn.cache = Stored("sbn") /\ obj.eob.cache = Stored("eob")
        /\ obj.policy.cache = Stored("policy") /\ obj.user.cache = Stored("user")
        /\ obj.group.cache = Stored("group") /\ obj.secrets.cache = Stored("secrets")
    BY <1>1 DEF Kinds, Stored
  <2> QED BY <2>1 DEF View, Now
<1> QED BY <1>1, <1>2 DEF FreshFor

LEMMA AtFirst ==
  ASSUME Init
  PROVE  /\ View.eob = StartCluster.eob /\ View.policy = StartCluster.policy
         /\ View.user = StartCluster.user /\ View.group = StartCluster.group
         /\ View.relay = StartCluster.relay /\ View.secret = StartCluster.secret
         /\ View.auth = StartCluster.auth
         /\ View.sbn = [n \in DOMAIN Start.sbn |->
                          [Start.sbn[n] EXCEPT !.hash = Wanted(StartCluster, n)]]
BY Zenon DEF Init, View, StartCluster, Listed, Kinds

(* An event that passes neither the generation nor the label predicate     *)
(* changes no field of a user.                                             *)
LEMMA StatusEventKeepsSpecs ==
  ASSUME Histories, NEW k \in {"sbn", "eob"}, Receive(k),
         ~\E x \in Changed(obj[k].cache, Head(obj[k].watch)) :
            \/ GenerationChanged(x, obj[k].cache, Head(obj[k].watch))
            \/ LabelChanged(x, obj[k].cache, Head(obj[k].watch))
  PROVE  /\ DOMAIN obj[k].cache = DOMAIN obj'[k].cache
         /\ \A x \in DOMAIN obj[k].cache : \A h \in Editable[k] :
              obj[k].cache[x][h] = obj'[k].cache[x][h]
<1> DEFINE f == obj[k].cache
           g == obj'[k].cache
<1>1. Follows(k, f, g) /\ g = Head(obj[k].watch)
  BY ReceiveDelivers, ZenonT(30) DEF Kinds
<1>2. DOMAIN f = DOMAIN g
  BY <1>1, ZenonT(30) DEF Changed, Same, GenerationChanged
<1>3. ASSUME NEW x \in DOMAIN f, f[x] # g[x], NEW h \in Editable[k] PROVE f[x][h] = g[x][h]
  <2>1. x \in Changed(f, g)
    BY <1>2, <1>3 DEF Changed, Same
  <2>2. f[x].gen = g[x].gen /\ f[x].labels = g[x].labels
    BY <1>1, <1>2, <2>1 DEF GenerationChanged, LabelChanged
  <2>3. CASE h = "labels"
    BY <2>2, <2>3
  <2>4. CASE h # "labels"
    BY <1>1, <1>2, <1>3, <2>2, <2>4, Zenon DEF Follows, Watched, SpecOf
  <2> QED BY <2>3, <2>4
<1> QED BY <1>2, <1>3
=============================================================================
