---------------------------- MODULE UsageProofs -----------------------------
(***************************************************************************)
(* Proofs about UsageCollector, for any number of nodes, users, replicas   *)
(* and units of traffic: types, no unit counted twice or for somebody      *)
(* else, and the contract of Write.                                        *)
(***************************************************************************)
EXTENDS UsageLedger, TLAPS

(* Every unit on record x was carried for what x says.                     *)
Attributed(x) ==
  /\ \A b \in x.up : carried[b] = [inbound |-> x.inbound, user |-> x.user,
                                   node |-> x.node, dir |-> "uplink"]
  /\ \A b \in x.down : carried[b] = [inbound |-> x.inbound, user |-> x.user,
                                     node |-> x.node, dir |-> "downlink"]

(* The records made of one node's counters carry the cycle's time and the  *)
(* node's name, hold units of these counters only, are attributed right,   *)
(* and there is one for each user and outbound node.                       *)
LEMMA RecordsFacts ==
  ASSUME TypeOK, NEW n \in Nodes, NEW t \in Times,
         NEW E \in SUBSET Bytes,
         \A b \in E : carried[b] \in Origins /\ carried[b].inbound = n
  PROVE  /\ RecordsOf(n, E, t) \subseteq UsageRecord
         /\ \A x \in RecordsOf(n, E, t) :
              x.at = t /\ x.inbound = n /\ UnitsOf(x) \subseteq E /\ Attributed(x)
         /\ \A x, y \in RecordsOf(n, E, t) :
              x.user = y.user /\ x.node = y.node => x = y
<1> DEFINE key(b) == {c \in E : carried[c].user = carried[b].user
                                /\ carried[c].node = carried[b].node}
           rec(b) == [inbound |-> n, user |-> carried[b].user, node |-> carried[b].node,
                      at |-> t,
                      up   |-> {c \in key(b) : carried[c].dir = "uplink"},
                      down |-> {c \in key(b) : carried[c].dir = "downlink"}]
<1>1. RecordsOf(n, E, t) = {rec(b) : b \in E}
  BY DEF RecordsOf
<1>2. ASSUME NEW b \in E
      PROVE  rec(b) \in UsageRecord
  <2>1. carried[b].user \in Users /\ carried[b].node \in Outs
    BY DEF Origins
  <2>2. key(b) \subseteq Bytes
    OBVIOUS
  <2> QED
    BY <2>1, <2>2 DEF UsageRecord
<1>3. ASSUME NEW b \in E
      PROVE  /\ rec(b).at = t /\ rec(b).inbound = n
             /\ UnitsOf(rec(b)) \subseteq E
             /\ rec(b).user = carried[b].user /\ rec(b).node = carried[b].node
  BY DEF UnitsOf
<1>4. ASSUME NEW b \in E
      PROVE  Attributed(rec(b))
  <2>1. ASSUME NEW c \in key(b)
        PROVE  carried[c] = [inbound |-> n, user |-> carried[b].user,
                             node |-> carried[b].node, dir |-> carried[c].dir]
    BY DEF Origins
  <2> QED
    BY <2>1 DEF Attributed
<1>5. ASSUME NEW b \in E, NEW c \in E,
             carried[b].user = carried[c].user, carried[b].node = carried[c].node
      PROVE  rec(b) = rec(c)
  BY <1>5
<1> HIDE DEF rec
<1> QED
  BY <1>1, <1>2, <1>3, <1>4, <1>5

-----------------------------------------------------------------------------
(* The steps of the system as far as the counters, the batches and the     *)
(* documents go: a cycle ends, having stored some of its records; a node   *)
(* is drained into a batch; units are lost from the counters; a unit is    *)
(* carried.                                                                *)

Settles ==
  \E r \in Replicas : /\ docs \subseteq docs' /\ docs' \subseteq docs \cup batch[r]
                      /\ batch' = [batch EXCEPT ![r] = {}]
                      /\ UNCHANGED <<carried, pending>>

Drains ==
  \E r \in Replicas, n \in Nodes :
    /\ pc[r] = "polling" /\ n \in todo[r]
    /\ batch' = [batch EXCEPT ![r] = @ \cup RecordsOf(n, CountersOf(n), at[r])]
    /\ pending' = pending \ CountersOf(n)
    /\ UNCHANGED <<carried, docs>>

Forgets ==
  /\ pending' \subseteq pending
  /\ UNCHANGED <<carried, docs, batch>>

Carries ==
  \E b \in Bytes, o \in Origins :
    /\ carried[b] = None
    /\ carried' = [carried EXCEPT ![b] = o]
    /\ pending' = pending \cup {b}
    /\ UNCHANGED <<docs, batch>>

(* Every step of the system is one of them.                                *)
LEMMA FlowStep ==
  ASSUME TypeOK, [Next]_vars
  PROVE  Settles \/ Drains \/ Forgets \/ Carries
<1>1. ASSUME NEW r \in Replicas, CycleEnds(r), docs' = docs
      PROVE  Settles
  BY <1>1, Zenon DEF CycleEnds, Settles
<1>2. ASSUME NEW r \in Replicas, QueryNext(r)
      PROVE  Drains \/ Forgets
  <2>1. PICK n \in todo[r] : QueryUserStats(r, n) \/ QueryFails(r, n) \/ ReplyLost(r, n)
    BY <1>2 DEF QueryNext
  <2>2. n \in Nodes /\ pc[r] = "polling" /\ UNCHANGED <<carried, docs>>
    BY <1>2 DEF QueryNext, TypeOK
  <2>3. CASE QueryUserStats(r, n)
    BY <2>2, <2>3, Zenon DEF QueryUserStats, Drains
  <2>4. CASE QueryFails(r, n)
    BY <2>2, <2>4 DEF QueryFails, Forgets
  <2>5. CASE ReplyLost(r, n)
    BY <2>2, <2>5 DEF ReplyLost, Forgets
  <2> QED
    BY <2>1, <2>3, <2>4, <2>5
<1>3. ASSUME NEW r \in Replicas, Write(r) \/ WriteFails(r)
      PROVE  Settles
  <2>1. CycleEnds(r) /\ docs \subseteq docs' /\ docs' \subseteq docs \cup batch[r]
    BY <1>3, Zenon DEF Write, WriteFails
  <2> QED
    BY <2>1, Zenon DEF CycleEnds, Settles
<1>4. ASSUME NEW r \in Replicas, Run(r)
      PROVE  Settles \/ Drains \/ Forgets
  <2>1. CASE NoRecords(r) \/ WriteCancelled(r)
    BY <1>1, <2>1 DEF NoRecords, WriteCancelled
  <2>2. CASE Discover(r) \/ Stop(r)
    BY <2>2 DEF Discover, Stop, cluster, cycle, Forgets
  <2> QED
    BY <1>2, <1>3, <1>4, <2>1, <2>2 DEF Run
<1>5. ASSUME NEW r \in Replicas, Elected(r) \/ Cancel(r)
      PROVE  Forgets
  BY <1>5 DEF Elected, Cancel, cluster, cycle, Forgets
<1>6. ASSUME NEW r \in Replicas, Crash(r)
      PROVE  Settles
  BY <1>6, Zenon DEF Crash, cluster, Settles
<1>7. ASSUME LeaseExpires
      PROVE  Forgets
  BY <1>7 DEF LeaseExpires, cluster, cycle, Forgets
<1>8. ASSUME NEW b \in Bytes, Carry(b)
      PROVE  Carries
  BY <1>8, Zenon DEF Carry, cycle, Carries
<1>9. ASSUME NEW n \in Nodes, PodRestarts(n)
      PROVE  Forgets
  BY <1>9 DEF PodRestarts, cycle, Forgets
<1>10. ASSUME UNCHANGED vars
       PROVE  Forgets
  BY <1>10 DEF vars, cluster, cycle, Forgets
<1> QED
  BY <1>4, <1>5, <1>6, <1>7, <1>8, <1>9, <1>10 DEF Next

-----------------------------------------------------------------------------
(* Where a unit can be.  Stronger than CountedOnce by what the batches on  *)
(* their way hold, and by the counters holding carried units only.         *)
CountInv ==
  /\ \A b \in pending : carried[b] # None
  /\ \A d \in docs : Attributed(d) /\ \A b \in UnitsOf(d) : b \notin pending
  /\ \A d, e \in docs : \A b \in UnitsOf(d) : b \in UnitsOf(e) => d = e
  /\ \A r \in Replicas : \A x \in batch[r] :
       /\ Attributed(x)
       /\ \A b \in UnitsOf(x) : b \notin pending
       /\ \A d \in docs : \A b \in UnitsOf(x) : b \notin UnitsOf(d)
       /\ \A q \in Replicas : \A y \in batch[q] : \A b \in UnitsOf(x) :
            b \in UnitsOf(y) => r = q /\ x = y

(* Whose cycle a record belongs to: clock readings identify cycles, a      *)
(* cycle has one record for each document id, of nodes already queried.    *)
IdInv ==
  /\ \A r \in Replicas : IF pc[r] = "polling" THEN at[r] # None
                                              ELSE at[r] = None /\ batch[r] = {}
  /\ \A r \in Replicas : \A d \in docs : d.at # at[r]
  /\ \A r, q \in Replicas : r # q /\ at[r] = at[q] => at[r] = None
  /\ \A r \in Replicas : \A x \in batch[r] :
       /\ x.at = at[r] /\ x.inbound \notin todo[r]
       /\ \A y \in batch[r] : DocumentKey(x) = DocumentKey(y) => x = y

(* Draining a node that is still to be queried.                            *)
LEMMA DrainFacts ==
  ASSUME TypeOK, IdInv, \A b \in pending : carried[b] # None,
         NEW r \in Replicas, NEW n \in Nodes, pc[r] = "polling"
  PROVE  /\ RecordsOf(n, CountersOf(n), at[r]) \subseteq UsageRecord
         /\ \A x \in RecordsOf(n, CountersOf(n), at[r]) :
              /\ x.at = at[r] /\ x.inbound = n
              /\ UnitsOf(x) \subseteq CountersOf(n)
              /\ Attributed(x)
         /\ \A x, y \in RecordsOf(n, CountersOf(n), at[r]) :
              x.user = y.user /\ x.node = y.node => x = y
<1>1. at[r] \in Times
  BY DEF TypeOK, IdInv
<1>2. CountersOf(n) \in SUBSET Bytes
  BY DEF CountersOf, TypeOK
<1>3. \A b \in CountersOf(n) : carried[b] \in Origins /\ carried[b].inbound = n
  BY DEF CountersOf, TypeOK
<1> QED
  BY <1>1, <1>2, <1>3, RecordsFacts

(* A step keeps the types.                                                 *)
LEMMA TypeStep ==
  ASSUME TypeOK, IdInv, CountInv, [Next]_vars
  PROVE  TypeOK'
<1>1. ASSUME Settles
      PROVE  docs' \subseteq UsageRecord /\ batch' \in [Replicas -> SUBSET UsageRecord]
             /\ carried' = carried /\ pending' = pending
  BY <1>1 DEF Settles, TypeOK
<1>2. ASSUME Drains
      PROVE  docs' \subseteq UsageRecord /\ batch' \in [Replicas -> SUBSET UsageRecord]
             /\ carried' = carried /\ pending' \subseteq Bytes
  <2>1. PICK r \in Replicas, n \in Nodes :
          /\ pc[r] = "polling" /\ n \in todo[r]
          /\ batch' = [batch EXCEPT ![r] = @ \cup RecordsOf(n, CountersOf(n), at[r])]
          /\ pending' = pending \ CountersOf(n)
          /\ UNCHANGED <<carried, docs>>
    BY <1>2, Zenon DEF Drains
  <2>2. RecordsOf(n, CountersOf(n), at[r]) \subseteq UsageRecord
    BY <2>1, DrainFacts DEF CountInv
  <2> QED
    BY <2>1, <2>2 DEF TypeOK
<1>3. ASSUME Forgets \/ Carries
      PROVE  docs' = docs /\ batch' = batch
             /\ carried' \in [Bytes -> Origins \cup {None}] /\ pending' \subseteq Bytes
  BY <1>3 DEF Forgets, Carries, TypeOK
<1>4. /\ docs' \subseteq UsageRecord /\ batch' \in [Replicas -> SUBSET UsageRecord]
      /\ carried' \in [Bytes -> Origins \cup {None}] /\ pending' \subseteq Bytes
  BY <1>1, <1>2, <1>3, FlowStep DEF TypeOK
<1>5. ASSUME NEW m \in Mishaps, Spend(m)
      PROVE  left' \in [Mishaps -> Nat]
  <2>1. left[m] - 1 \in Nat
    BY <1>5 DEF Spend, TypeOK
  <2> QED
    BY <1>5, <2>1, Zenon DEF Spend, TypeOK
<1>6. UnitsIn(UsageRecord) \subseteq Bytes
  BY DEF UnitsIn, UnitsOf, UsageRecord
<1>7. ASSUME NEW r \in Replicas
      PROVE  UnitsIn(batch[r]) \subseteq Bytes
  BY <1>6 DEF UnitsIn, TypeOK
<1> DEFINE Rest == /\ leader' \in Replicas \cup {None}
                   /\ pc' \in [Replicas -> {"stopped", "waiting", "polling"}]
                   /\ cancelled' \in [Replicas -> BOOLEAN]
                   /\ todo' \in [Replicas -> SUBSET Nodes]
                   /\ at' \in [Replicas -> Times \cup {None}]
                   /\ acked' \subseteq Bytes /\ aborted' \subseteq Bytes
                   /\ left' \in [Mishaps -> Nat]
<1>8. ASSUME NEW r \in Replicas, CycleEnds(r)
      PROVE  /\ leader' \in Replicas \cup {None}
             /\ pc' \in [Replicas -> {"stopped", "waiting", "polling"}]
             /\ cancelled' \in [Replicas -> BOOLEAN]
             /\ todo' \in [Replicas -> SUBSET Nodes]
             /\ at' \in [Replicas -> Times \cup {None}]
  BY <1>8 DEF CycleEnds, TypeOK
<1>9. ASSUME NEW r \in Replicas, QueryNext(r)
      PROVE  Rest
  <2>1. left' \in [Mishaps -> Nat]
    BY <1>5, <1>9 DEF QueryNext, QueryUserStats, QueryFails, ReplyLost, Mishaps, TypeOK
  <2>2. todo' \in [Replicas -> SUBSET Nodes]
    BY <1>9 DEF QueryNext, TypeOK
  <2> QED
    BY <1>9, <2>1, <2>2 DEF QueryNext, process, ghosts, TypeOK
<1>10. ASSUME NEW r \in Replicas, Write(r)
       PROVE  Rest
  <2>1. left' \in [Mishaps -> Nat]
    BY <1>5, <1>10 DEF Write, Mishaps, TypeOK
  <2>2. acked' \subseteq Bytes /\ aborted' \subseteq Bytes
    BY <1>7, <1>10 DEF Write, TypeOK
  <2>3. CycleEnds(r)
    BY <1>10 DEF Write
  <2> QED
    BY <1>8, <2>1, <2>2, <2>3
<1>11. ASSUME NEW r \in Replicas, WriteFails(r) \/ WriteCancelled(r) \/ NoRecords(r)
       PROVE  Rest
  <2>1. left' \in [Mishaps -> Nat]
    BY <1>5, <1>11 DEF WriteFails, WriteCancelled, NoRecords, Mishaps, TypeOK
  <2>2. acked' \subseteq Bytes /\ aborted' \subseteq Bytes
    BY <1>7, <1>11 DEF WriteFails, WriteCancelled, NoRecords, ghosts, TypeOK
  <2>3. CycleEnds(r)
    BY <1>11 DEF WriteFails, WriteCancelled, NoRecords
  <2> QED
    BY <1>8, <2>1, <2>2, <2>3
<1>12. ASSUME NEW r \in Replicas, Discover(r) \/ Stop(r) \/ Elected(r)
       PROVE  Rest
  <2>1. CASE Discover(r)
    BY <2>1 DEF Discover, ghosts, TypeOK
  <2>2. CASE Stop(r)
    BY <2>2 DEF Stop, cycle, ghosts, TypeOK
  <2>3. CASE Elected(r)
    <3>1. cancelled' \in [Replicas -> BOOLEAN]
      BY <2>3, Zenon DEF Elected, TypeOK
    <3> QED
      BY <2>3, <3>1 DEF Elected, cycle, ghosts, TypeOK
  <2> QED
    BY <1>12, <2>1, <2>2, <2>3
<1>13. ASSUME NEW r \in Replicas, Cancel(r) \/ Crash(r)
       PROVE  Rest
  <2>1. left' \in [Mishaps -> Nat]
    BY <1>5, <1>13 DEF Cancel, Crash, Mishaps
  <2> QED
    BY <1>13, <2>1, ZenonT(30) DEF Cancel, Crash, cycle, ghosts, TypeOK
<1>14. ASSUME LeaseExpires \/ (\E n \in Nodes : PodRestarts(n))
       PROVE  Rest
  <2>1. left' \in [Mishaps -> Nat]
    BY <1>5, <1>14 DEF LeaseExpires, PodRestarts, Mishaps
  <2> QED
    BY <1>14, <2>1 DEF LeaseExpires, PodRestarts, process, cycle, ghosts, TypeOK
<1>15. ASSUME (\E b \in Bytes : Carry(b)) \/ UNCHANGED vars
       PROVE  Rest
  BY <1>15 DEF Carry, vars, process, cycle, ghosts, TypeOK
<1>16. Rest
  BY <1>9, <1>10, <1>11, <1>12, <1>13, <1>14, <1>15 DEF Next, Run
<1> QED
  BY <1>4, <1>16 DEF TypeOK

(* A step keeps every unit in one place and on the right record.           *)
LEMMA CountStep ==
  ASSUME TypeOK, IdInv, CountInv, [Next]_vars
  PROVE  CountInv'
<1>1. CASE Settles
  <2>1. PICK r \in Replicas : /\ docs' \subseteq docs \cup batch[r]
                              /\ batch' = [batch EXCEPT ![r] = {}]
                              /\ UNCHANGED <<carried, pending>>
    BY <1>1, Zenon DEF Settles
  <2>2. \A q \in Replicas : batch'[q] = IF q = r THEN {} ELSE batch[q]
    BY <2>1 DEF TypeOK
  <2>3. \A d \in docs' : Attributed(d)' /\ \A b \in UnitsOf(d) : b \notin pending'
    BY <2>1 DEF CountInv, Attributed
  <2>4. \A d, e \in docs' : \A b \in UnitsOf(d) : b \in UnitsOf(e) => d = e
    BY <2>1 DEF CountInv
  <2>5. \A q \in Replicas : \A x \in batch'[q] :
          /\ x \in batch[q] /\ q # r
          /\ Attributed(x)' /\ \A b \in UnitsOf(x) : b \notin pending'
    BY <2>1, <2>2 DEF CountInv, Attributed
  <2>6. \A q \in Replicas : \A x \in batch'[q] :
          \A d \in docs' : \A b \in UnitsOf(x) : b \notin UnitsOf(d)
    BY <2>1, <2>5 DEF CountInv
  <2>7. \A q, s \in Replicas : \A x \in batch'[q], y \in batch'[s] :
          \A b \in UnitsOf(x) : b \in UnitsOf(y) => q = s /\ x = y
    BY <2>5 DEF CountInv
  <2>8. \A b \in pending' : carried'[b] # None
    BY <2>1 DEF CountInv
  <2>9. \A q \in Replicas : \A x \in batch'[q] :
          /\ Attributed(x)'
          /\ \A b \in UnitsOf(x) : b \notin pending'
          /\ \A d \in docs' : \A b \in UnitsOf(x) : b \notin UnitsOf(d)
          /\ \A s \in Replicas : \A y \in batch'[s] : \A b \in UnitsOf(x) :
               b \in UnitsOf(y) => q = s /\ x = y
    BY <2>5, <2>6, <2>7, Zenon
  <2> QED
    BY <2>3, <2>4, <2>8, <2>9, Zenon DEF CountInv, UnitsOf
<1>2. CASE Drains
  <2>1. PICK r \in Replicas, n \in Nodes :
          /\ pc[r] = "polling" /\ n \in todo[r]
          /\ batch' = [batch EXCEPT ![r] = @ \cup RecordsOf(n, CountersOf(n), at[r])]
          /\ pending' = pending \ CountersOf(n)
          /\ UNCHANGED <<carried, docs>>
    BY <1>2, Zenon DEF Drains
  <2> DEFINE New == RecordsOf(n, CountersOf(n), at[r])
  <2>2. /\ \A x \in New : UnitsOf(x) \subseteq CountersOf(n) /\ Attributed(x)
        /\ \A x, y \in New : x.user = y.user /\ x.node = y.node => x = y
    BY <2>1, DrainFacts DEF CountInv
  <2> HIDE DEF New
  <2>3. \A q \in Replicas : batch'[q] = IF q = r THEN batch[q] \cup New ELSE batch[q]
    BY <2>1, Zenon DEF TypeOK, New
  <2>4. CountersOf(n) \subseteq pending
    BY DEF CountersOf
  <2>5. \A x, y \in New : \A b \in UnitsOf(x) : b \in UnitsOf(y) => x = y
    <3>1. ASSUME NEW x, Attributed(x), NEW b \in UnitsOf(x)
          PROVE  carried[b].user = x.user /\ carried[b].node = x.node
      BY <3>1 DEF UnitsOf, Attributed
    <3> QED
      BY <2>2, <3>1
  <2>6. \A q \in Replicas : \A x \in batch'[q] :
          /\ Attributed(x)' /\ \A b \in UnitsOf(x) : b \notin pending'
          /\ \A d \in docs' : \A b \in UnitsOf(x) : b \notin UnitsOf(d)
    <3>1. ASSUME NEW x, Attributed(x)
          PROVE  Attributed(x)'
      BY <2>1, <3>1 DEF Attributed
    <3>2. \A x \in New : /\ \A b \in UnitsOf(x) : b \notin pending'
                         /\ \A d \in docs' : \A b \in UnitsOf(x) : b \notin UnitsOf(d)
      BY <2>1, <2>2, <2>4 DEF CountInv
    <3>3. \A q \in Replicas : \A x \in batch[q] :
            /\ Attributed(x) /\ \A b \in UnitsOf(x) : b \notin pending'
            /\ \A d \in docs' : \A b \in UnitsOf(x) : b \notin UnitsOf(d)
      BY <2>1 DEF CountInv
    <3> QED
      BY <2>2, <2>3, <3>1, <3>2, <3>3, ZenonT(30)
  <2>7. \A q, s \in Replicas : \A x \in batch'[q], y \in batch'[s] :
          \A b \in UnitsOf(x) : b \in UnitsOf(y) => q = s /\ x = y
    <3>1. \A q \in Replicas : \A x \in batch'[q] : x \in batch[q] \/ (q = r /\ x \in New)
      BY <2>3, Zenon
    <3>2. \A q \in Replicas : \A x \in batch[q], y \in New :
            \A b \in UnitsOf(x) : b \notin UnitsOf(y)
      BY <2>2, <2>4 DEF CountInv
    <3>3. \A q, s \in Replicas : \A x \in batch[q], y \in batch[s] :
            \A b \in UnitsOf(x) : b \in UnitsOf(y) => q = s /\ x = y
      BY DEF CountInv
    <3> QED
      BY <2>5, <3>1, <3>2, <3>3
  <2>8. /\ \A b \in pending' : carried'[b] # None
        /\ \A d \in docs' : Attributed(d)' /\ \A b \in UnitsOf(d) : b \notin pending'
        /\ \A d, e \in docs' : \A b \in UnitsOf(d) : b \in UnitsOf(e) => d = e
    BY <2>1 DEF CountInv, Attributed
  <2> QED
    BY <2>6, <2>7, <2>8 DEF CountInv, UnitsOf
<1>3. CASE Forgets
  BY <1>3 DEF Forgets, CountInv, Attributed, UnitsOf
<1>4. CASE Carries
  <2>1. PICK b \in Bytes, o \in Origins :
          /\ carried[b] = None
          /\ carried' = [carried EXCEPT ![b] = o]
          /\ pending' = pending \cup {b}
          /\ UNCHANGED <<docs, batch>>
    BY <1>4, Zenon DEF Carries
  <2>2. o # None
    BY NoneIsNoOrigin
  <2>3. ASSUME NEW x \in UsageRecord, Attributed(x)
        PROVE  b \notin UnitsOf(x) /\ Attributed(x)'
    <3>1. \A c \in UnitsOf(x) : carried[c] \in Origins
      BY <2>3 DEF Attributed, UnitsOf, UsageRecord, Origins
    <3>2. b \notin UnitsOf(x)
      BY <2>1, <3>1, NoneIsNoOrigin
    <3>3. \A c \in UnitsOf(x) : carried'[c] = carried[c]
      BY <2>1, <3>2 DEF UnitsOf, UsageRecord, TypeOK
    <3> QED
      BY <2>3, <3>2, <3>3 DEF Attributed, UnitsOf
  <2>4. \A c \in pending' : carried'[c] # None
    BY <2>1, <2>2 DEF CountInv, TypeOK
  <2>5. \A d \in docs : Attributed(d)' /\ b \notin UnitsOf(d)
    BY <2>3 DEF CountInv, TypeOK
  <2>6. \A r \in Replicas : \A x \in batch[r] : Attributed(x)' /\ b \notin UnitsOf(x)
    BY <2>3 DEF CountInv, TypeOK
  <2> QED
    BY <2>1, <2>4, <2>5, <2>6 DEF CountInv, UnitsOf
<1> QED
  BY <1>1, <1>2, <1>3, <1>4, FlowStep

(* A cycle of r ends: its time may now be that of documents, and r has no  *)
(* batch and no time any more.                                             *)
LEMMA EndKeepsIds ==
  ASSUME TypeOK, IdInv, NEW r \in Replicas, pc[r] = "polling" \/ batch[r] = {},
         docs' \subseteq docs \cup batch[r],
         batch' = [batch EXCEPT ![r] = {}], at' = [at EXCEPT ![r] = None],
         \A q \in Replicas \ {r} : pc'[q] = pc[q] /\ todo'[q] = todo[q],
         pc'[r] # "polling"
  PROVE  IdInv'
<1>1. \A q \in Replicas : /\ batch'[q] = IF q = r THEN {} ELSE batch[q]
                          /\ at'[q] = IF q = r THEN None ELSE at[q]
  BY DEF TypeOK
<1>2. \A d \in docs' : d.at \in Times
  BY DEF TypeOK, UsageRecord
<1>3. \A d \in docs' : d \in docs \/ (d \in batch[r] /\ d.at = at[r])
  BY DEF IdInv
<1>4. \A q \in Replicas : \A d \in docs' : d.at # at'[q]
  <2>1. ASSUME NEW q \in Replicas, NEW d \in docs', q # r
        PROVE  d.at # at[q]
    BY <1>2, <1>3, <2>1, UsageAssumption DEF IdInv
  <2> QED
    BY <1>1, <1>2, <2>1, UsageAssumption
<1>5. \A q \in Replicas : IF pc'[q] = "polling" THEN at'[q] # None
                                                ELSE at'[q] = None /\ batch'[q] = {}
  BY <1>1 DEF IdInv
<1>6. \A q, s \in Replicas : q # s /\ at'[q] = at'[s] => at'[q] = None
  BY <1>1 DEF IdInv
<1>7. \A q \in Replicas : \A x \in batch'[q] :
        /\ x.at = at'[q] /\ x.inbound \notin todo'[q]
        /\ \A y \in batch'[q] : DocumentKey(x) = DocumentKey(y) => x = y
  BY <1>1 DEF IdInv
<1> QED
  BY <1>4, <1>5, <1>6, <1>7 DEF IdInv, DocumentKey

(* A step keeps clock readings and document ids apart.                     *)
LEMMA IdStep ==
  ASSUME TypeOK, IdInv, CountInv, [Next]_vars
  PROVE  IdInv'
<1>1. ASSUME NEW r \in Replicas, CycleEnds(r), docs' \subseteq docs \cup batch[r]
      PROVE  IdInv'
  <2>1. /\ pc[r] = "polling" /\ pc'[r] # "polling"
        /\ batch' = [batch EXCEPT ![r] = {}] /\ at' = [at EXCEPT ![r] = None]
        /\ \A q \in Replicas \ {r} : pc'[q] = pc[q] /\ todo'[q] = todo[q]
    BY <1>1 DEF CycleEnds, TypeOK
  <2> QED
    BY <1>1, <2>1, EndKeepsIds, Zenon
<1>2. ASSUME NEW r \in Replicas, Crash(r)
      PROVE  IdInv'
  <2>1. /\ pc[r] = "polling" \/ batch[r] = {}
        /\ pc'[r] # "polling" /\ docs' = docs
        /\ batch' = [batch EXCEPT ![r] = {}] /\ at' = [at EXCEPT ![r] = None]
        /\ \A q \in Replicas \ {r} : pc'[q] = pc[q] /\ todo'[q] = todo[q]
    BY <1>2 DEF Crash, cluster, TypeOK, IdInv
  <2> QED
    BY <2>1, EndKeepsIds, Zenon
<1>3. ASSUME NEW r \in Replicas, QueryNext(r)
      PROVE  IdInv'
  <2>1. PICK n \in todo[r] :
          /\ QueryUserStats(r, n) \/ QueryFails(r, n) \/ ReplyLost(r, n)
          /\ todo' = [todo EXCEPT ![r] = @ \ {n}]
    BY <1>3, Zenon DEF QueryNext
  <2>2. n \in Nodes /\ pc[r] = "polling" /\ UNCHANGED <<docs, pc, at>>
    BY <1>3 DEF QueryNext, process, TypeOK
  <2> DEFINE New == RecordsOf(n, CountersOf(n), at[r])
  <2>3. /\ \A x \in New : x.at = at[r] /\ x.inbound = n
        /\ \A x, y \in New : x.user = y.user /\ x.node = y.node => x = y
    BY <2>2, DrainFacts DEF CountInv
  <2>4. \A q \in Replicas : \A x \in batch'[q] : x \in batch[q] \/ (q = r /\ x \in New)
    <3>1. CASE QueryUserStats(r, n)
      BY <3>1 DEF QueryUserStats, TypeOK
    <3>2. CASE QueryFails(r, n) \/ ReplyLost(r, n)
      BY <3>2 DEF QueryFails, ReplyLost
    <3> QED
      BY <2>1, <3>1, <3>2
  <2> HIDE DEF New
  <2>5. \A q \in Replicas : todo'[q] = IF q = r THEN todo[q] \ {n} ELSE todo[q]
    BY <2>1, Zenon DEF TypeOK
  <2>6. \A q \in Replicas : \A x \in batch'[q] : x.at = at'[q] /\ x.inbound \notin todo'[q]
    <3>1. \A q \in Replicas : \A x \in batch[q] : x.at = at'[q] /\ x.inbound \notin todo'[q]
      BY <2>2, <2>5, Zenon DEF IdInv
    <3>2. \A x \in New : x.at = at'[r] /\ x.inbound \notin todo'[r]
      BY <2>2, <2>3, <2>5, Zenon
    <3> QED
      BY <2>4, <3>1, <3>2
  <2>7. \A q \in Replicas : \A x, y \in batch'[q] : DocumentKey(x) = DocumentKey(y) => x = y
    <3>1. ASSUME NEW x \in batch[r], NEW y \in New
          PROVE  x.inbound # y.inbound
      BY <2>1, <2>3 DEF IdInv
    <3>2. \A x, y \in New : DocumentKey(x) = DocumentKey(y) => x = y
      BY <2>3 DEF DocumentKey
    <3>3. \A x \in batch[r], y \in New : DocumentKey(x) # DocumentKey(y)
      BY <3>1 DEF DocumentKey
    <3>4. \A q \in Replicas : \A x, y \in batch[q] : DocumentKey(x) = DocumentKey(y) => x = y
      BY DEF IdInv
    <3> QED
      BY <2>4, <3>2, <3>3, <3>4
  <2>8. \A q \in Replicas : pc[q] # "polling" => batch'[q] = {}
    BY <2>2, <2>4 DEF IdInv
  <2>9. /\ \A q \in Replicas : IF pc'[q] = "polling" THEN at'[q] # None
                                                     ELSE at'[q] = None /\ batch'[q] = {}
        /\ \A q \in Replicas : \A d \in docs' : d.at # at'[q]
        /\ \A q, s \in Replicas : q # s /\ at'[q] = at'[s] => at'[q] = None
    BY <2>2, <2>8 DEF IdInv
  <2> QED
    BY <2>6, <2>7, <2>9 DEF IdInv, DocumentKey
<1>4. ASSUME NEW r \in Replicas, Discover(r)
      PROVE  IdInv'
  <2>1. PICK t \in Times \ Used : at' = [at EXCEPT ![r] = t]
    BY <1>4, Zenon DEF Discover
  <2>2. /\ t # None /\ \A d \in docs : d.at # t
        /\ \A q \in Replicas : at[q] # t
    BY <2>1, UsageAssumption DEF Used
  <2>3. /\ \A q \in Replicas : at'[q] = IF q = r THEN t ELSE at[q]
        /\ \A q \in Replicas : pc'[q] = IF q = r THEN "polling" ELSE pc[q]
        /\ docs' = docs /\ batch' = batch /\ batch[r] = {}
        /\ \A q \in Replicas \ {r} : todo'[q] = todo[q]
    <3>1. pc[r] = "waiting" /\ pc' = [pc EXCEPT ![r] = "polling"]
          /\ todo' = [todo EXCEPT ![r] = Nodes] /\ docs' = docs /\ batch' = batch
      BY <1>4 DEF Discover, cluster
    <3>2. batch[r] = {}
      BY <3>1 DEF IdInv
    <3> QED
      BY <2>1, <3>1, <3>2 DEF TypeOK
  <2>4. /\ \A q \in Replicas : IF pc'[q] = "polling" THEN at'[q] # None
                                                     ELSE at'[q] = None /\ batch'[q] = {}
        /\ \A q \in Replicas : \A d \in docs' : d.at # at'[q]
        /\ \A q, s \in Replicas : q # s /\ at'[q] = at'[s] => at'[q] = None
    BY <2>2, <2>3 DEF IdInv
  <2>5. \A q \in Replicas : \A x \in batch'[q] :
          /\ x.at = at'[q] /\ x.inbound \notin todo'[q]
          /\ \A y \in batch'[q] : DocumentKey(x) = DocumentKey(y) => x = y
    BY <2>3 DEF IdInv
  <2> QED
    BY <2>4, <2>5 DEF IdInv, DocumentKey
<1>5. ASSUME NEW r \in Replicas, Stop(r) \/ Elected(r) \/ Cancel(r)
      PROVE  IdInv'
  <2>1. /\ UNCHANGED <<docs, at, batch, todo>>
        /\ \A q \in Replicas : pc'[q] = "polling" <=> pc[q] = "polling"
    BY <1>5 DEF Stop, Elected, Cancel, cluster, cycle, TypeOK
  <2> QED
    BY <2>1 DEF IdInv, DocumentKey
<1>6. ASSUME LeaseExpires \/ (\E b \in Bytes : Carry(b)) \/ (\E n \in Nodes : PodRestarts(n))
             \/ UNCHANGED vars
      PROVE  IdInv'
  <2>1. UNCHANGED <<docs, at, batch, todo, pc>>
    BY <1>6 DEF LeaseExpires, Carry, PodRestarts, vars, cluster, cycle, process
  <2> QED
    BY <2>1 DEF IdInv, DocumentKey
<1>7. ASSUME NEW r \in Replicas, NoRecords(r) \/ Write(r) \/ WriteFails(r) \/ WriteCancelled(r)
      PROVE  CycleEnds(r) /\ docs' \subseteq docs \cup batch[r]
  BY <1>7, Zenon DEF NoRecords, Write, WriteFails, WriteCancelled
<1> QED
  BY <1>1, <1>2, <1>3, <1>4, <1>5, <1>6, <1>7 DEF Next, Run

(* When Write returns nil every record of the batch has been created: no   *)
(* item was refused, and none can conflict.                                *)
LEMMA AckedStep ==
  ASSUME TypeOK, IdInv, AckedIsStored, [Next]_vars
  PROVE  AckedIsStored'
<1>1. ASSUME NEW r \in Replicas, Write(r)
      PROVE  AckedIsStored'
  <2>1. PICK refused \in SUBSET batch[r] : \E S \in SUBSET (batch[r] \ refused) :
          /\ Creates(batch[r] \ refused, S)
          /\ docs' = docs \cup S
          /\ acked' = IF evaluateBulkResponse({ItemStatus(x, refused, S) : x \in batch[r]})
                      THEN acked \cup UnitsIn(batch[r])
                      ELSE acked
    BY <1>1, Zenon DEF Write
  <2>2. PICK S \in SUBSET (batch[r] \ refused) :
          /\ Creates(batch[r] \ refused, S)
          /\ docs' = docs \cup S
          /\ acked' = IF evaluateBulkResponse({ItemStatus(x, refused, S) : x \in batch[r]})
                      THEN acked \cup UnitsIn(batch[r])
                      ELSE acked
    BY <2>1, Zenon
  <2> DEFINE statuses == {ItemStatus(x, refused, S) : x \in batch[r]}
  <2>3. UnitsIn(docs) \subseteq UnitsIn(docs')
    BY <2>2 DEF UnitsIn
  <2>4. CASE ~evaluateBulkResponse(statuses)
    BY <2>2, <2>3, <2>4 DEF AckedIsStored, UnitsIn, UnitsOf
  <2>5. CASE evaluateBulkResponse(statuses)
    <3>1. refused = {}
      <4>1. \A x \in refused : ItemStatus(x, refused, S) = 429
        BY DEF ItemStatus
      <4>2. 429 \notin statuses
        BY <2>5 DEF evaluateBulkResponse
      <4> QED
        BY <4>1, <4>2
    <3>2. ASSUME NEW x \in batch[r] \ S
          PROVE  FALSE
      <4>1. PICK y \in docs \cup S : DocumentKey(y) = DocumentKey(x)
        BY <2>2, <3>1, <3>2 DEF Creates, Taken
      <4>2. y.at = x.at
        BY <4>1 DEF DocumentKey
      <4>3. y \notin docs
        BY <4>2 DEF IdInv
      <4>4. y \in batch[r] /\ y \in S
        BY <4>1, <4>3
      <4> QED
        BY <4>1, <4>4 DEF IdInv
    <3>3. batch[r] \subseteq docs'
      BY <2>2, <3>2
    <3>4. UnitsIn(batch[r]) \subseteq UnitsIn(docs')
      BY <3>3 DEF UnitsIn
    <3> QED
      BY <2>2, <2>3, <2>5, <3>4 DEF AckedIsStored, UnitsIn, UnitsOf
  <2> QED
    BY <2>4, <2>5
<1>2. ASSUME docs \subseteq docs', acked' = acked
      PROVE  AckedIsStored'
  BY <1>2 DEF AckedIsStored, UnitsIn, UnitsOf
<1>3. ASSUME NEW r \in Replicas, Run(r), ~Write(r)
      PROVE  docs \subseteq docs' /\ acked' = acked
  BY <1>3, Zenon DEF Run, Discover, QueryNext, NoRecords, WriteFails, WriteCancelled, Stop,
              cluster, ghosts
<1>4. ASSUME NEW r \in Replicas, Elected(r) \/ Cancel(r) \/ Crash(r)
      PROVE  docs \subseteq docs' /\ acked' = acked
  BY <1>4 DEF Elected, Cancel, Crash, cluster, ghosts
<1>5. ASSUME LeaseExpires \/ (\E b \in Bytes : Carry(b)) \/ (\E n \in Nodes : PodRestarts(n))
             \/ UNCHANGED vars
      PROVE  docs \subseteq docs' /\ acked' = acked
  BY <1>5 DEF LeaseExpires, Carry, PodRestarts, vars, cluster, ghosts
<1> QED
  BY <1>1, <1>2, <1>3, <1>4, <1>5 DEF Next

-----------------------------------------------------------------------------
UsageInv == TypeOK /\ IdInv /\ CountInv /\ AckedIsStored

(* The four together are inductive.                                        *)
LEMMA UsageInvariant == Spec => []UsageInv
<1>1. Init => UsageInv
  <2>1. ASSUME Init
        PROVE  TypeOK
    BY <2>1, UsageAssumption DEF Init, TypeOK
  <2>2. ASSUME Init
        PROVE  IdInv /\ CountInv /\ AckedIsStored
    BY <2>2 DEF Init, IdInv, CountInv, AckedIsStored
  <2> QED
    BY <2>1, <2>2 DEF UsageInv
<1>2. UsageInv /\ [Next]_vars => UsageInv'
  BY TypeStep, IdStep, CountStep, AckedStep DEF UsageInv
<1> QED
  BY <1>1, <1>2, PTL DEF Spec

(* The collector's state keeps its types.                                  *)
THEOREM UsageTypeCorrect == Spec => []TypeOK
<1>1. UsageInv => TypeOK
  BY DEF UsageInv
<1> QED
  BY <1>1, UsageInvariant, PTL

(* No unit of traffic is billed twice, for any number of collectors at     *)
(* work at once and whatever fails.                                        *)
THEOREM NothingIsCountedTwice == Spec => []CountedOnce
<1>1. UsageInv => CountedOnce
  <2> SUFFICES ASSUME UsageInv, NEW d \in docs
               PROVE  /\ d.up \cap d.down = {}
                      /\ \A e \in docs : d # e => UnitsOf(d) \cap UnitsOf(e) = {}
                      /\ UnitsOf(d) \cap pending = {}
                      /\ \A r \in Replicas : UnitsOf(d) \cap UnitsIn(batch[r]) = {}
    BY DEF CountedOnce
  <2>1. d.up \cap d.down = {}
    <3>1. Attributed(d)
      BY DEF UsageInv, CountInv
    <3>2. \A b \in d.up : carried[b].dir = "uplink"
      BY <3>1 DEF Attributed
    <3>3. \A b \in d.down : carried[b].dir = "downlink"
      BY <3>1 DEF Attributed
    <3> QED
      BY <3>2, <3>3
  <2>2. \A e \in docs : d # e => UnitsOf(d) \cap UnitsOf(e) = {}
    BY DEF UsageInv, CountInv
  <2>3. UnitsOf(d) \cap pending = {}
    BY DEF UsageInv, CountInv
  <2>4. \A r \in Replicas : UnitsOf(d) \cap UnitsIn(batch[r]) = {}
    BY DEF UsageInv, CountInv, UnitsIn
  <2> QED
    BY <2>1, <2>2, <2>3, <2>4, Zenon
<1> QED
  BY <1>1, UsageInvariant, PTL

(* What a document bills a user for was carried for that user, by those    *)
(* nodes and in that direction.                                            *)
THEOREM BillsAreRight == Spec => []BilledToItsUser
<1>1. UsageInv => BilledToItsUser
  <2> SUFFICES ASSUME UsageInv, NEW d \in docs, NEW b \in UnitsOf(d)
               PROVE  carried[b] = [inbound |-> d.inbound, user |-> d.user, node |-> d.node,
                                    dir |-> IF b \in d.up THEN "uplink" ELSE "downlink"]
    BY Zenon DEF BilledToItsUser
  <2>1. Attributed(d) /\ (b \in d.up \/ b \in d.down)
    BY DEF UsageInv, CountInv, UnitsOf
  <2> QED
    BY <2>1 DEF Attributed
<1> QED
  BY <1>1, UsageInvariant, PTL

(* ElasticsearchSink keeps the contract of UsageSink.Write.                *)
THEOREM WriteKeepsItsContract == Spec => []AckedIsStored
<1>1. UsageInv => AckedIsStored
  BY DEF UsageInv
<1> QED
  BY <1>1, UsageInvariant, PTL
-----------------------------------------------------------------------------
(* The collector implements Accounting, for any number of nodes, users,    *)
(* replicas and units: the initial states are the same, and each kind of   *)
(* step that FlowStep tells apart is a Settle, a Carry or a stutter.       *)

(* The bills a document makes are for what its units were carried for.     *)
LEMMA BillsOfAttributed ==
  ASSUME NEW d, Attributed(d)
  PROVE  BillsOf(d) = {Ledger!Bill(b, carried[b], d.at) : b \in UnitsOf(d)}
<1>1. \A b \in d.up : carried[b] = BilledFor(d, "uplink")
  BY DEF Attributed, BilledFor
<1>2. \A b \in d.down : carried[b] = BilledFor(d, "downlink")
  BY DEF Attributed, BilledFor
<1> QED
  BY <1>1, <1>2 DEF BillsOf, UnitsOf, Ledger!Bill

(* A cycle that ends settles its batch: some records are stored, the units *)
(* of the others are lost.                                                 *)
LEMMA SettlesIsSettle ==
  ASSUME UsageInv, Settles
  PROVE  [Ledger!Next]_(Ledger!vars)
<1>1. PICK r \in Replicas : /\ docs \subseteq docs' /\ docs' \subseteq docs \cup batch[r]
                            /\ batch' = [batch EXCEPT ![r] = {}]
                            /\ UNCHANGED <<carried, pending>>
  BY Zenon DEF Settles
<1>2. CASE batch[r] = {}
  <2>1. docs' = docs
    BY <1>1, <1>2, Zenon
  <2>2. batch' = batch
    BY <1>1, <1>2 DEF UsageInv, TypeOK
  <2>3. Open' = Open
    BY <1>1, <2>2 DEF Open, UnitsIn
  <2>4. Bills' = Bills
    BY <2>1 DEF Bills
  <2> QED
    BY <1>1, <2>3, <2>4 DEF Ledger!vars
<1>3. CASE batch[r] # {}
  <2> DEFINE new  == docs' \ docs
             paid == UnitsIn(new)
             lost == UnitsIn(batch[r])
  <2>1. at[r] \in Times
    BY <1>3 DEF UsageInv, IdInv, TypeOK
  <2>2. new \subseteq batch[r] /\ docs' = docs \cup new
    BY <1>1
  <2>3. paid \subseteq lost /\ lost \subseteq Open
    BY <2>2 DEF UnitsIn, Open
  <2>4. Open' = Open \ (paid \cup lost)
    <3>1. \A q \in Replicas : batch'[q] = IF q = r THEN {} ELSE batch[q]
      BY <1>1 DEF UsageInv, TypeOK
    <3>2. ASSUME NEW b \in Open'
          PROVE  b \in Open \ lost
      <4>1. b \in pending \/ \E q \in Replicas \ {r} : \E x \in batch[q] : b \in UnitsOf(x)
        BY <1>1, <3>1 DEF Open, UnitsIn
      <4>2. b \in Open
        BY <4>1 DEF Open, UnitsIn
      <4>3. b \notin lost
        BY <4>1 DEF UsageInv, CountInv, UnitsIn
      <4> QED
        BY <4>2, <4>3
    <3>3. ASSUME NEW b \in Open, b \notin lost
          PROVE  b \in Open'
      <4>1. CASE b \in pending
        BY <1>1, <4>1 DEF Open
      <4>2. CASE b \notin pending
        <5>1. PICK q \in Replicas : b \in UnitsIn(batch[q])
          BY <4>2 DEF Open
        <5>2. q # r
          BY <3>3, <5>1
        <5> QED
          BY <3>1, <5>1, <5>2 DEF Open, UnitsIn
      <4> QED
        BY <4>1, <4>2
    <3> QED
      BY <2>3, <3>2, <3>3
  <2>5. Bills' = Bills \cup {Ledger!Bill(b, carried[b], at[r]) : b \in paid}
    <3>1. Bills' = Bills \cup UNION {BillsOf(d) : d \in new}
      BY <2>2 DEF Bills
    <3>2. ASSUME NEW d \in new
          PROVE  BillsOf(d) = {Ledger!Bill(b, carried[b], at[r]) : b \in UnitsOf(d)}
      <4>1. Attributed(d) /\ d.at = at[r]
        BY <2>2 DEF UsageInv, CountInv, IdInv
      <4> QED
        BY <4>1, BillsOfAttributed
    <3>3. UNION {BillsOf(d) : d \in new} = {Ledger!Bill(b, carried[b], at[r]) : b \in paid}
      BY <3>2 DEF UnitsIn
    <3> QED
      BY <3>1, <3>3, Zenon
  <2>6. Ledger!Settle(paid, lost, at[r])
    BY <1>1, <2>4, <2>5 DEF Ledger!Settle
  <2>7. paid \in SUBSET Open /\ lost \in SUBSET Open
    BY <2>3
  <2> HIDE DEF paid, lost
  <2> QED
    BY <2>1, <2>6, <2>7 DEF Ledger!Next
<1> QED
  BY <1>2, <1>3

(* Units may leave the accounts without a bill at any time.                *)
LEMMA LosesIsLose ==
  ASSUME Open' \subseteq Open, UNCHANGED <<carried, docs>>
  PROVE  [Ledger!Next]_(Ledger!vars)
<1> DEFINE lost == Open \ Open'
<1>1. Bills' = Bills
  BY DEF Bills
<1>2. Open' = Open \ lost
  OBVIOUS
<1>3. Ledger!Lose(lost)
  BY <1>1, <1>2 DEF Ledger!Lose
<1>4. lost \in SUBSET Open
  OBVIOUS
<1> HIDE DEF lost
<1> QED
  BY <1>3, <1>4 DEF Ledger!Next

(* A drained counter goes on being open in the batch.                      *)
LEMMA DrainsIsLose ==
  ASSUME UsageInv, Drains
  PROVE  [Ledger!Next]_(Ledger!vars)
<1>1. PICK r \in Replicas, n \in Nodes :
        /\ pc[r] = "polling" /\ n \in todo[r]
        /\ batch' = [batch EXCEPT ![r] = @ \cup RecordsOf(n, CountersOf(n), at[r])]
        /\ pending' = pending \ CountersOf(n)
        /\ UNCHANGED <<carried, docs>>
  BY Zenon DEF Drains
<1>2. \A x \in RecordsOf(n, CountersOf(n), at[r]) : UnitsOf(x) \subseteq pending
  <2>1. \A x \in RecordsOf(n, CountersOf(n), at[r]) : UnitsOf(x) \subseteq CountersOf(n)
    BY <1>1, DrainFacts DEF UsageInv, CountInv
  <2> QED
    BY <2>1 DEF CountersOf
<1>3. \A q \in Replicas : \A x \in batch'[q] :
        x \in batch[q] \/ x \in RecordsOf(n, CountersOf(n), at[r])
  BY <1>1 DEF UsageInv, TypeOK
<1>4. Open' \subseteq Open
  <2> SUFFICES ASSUME NEW b \in Open'
               PROVE  b \in Open
    OBVIOUS
  <2>1. CASE b \in pending'
    BY <1>1, <2>1 DEF Open
  <2>2. CASE b \notin pending'
    <3>1. PICK q \in Replicas : \E x \in batch'[q] : b \in UnitsOf(x)
      BY <2>2 DEF Open, UnitsIn
    <3> QED
      BY <1>2, <1>3, <3>1 DEF Open, UnitsIn
  <2> QED
    BY <2>1, <2>2
<1> QED
  BY <1>1, <1>4, LosesIsLose

(* A restarted pod loses its counters.                                    *)
LEMMA ForgetsIsLose ==
  ASSUME Forgets
  PROVE  [Ledger!Next]_(Ledger!vars)
<1>1. Open' \subseteq Open /\ UNCHANGED <<carried, docs>>
  BY DEF Forgets, Open, UnitsIn
<1> QED
  BY <1>1, LosesIsLose

(* A unit that is carried is open.                                         *)
LEMMA CarriesIsCarry ==
  ASSUME Carries
  PROVE  [Ledger!Next]_(Ledger!vars)
<1>1. PICK b \in Bytes, o \in Origins :
        /\ carried[b] = None
        /\ carried' = [carried EXCEPT ![b] = o]
        /\ pending' = pending \cup {b}
        /\ UNCHANGED <<docs, batch>>
  BY Zenon DEF Carries
<1>2. Open' = Open \cup {b}
  BY <1>1 DEF Open, UnitsIn
<1>3. Bills' = Bills
  BY <1>1 DEF Bills
<1>4. Ledger!Carry(b, o)
  BY <1>1, <1>2, <1>3 DEF Ledger!Carry
<1> QED
  BY <1>4 DEF Ledger!Next

(* usagecollector.Collector implements the accounts: for any number of     *)
(* replicas at work at once and whatever fails, a unit of traffic is       *)
(* settled once, and billed, if it is, to what it was carried for.         *)
THEOREM CollectorImplementsAccounting == Spec => ImplementsAccounting
<1>1. Init => Ledger!Init
  <2> SUFFICES ASSUME Init
               PROVE  Ledger!Init
    OBVIOUS
  <2>1. Open = {}
    BY DEF Init, Open, UnitsIn
  <2>2. Bills = {}
    BY DEF Init, Bills
  <2> QED
    BY <2>1, <2>2 DEF Init, Ledger!Init
<1>2. UsageInv /\ [Next]_vars => [Ledger!Next]_(Ledger!vars)
  <2> SUFFICES ASSUME UsageInv, [Next]_vars
               PROVE  [Ledger!Next]_(Ledger!vars)
    OBVIOUS
  <2>1. Settles \/ Drains \/ Forgets \/ Carries
    BY FlowStep DEF UsageInv
  <2> QED
    BY <2>1, SettlesIsSettle, DrainsIsLose, ForgetsIsLose, CarriesIsCarry
<1> QED
  BY <1>1, <1>2, UsageInvariant, PTL DEF Spec, ImplementsAccounting, Ledger!Spec
=============================================================================
