--------------------------- MODULE UsageCollector ---------------------------
(***************************************************************************)
(* Traffic accounting: the replicas of the operator that run               *)
(* usagecollector.Collector, the per-user counters of the sing-box nodes   *)
(* they drain, and the Elasticsearch data stream they write to.            *)
(*                                                                         *)
(* Every unit of traffic is a token of its own, so a counter, and each of  *)
(* the two byte fields of a record, is the set of the tokens added to it.  *)
(* A token that was lost or counted twice is then seen as such, where sums *)
(* could hide one behind the other.                                        *)
(***************************************************************************)
EXTENDS Naturals

CONSTANTS
  Nodes,     \* SingBoxNodes with the inbound role, by name
  Dead,      \* those of them whose stats endpoint never answers
  Users,     \* users
  Outs,      \* outbound nodes, the second half of a virtual user's name
  Bytes,     \* units of traffic
  Replicas,  \* operator replicas
  Times,     \* readings of the wall clock
  None,      \* no value
  Limits     \* how often each thing may go wrong

Mishaps == {"query", "reply", "write", "restart", "expire", "cancel", "crash"}

ASSUME UsageAssumption ==
  /\ Dead \subseteq Nodes
  /\ Limits \in [Mishaps -> Nat]
  /\ None \notin Times

VARIABLES
  carried,   \* what each unit was carried for, None until it is
  pending,   \* the units now in the counters of the sing-box processes
  docs,      \* the documents of the data stream
  leader,    \* holder of the leader-election lease
  pc,        \* where each replica's Run loop is
  cancelled, \* has the replica's context been cancelled?
  todo,      \* targets the cycle has still to query
  at,        \* the cycle's collectedAt
  batch,     \* the cycle's recordIndex
  acked,     \* ghost: units of the batches whose Write returned nil
  aborted,   \* ghost: units whose Write failed for the cancelled context
  left       \* what may still go wrong

cluster == <<carried, pending, docs>>
cycle   == <<todo, at, batch>>
process == <<leader, pc, cancelled>>
ghosts  == <<acked, aborted>>
vars    == <<cluster, process, cycle, ghosts, left>>

Origins == [inbound : Nodes, user : Users, node : Outs, dir : {"uplink", "downlink"}]
UsageRecord == [inbound : Nodes, user : Users, node : Outs, at : Times,
                up : SUBSET Bytes, down : SUBSET Bytes]

ASSUME NoneIsNoOrigin == None \notin Origins

UnitsOf(x) == x.up \cup x.down
UnitsIn(S) == UNION {UnitsOf(x) : x \in S}

TypeOK ==
  /\ carried \in [Bytes -> Origins \cup {None}]
  /\ pending \subseteq Bytes
  /\ docs \subseteq UsageRecord
  /\ leader \in Replicas \cup {None}
  /\ pc \in [Replicas -> {"stopped", "waiting", "polling"}]
  /\ cancelled \in [Replicas -> BOOLEAN]
  /\ todo \in [Replicas -> SUBSET Nodes]
  /\ at \in [Replicas -> Times \cup {None}]
  /\ batch \in [Replicas -> SUBSET UsageRecord]
  /\ acked \subseteq Bytes
  /\ aborted \subseteq Bytes
  /\ left \in [Mishaps -> Nat]

Init ==
  /\ carried = [b \in Bytes |-> None]
  /\ pending = {} /\ docs = {}
  /\ leader = None
  /\ pc = [r \in Replicas |-> "stopped"]
  /\ cancelled = [r \in Replicas |-> FALSE]
  /\ todo = [r \in Replicas |-> {}]
  /\ at = [r \in Replicas |-> None]
  /\ batch = [r \in Replicas |-> {}]
  /\ acked = {} /\ aborted = {}
  /\ left = Limits

Spend(m) ==
  /\ left[m] > 0
  /\ left' = [left EXCEPT ![m] = @ - 1]

-----------------------------------------------------------------------------
(* One pollCycle of replica r.                                             *)

(* No two cycles read the same nanosecond.                                 *)
Used == {x.at : x \in docs} \cup {at[r] : r \in Replicas}

(* A tick finds the targets.  A failed or empty discovery changes nothing. *)
Discover(r) ==
  /\ pc[r] = "waiting"
  /\ pc' = [pc EXCEPT ![r] = "polling"]
  /\ todo' = [todo EXCEPT ![r] = Nodes]
  /\ \E t \in Times \ Used : at' = [at EXCEPT ![r] = t]
  /\ UNCHANGED <<cluster, leader, cancelled, batch, ghosts, left>>

CountersOf(n) == {b \in pending : carried[b].inbound = n}

(* Mutant: records are keyed without the outbound node.                    *)
recordsByUser(n, E, t) ==
  { [inbound |-> n, user |-> carried[b].user, node |-> carried[b].node, at |-> t,
     up   |-> {c \in E : carried[c].user = carried[b].user /\ carried[c].dir = "uplink"},
     down |-> {c \in E : carried[c].user = carried[b].user /\ carried[c].dir = "downlink"}]
    : b \in IF E = {} THEN {} ELSE {CHOOSE c \in E : TRUE} }

(* Mutant: a record is built without its collection time.                  *)
unstampedRecords(n, E, t) ==
  { [inbound |-> n, user |-> carried[b].user, node |-> carried[b].node, at |-> None,
     up |-> {}, down |-> {}] : b \in E }

(* The records made of the counters node n returned: one for each user and *)
(* outbound node, with both directions.  A counter at zero makes none.     *)
RecordsOf(n, E, t) ==
  LET sameKey(b) == {c \in E : carried[c].user = carried[b].user
                               /\ carried[c].node = carried[b].node}
  IN { [inbound |-> n, user |-> carried[b].user, node |-> carried[b].node, at |-> t,
        up   |-> {c \in sameKey(b) : carried[c].dir = "uplink"},
        down |-> {c \in sameKey(b) : carried[c].dir = "downlink"}] : b \in E }

(* Mutant: the counters are read without Reset_.                           *)
queryWithoutReset(r, n) ==
  /\ batch' = [batch EXCEPT ![r] = @ \cup RecordsOf(n, CountersOf(n), at[r])]
  /\ UNCHANGED <<pending, left>>

(* The node answers: its counters are read and, with Reset_, zeroed in one *)
(* step of its stats service.                                              *)
QueryUserStats(r, n) ==
  /\ batch' = [batch EXCEPT ![r] = @ \cup RecordsOf(n, CountersOf(n), at[r])]
  /\ pending' = pending \ CountersOf(n)
  /\ UNCHANGED left

(* The node cannot be reached in time: nothing happens to its counters.    *)
QueryFails(r, n) ==
  /\ \/ (n \in Dead \/ cancelled[r]) /\ UNCHANGED left
     \/ n \notin Dead /\ ~cancelled[r] /\ Spend("query")
  /\ UNCHANGED <<batch, pending>>

(* The counters are zeroed and the answer is lost or late.                 *)
ReplyLost(r, n) ==
  /\ n \notin Dead /\ ~cancelled[r] /\ Spend("reply")
  /\ pending' = pending \ CountersOf(n)
  /\ UNCHANGED batch

(* Mutant: the first node that cannot be queried ends the cycle.           *)
abortOnError(r) ==
  /\ pc[r] = "polling"
  /\ \E n \in todo[r] :
       \/ /\ n \notin Dead /\ ~cancelled[r] /\ QueryUserStats(r, n)
          /\ todo' = [todo EXCEPT ![r] = @ \ {n}]
       \/ QueryFails(r, n) /\ todo' = [todo EXCEPT ![r] = {}]
       \/ ReplyLost(r, n) /\ todo' = [todo EXCEPT ![r] = {}]
  /\ UNCHANGED <<carried, docs, process, at, ghosts>>

(* The next target.  A node that cannot be queried is skipped.             *)
QueryNext(r) ==
  /\ pc[r] = "polling"
  /\ \E n \in todo[r] :
       /\ \/ n \notin Dead /\ ~cancelled[r] /\ QueryUserStats(r, n)
          \/ QueryFails(r, n)
          \/ ReplyLost(r, n)
       /\ todo' = [todo EXCEPT ![r] = @ \ {n}]
  /\ UNCHANGED <<carried, docs, process, at, ghosts>>

CycleEnds(r) ==
  /\ pc[r] = "polling" /\ todo[r] = {}
  /\ pc' = [pc EXCEPT ![r] = "waiting"]
  /\ at' = [at EXCEPT ![r] = None]
  /\ batch' = [batch EXCEPT ![r] = {}]
  /\ UNCHANGED <<carried, pending, leader, cancelled, todo>>

NoRecords(r) ==
  /\ batch[r] = {}
  /\ CycleEnds(r)
  /\ UNCHANGED <<docs, ghosts, left>>

(* Mutant: the id of a document leaves out the inbound node.               *)
keyWithoutInbound(x) == <<x.user, x.node, x.at>>

DocumentKey(x) == <<x.user, x.inbound, x.node, x.at>>

Taken(x, S) == \E y \in S : DocumentKey(y) = DocumentKey(x)

(* Elasticsearch creates the documents S for the items A of one _bulk      *)
(* request, in order; an item whose id is taken conflicts.                 *)
Creates(A, S) ==
  /\ \A x \in S : ~Taken(x, docs)
  /\ \A x, y \in S : DocumentKey(x) = DocumentKey(y) => x = y
  /\ \A x \in A \ S : Taken(x, docs \cup S)

ItemStatus(x, refused, S) ==
  IF x \in refused THEN 429 ELSE IF x \in S THEN 201 ELSE 409

(* nil when every item was created (201) or found to exist (409).          *)
evaluateBulkResponse(statuses) == statuses \subseteq {201, 409}

(* Elasticsearch answers; it may refuse items one by one.                  *)
Write(r) ==
  /\ batch[r] # {} /\ ~cancelled[r]
  /\ \E refused \in SUBSET batch[r] :
       \E S \in SUBSET (batch[r] \ refused) :
         /\ Creates(batch[r] \ refused, S)
         /\ docs' = docs \cup S
         /\ acked' = IF evaluateBulkResponse({ItemStatus(x, refused, S) : x \in batch[r]})
                     THEN acked \cup UnitsIn(batch[r])
                     ELSE acked
         /\ IF refused = {} THEN UNCHANGED left ELSE Spend("write")
  /\ CycleEnds(r)
  /\ UNCHANGED aborted

(* Write gets no usable answer, whatever became of the request.            *)
WriteFails(r) ==
  /\ batch[r] # {} /\ ~cancelled[r] /\ Spend("write")
  /\ \E refused \in SUBSET batch[r] :
       \E S \in SUBSET (batch[r] \ refused) :
         /\ Creates(batch[r] \ refused, S)
         /\ docs' = docs \cup S
  /\ CycleEnds(r)
  /\ UNCHANGED ghosts

(* writeCtx is derived from the context Run was given: once that is        *)
(* cancelled the request is not sent.                                      *)
WriteCancelled(r) ==
  /\ batch[r] # {} /\ cancelled[r]
  /\ aborted' = aborted \cup UnitsIn(batch[r])
  /\ CycleEnds(r)
  /\ UNCHANGED <<docs, acked, left>>

(* Run returns; the process ends.                                          *)
Stop(r) ==
  /\ pc[r] = "waiting" /\ cancelled[r]
  /\ pc' = [pc EXCEPT ![r] = "stopped"]
  /\ leader' = IF leader = r THEN None ELSE leader
  /\ UNCHANGED <<cluster, cancelled, cycle, ghosts, left>>

Run(r) ==
  \/ Discover(r) \/ QueryNext(r)
  \/ NoRecords(r) \/ Write(r) \/ WriteFails(r) \/ WriteCancelled(r)
  \/ Stop(r)

-----------------------------------------------------------------------------
(* The manager, the proxies and the faults.                                *)

(* A stopped replica is started again and waits for the lease.             *)
Elected(r) ==
  /\ leader = None /\ pc[r] = "stopped"
  /\ leader' = r
  /\ pc' = [pc EXCEPT ![r] = "waiting"]
  /\ cancelled' = [cancelled EXCEPT ![r] = FALSE]
  /\ UNCHANGED <<cluster, cycle, ghosts, left>>

(* The lease runs out under a replica that does not know it yet.           *)
LeaseExpires ==
  /\ leader # None
  /\ leader' = None
  /\ Spend("expire")
  /\ UNCHANGED <<cluster, pc, cancelled, cycle, ghosts>>

(* The manager stops its runnables: a shutdown, or the lost lease noticed. *)
Cancel(r) ==
  /\ pc[r] # "stopped" /\ ~cancelled[r]
  /\ cancelled' = [cancelled EXCEPT ![r] = TRUE]
  /\ Spend("cancel")
  /\ UNCHANGED <<cluster, leader, pc, cycle, ghosts>>

Crash(r) ==
  /\ pc[r] # "stopped"
  /\ pc' = [pc EXCEPT ![r] = "stopped"]
  /\ leader' = IF leader = r THEN None ELSE leader
  /\ todo' = [todo EXCEPT ![r] = {}]
  /\ at' = [at EXCEPT ![r] = None]
  /\ batch' = [batch EXCEPT ![r] = {}]
  /\ Spend("crash")
  /\ UNCHANGED <<cluster, cancelled, ghosts>>

(* sing-box carries a unit of traffic and adds it to a counter.            *)
Carry(b) ==
  /\ carried[b] = None
  /\ \E o \in Origins : carried' = [carried EXCEPT ![b] = o]
  /\ pending' = pending \cup {b}
  /\ UNCHANGED <<docs, process, cycle, ghosts, left>>

(* The counters live in the sing-box process.                              *)
PodRestarts(n) ==
  /\ CountersOf(n) # {}
  /\ pending' = pending \ CountersOf(n)
  /\ Spend("restart")
  /\ UNCHANGED <<carried, docs, process, cycle, ghosts>>

Next ==
  \/ \E r \in Replicas : Run(r) \/ Elected(r) \/ Cancel(r) \/ Crash(r)
  \/ LeaseExpires
  \/ \E b \in Bytes : Carry(b)
  \/ \E n \in Nodes : PodRestarts(n)

Spec == Init /\ [][Next]_vars

(* A running collector goes on and a free lease is taken.  A cancelled one *)
(* stops in the end: select picks at random between ctx.Done and a tick    *)
(* that is ready as well, and the manager waits only so long.  Nothing is  *)
(* assumed of traffic and faults.                                          *)
FairSpec ==
  /\ Spec
  /\ \A r \in Replicas : WF_vars(Run(r)) /\ SF_vars(Stop(r))
  /\ WF_vars(\E r \in Replicas : Elected(r))

-----------------------------------------------------------------------------
(* Properties.                                                             *)

(* No traffic is billed twice: a unit is in one document at most and in    *)
(* one of its two fields, and once it is there it is neither in a counter  *)
(* nor in a batch some replica may still write, whichever replicas poll at *)
(* the same time.                                                          *)
CountedOnce ==
  \A d \in docs :
    /\ d.up \cap d.down = {}
    /\ \A e \in docs : d # e => UnitsOf(d) \cap UnitsOf(e) = {}
    /\ UnitsOf(d) \cap pending = {}
    /\ \A r \in Replicas : UnitsOf(d) \cap UnitsIn(batch[r]) = {}

(* Every unit in the data stream is on the record of the user, the inbound *)
(* and the outbound node and in the direction it was carried for.          *)
BilledToItsUser ==
  \A d \in docs : \A b \in UnitsOf(d) :
    carried[b] = [inbound |-> d.inbound, user |-> d.user, node |-> d.node,
                  dir |-> IF b \in d.up THEN "uplink" ELSE "downlink"]

(* The contract of UsageSink.Write: when it returns nil, all records of    *)
(* the batch are stored.                                                   *)
AckedIsStored == acked \subseteq UnitsIn(docs)

(* The counters of a node that answers are read sooner or later, whichever *)
(* other nodes never answer and however often the collector fails over.    *)
EventuallyCollected ==
  \A b \in Bytes :
    (b \in pending /\ carried[b].inbound \notin Dead) ~> (b \notin pending)

(* At-least-once delivery: a carried unit is in a counter, in a batch on   *)
(* its way, or in the data stream.                                         *)
AtLeastOnce ==
  \A b \in Bytes : carried[b] # None =>
    b \in pending \cup UnitsIn(docs) \cup UNION {UnitsIn(batch[r]) : r \in Replicas}

(* A shutdown waits for the flush in progress: no batch is given up        *)
(* because the collector is being stopped.                                 *)
FlushedOnShutdown == aborted = {}
=============================================================================
