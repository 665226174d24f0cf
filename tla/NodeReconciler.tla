--------------------------- MODULE NodeReconciler ---------------------------
(***************************************************************************)
(* The life of one SingBoxNode under SingBoxNodeReconciler: the workqueue  *)
(* key, the passes of Reconcile one API call at a time, the objects a pass *)
(* writes (status, relay-credential Secret, ConfigMap, Pod, leftover       *)
(* Services), and everything that may happen between two of those calls:   *)
(* user edits, deletion and re-creation, changes of the other resources    *)
(* the config is computed from, late watch events, refused and failed API  *)
(* calls, evictions, garbage collection and operator restarts.             *)
(*                                                                         *)
(* The controller runs one worker and a key is never processed twice at    *)
(* once, so the passes over one node are sequential; what other nodes'     *)
(* passes do is seen by this node as changes of `peers'.                   *)
(*                                                                         *)
(* A generated config stands for itself: it is the record of the inputs    *)
(* configengine.Compute read, and its hash (sha256) is identified with it. *)
(***************************************************************************)
EXTENDS Informer

CONSTANTS
  Cfgs,         \* values of the part of the spec that Compute reads
  Relays,       \* those of them with the outbound role
  Hosts,        \* values of the part only the pod template reads (nodeRef)
  Peers,        \* the watched resources Compute reads: peers, users, policies
  Starts        \* how a behaviour may start, see StartStates

Disturbances == {"edit", "delete", "recreate", "peers", "health",
                 "start", "evict", "crash", "apierror"}

(* The node's spec and peers, whether a Service of an old release is still *)
(* there, and how often the environment does each thing it may do.         *)
StartStates == [spec  : [cfg : Cfgs, host : Hosts],
                peers : Peers,
                svc   : BOOLEAN,
                left  : [Disturbances -> Nat]]

ASSUME ConstantsAssumption ==
  /\ Relays \subseteq Cfgs
  /\ Starts \subseteq StartStates

VARIABLES
  sbn,          \* the SingBoxNode object
  sec,          \* its relay-credential Secret
  cm,           \* its ConfigMap
  pod,          \* its Pod
  peers,        \* what collectInput lists
  health,       \* is the Kubernetes Node of spec.nodeRef available?
  svc,          \* a Service owned by the node is left from an old release
  running,      \* config the sing-box process of the pod has loaded
  queued,       \* the node's key is in the workqueue
  pc,           \* next API call of the pass, "idle" between passes
  node,         \* the pass's copy of the SingBoxNode
  cfg,          \* the pass's computed config
  intended,     \* ghost: the spec the user last asked for, and its node's uid
  published,    \* ghost: configs the ConfigMap has held
  rolled,       \* ghost: configs a Pod has been created for
  left          \* what the environment may still do

objects == <<sbn, sec, cm, pod, peers, health, svc>>
pass    == <<pc, node, cfg>>
ghosts  == <<intended, published, rolled>>
vars    == <<objects, running, queued, pass, ghosts, left>>

-----------------------------------------------------------------------------
(* The versions of each object.                                            *)

Specs     == [cfg : Cfgs, host : Hosts]
Uids      == Nat \ {0}
Configs   == [cfg : Cfgs, peers : Peers, cred : Uids \cup {None}]
NodeState == {"unknown", "true", "false"}
Status    == [hash : Configs \cup {None}, og : Nat, ready : NodeState, rog : Nat]
SBNs      == [uid : Uids, gen : Nat, spec : Specs, fin : BOOLEAN,
              del : BOOLEAN, st : Status]
ConfigMaps == [data : Configs, owner : Uids]
Pods      == [hash : Configs, owner : Uids, host : Hosts, del : BOOLEAN]

NewNode(u, s) == [uid |-> u, gen |-> 1, spec |-> s, fin |-> FALSE, del |-> FALSE,
                  st |-> [hash |-> None, og |-> 0, ready |-> "unknown", rog |-> 0]]

(* What configengine.Compute makes of a node, its peers and, for a node    *)
(* with the outbound role, the relay credential collectInput found (None   *)
(* if the Secret could not be read).                                       *)
Compute(n, p, cred) ==
  [cfg   |-> n.spec.cfg,
   peers |-> p,
   cred  |-> IF n.spec.cfg \in Relays THEN cred ELSE None]

ASSUME NoneAssumption == None \notin ConfigMaps

TypeOK ==
  /\ sbn \in Object(SBNs \cup {None})
  /\ sec \in Object(Uids \cup {None})
  /\ cm \in Object(ConfigMaps \cup {None})
  /\ pod \in Object(Pods \cup {None})
  /\ peers \in Object(Peers)
  /\ health \in Object(BOOLEAN)
  /\ svc \in BOOLEAN
  /\ running \in Configs \cup {None}
  /\ queued \in BOOLEAN
  /\ pc \in {"idle", "ready", "cred", "input", "cm", "pod", "svc", "status"}
  /\ node \in SBNs \cup {None}
  /\ cfg \in Configs \cup {None}
  /\ intended \in [uid : Uids, spec : Specs]
  /\ published \subseteq Configs
  /\ rolled \subseteq Configs
  /\ left \in [Disturbances -> Nat]

Init ==
  /\ \E s \in Starts : /\ sbn = Created(NewNode(1, s.spec))
                        /\ intended = [uid |-> 1, spec |-> s.spec]
                        /\ peers = Listed(s.peers)
                        /\ svc = s.svc
                        /\ left = s.left
  /\ sec = Listed(None) /\ cm = Listed(None) /\ pod = Listed(None)
  /\ health = Listed(TRUE)
  /\ running = None
  /\ queued = FALSE
  /\ pc = "idle" /\ node = None /\ cfg = None
  /\ published = {} /\ rolled = {}
-----------------------------------------------------------------------------
(* How a pass moves on and how it ends.  A returned error and a requeue    *)
(* both put the key back; the back-off delays are not modelled.            *)

Spend(d) ==
  /\ left[d] > 0
  /\ left' = [left EXCEPT ![d] = @ - 1]

At(step) == pc = step

GoTo(step) ==
  /\ pc' = step
  /\ UNCHANGED <<node, queued>>

Done ==
  /\ pc' = "idle" /\ node' = None /\ cfg' = None
  /\ UNCHANGED queued

Requeue ==
  /\ pc' = "idle" /\ node' = None /\ cfg' = None
  /\ queued' = TRUE

(* The API server fails the call for a reason of its own.                  *)
ApiError == Spend("apierror") /\ Requeue /\ UNCHANGED objects

(* Mutant: writes are sent without the resourceVersion they were made from.*)
AcceptsAny(o) == TRUE

(* Writes the API server accepts: the object is still in the version the   *)
(* cached copy was taken from; a create needs the name to be free.         *)
Accepts(o) == IF o.cache = None THEN Current(o) = None ELSE Fresh(o)

-----------------------------------------------------------------------------
(* Reconcile, from taking the key to the copy it works with.  A refused or *)
(* failed Update leaves the key queued and changes nothing.                *)

NodeNotFound ==
  /\ sbn.cache = None
  /\ queued' = FALSE
  /\ UNCHANGED <<objects, pass>>

(* Mutant: the finalizer is kept for as long as the Pod exists.            *)
deletionWaitsForPod ==
  /\ sbn.cache # None /\ sbn.cache.del
  /\ sbn.cache.fin
  /\ Accepts(sbn)
  /\ sbn' = IF pod.cache = None THEN Commit(sbn, None) ELSE sbn
  /\ queued' = FALSE
  /\ UNCHANGED <<sec, cm, pod, peers, health, svc, pass>>

handleDeletion ==
  /\ sbn.cache # None /\ sbn.cache.del
  /\ sbn.cache.fin
  /\ Accepts(sbn)
  /\ sbn' = Commit(sbn, None)
  /\ queued' = FALSE
  /\ UNCHANGED <<sec, cm, pod, peers, health, svc, pass>>

AddFinalizer ==
  /\ sbn.cache # None /\ ~sbn.cache.del
  /\ ~sbn.cache.fin
  /\ Accepts(sbn)
  /\ sbn' = Commit(sbn, [sbn.cache EXCEPT !.fin = TRUE])
  /\ UNCHANGED <<sec, cm, pod, peers, health, svc, pass, queued>>

StartPass ==
  /\ sbn.cache # None /\ ~sbn.cache.del
  /\ sbn.cache.fin
  /\ pc' = "ready" /\ node' = sbn.cache
  /\ queued' = FALSE
  /\ UNCHANGED <<objects, cfg>>

Reconcile ==
  /\ At("idle") /\ queued
  /\ NodeNotFound \/ handleDeletion \/ AddFinalizer \/ StartPass
  /\ UNCHANGED <<running, ghosts, left>>

(* The NodeReady condition.  Whatever goes wrong is logged and the pass    *)
(* goes on.                                                                *)
ReadyStatus(latest) ==
  [latest EXCEPT !.st.ready = IF health.cache THEN "true" ELSE "false",
                 !.st.rog = latest.gen]

updateNodeReadyStatus ==
  /\ At("ready")
  /\ GoTo("cred")
  /\ \/ /\ sbn.cache # None /\ Accepts(sbn)
        /\ ReadyStatus(sbn.cache) # sbn.cache
        /\ sbn' = Commit(sbn, ReadyStatus(sbn.cache))
        /\ UNCHANGED left
     \/ /\ sbn.cache # None /\ Accepts(sbn) => ReadyStatus(sbn.cache) = sbn.cache
        /\ UNCHANGED <<sbn, left>>
     \/ Spend("apierror") /\ UNCHANGED sbn
  /\ UNCHANGED <<sec, cm, pod, peers, health, svc, running, cfg, ghosts>>

(* Mutant: the Secret is created without a look whether it exists.         *)
createAlways ==
  LET relay == node.spec.cfg \in Relays
  IN /\ At("cred")
     /\ \/ ~relay /\ GoTo("input") /\ UNCHANGED <<sec, cfg, left>>
        \/ /\ relay /\ Current(sec) = None
           /\ sec' = Commit(sec, node.uid)
           /\ GoTo("input") /\ UNCHANGED <<cfg, left>>
        \/ relay /\ Current(sec) # None /\ Requeue /\ UNCHANGED <<sec, left>>
     /\ UNCHANGED <<sbn, cm, pod, peers, health, svc, running, ghosts>>

(* EnsureNodeCredential: the Secret of an outbound node, created once; it  *)
(* stays when the node loses the role.                                     *)
ensureCredential ==
  LET missing == node.spec.cfg \in Relays /\ sec.cache = None
  IN /\ At("cred")
     /\ \/ ~missing /\ GoTo("input") /\ UNCHANGED <<sec, cfg, left>>
        \/ /\ missing /\ Accepts(sec)
           /\ sec' = Commit(sec, node.uid)
           /\ GoTo("input") /\ UNCHANGED <<cfg, left>>
        \/ missing /\ ~Accepts(sec) /\ Requeue /\ UNCHANGED <<sec, left>>
        \/ missing /\ ApiError
     /\ UNCHANGED <<sbn, cm, pod, peers, health, svc, running, ghosts>>

(* Mutant: the computed config is not handed on.                           *)
outputDropped ==
  /\ At("input")
  /\ GoTo("cm")
  /\ UNCHANGED <<objects, running, ghosts, left, cfg>>

(* Mutant: the Pod is rolled without writing the ConfigMap first.          *)
podFirst ==
  /\ At("input")
  /\ cfg' = Compute(node, peers.cache, sec.cache)
  /\ GoTo("pod")
  /\ UNCHANGED <<objects, running, ghosts, left>>

(* Everything Compute needs is read from the caches; a Secret that cannot  *)
(* be read is left out.                                                    *)
collectInput ==
  /\ At("input")
  /\ cfg' = Compute(node, peers.cache, sec.cache)
  /\ GoTo("cm")
  /\ UNCHANGED <<objects, running, ghosts, left>>
(* CreateOrUpdate of the ConfigMap: nothing is sent when the cached copy   *)
(* already has the wanted content.                                         *)
reconcileConfigMap ==
  LET want == [data |-> cfg, owner |-> node.uid]
  IN /\ At("cm")
     /\ \/ /\ cm.cache = want
           /\ GoTo("pod") /\ UNCHANGED <<cm, cfg, published, left>>
        \/ /\ cm.cache # want /\ Accepts(cm)
           /\ cm' = Commit(cm, want)
           /\ published' = published \cup {cfg}
           /\ GoTo("pod") /\ UNCHANGED <<cfg, left>>
        \/ /\ cm.cache # want /\ ~Accepts(cm)
           /\ Requeue /\ UNCHANGED <<cm, published, left>>
        \/ cm.cache # want /\ ApiError /\ UNCHANGED published
     /\ UNCHANGED <<sbn, sec, pod, peers, health, svc, running, intended, rolled>>

(* What Delete does to the object that currently has the Pod's name.       *)
Terminate(o) ==
  IF Current(o) = None \/ Current(o).del
  THEN o
  ELSE Commit(o, [Current(o) EXCEPT !.del = TRUE])

(* A Pod with the wanted annotation is kept, any other is deleted and the  *)
(* pass given up; the replacement is created once the name is free.        *)
reconcilePod ==
  LET want == [hash |-> cfg, owner |-> node.uid, host |-> node.spec.host, del |-> FALSE]
  IN /\ At("pod")
     /\ \/ /\ pod.cache # None /\ pod.cache.hash = cfg
           /\ GoTo("svc") /\ UNCHANGED <<pod, cfg, rolled, left>>
        \/ /\ pod.cache # None /\ pod.cache.hash # cfg
           /\ pod' = Terminate(pod)
           /\ Requeue /\ UNCHANGED <<rolled, left>>
        \/ /\ pod.cache = None /\ Accepts(pod)
           /\ pod' = Commit(pod, want)
           /\ rolled' = rolled \cup {cfg}
           /\ GoTo("svc") /\ UNCHANGED <<cfg, left>>
        \/ /\ pod.cache = None /\ ~Accepts(pod)
           /\ Requeue /\ UNCHANGED <<pod, rolled, left>>
        \/ /\ pod.cache # None => pod.cache.hash # cfg
           /\ ApiError /\ UNCHANGED rolled
     /\ UNCHANGED <<sbn, sec, cm, peers, health, svc, running, intended, published>>

(* deleteOrphanServices; the deletion is an event on an owned object.      *)
reconcileServices ==
  /\ At("svc")
  /\ \/ svc /\ svc' = FALSE /\ pc' = "status" /\ queued' = TRUE /\ UNCHANGED <<node, cfg, left>>
     \/ ~svc /\ GoTo("status") /\ UNCHANGED <<svc, cfg, left>>
     \/ svc /\ ApiError
  /\ UNCHANGED <<sbn, sec, cm, pod, peers, health, running, ghosts>>

(* The status is written to a copy read anew, whose generation (and spec,  *)
(* for the entry endpoints) need not be the one the config was computed    *)
(* from.                                                                   *)
updateStatus ==
  LET latest == sbn.cache
      want   == [latest EXCEPT !.st.hash = cfg, !.st.og = latest.gen]
  IN /\ At("status")
     /\ \/ /\ latest # None /\ Accepts(sbn) /\ want # latest
           /\ sbn' = Commit(sbn, want)
           /\ Done /\ UNCHANGED left
        \/ latest # None /\ Accepts(sbn) /\ want = latest /\ Done /\ UNCHANGED <<sbn, left>>
        \/ ~(latest # None /\ Accepts(sbn)) /\ Requeue /\ UNCHANGED <<sbn, left>>
        \/ ApiError
     /\ UNCHANGED <<sec, cm, pod, peers, health, svc, running, ghosts>>

Worker ==
  \/ Reconcile
  \/ updateNodeReadyStatus
  \/ ensureCredential
  \/ collectInput
  \/ reconcileConfigMap
  \/ reconcilePod
  \/ reconcileServices
  \/ updateStatus

-----------------------------------------------------------------------------
(* Watch events (SetupWithManager).  All the objects below are watched and *)
(* mapped to this node's key, except the relay-credential Secret: the      *)
(* Secret watch maps only Secrets an ExternalOutbound refers to.           *)

restOfState == <<running, pass, ghosts>>

SbnEvent ==
  /\ ~Fresh(sbn) /\ sbn' = Deliver(sbn) /\ queued' = TRUE
  /\ UNCHANGED <<sec, cm, pod, peers, health, svc, restOfState, left>>

(* Mutant: the controller does not own the ConfigMap.                      *)
configMapNotOwned ==
  /\ ~Fresh(cm) /\ cm' = Deliver(cm)
  /\ UNCHANGED <<sbn, sec, pod, peers, health, svc, queued, restOfState, left>>

ConfigMapEvent ==
  /\ ~Fresh(cm) /\ cm' = Deliver(cm) /\ queued' = TRUE
  /\ UNCHANGED <<sbn, sec, pod, peers, health, svc, restOfState, left>>

PodEvent ==
  /\ ~Fresh(pod) /\ pod' = Deliver(pod) /\ queued' = TRUE
  /\ UNCHANGED <<sbn, sec, cm, peers, health, svc, restOfState, left>>

PeersEvent ==
  /\ ~Fresh(peers) /\ peers' = Deliver(peers) /\ queued' = TRUE
  /\ UNCHANGED <<sbn, sec, cm, pod, health, svc, restOfState, left>>

HealthEvent ==
  /\ ~Fresh(health) /\ health' = Deliver(health) /\ queued' = TRUE
  /\ UNCHANGED <<sbn, sec, cm, pod, peers, svc, restOfState, left>>

SecretEvent ==
  /\ ~Fresh(sec) /\ sec' = Deliver(sec)
  /\ UNCHANGED <<sbn, cm, pod, peers, health, svc, queued, restOfState, left>>

(* The informers' periodic resync queues every object they hold.           *)
Resync ==
  /\ sbn.cache # None /\ ~queued
  /\ queued' = TRUE
  /\ UNCHANGED <<objects, restOfState, left>>
-----------------------------------------------------------------------------
(* The users, the cluster and the operator process.                        *)

EditSpec ==
  /\ Current(sbn) # None
  /\ \E s \in Specs \ {Current(sbn).spec} :
       /\ sbn' = Commit(sbn, [Current(sbn) EXCEPT !.spec = s, !.gen = @ + 1])
       /\ intended' = [intended EXCEPT !.spec = s]
  /\ Spend("edit")
  /\ UNCHANGED <<sec, cm, pod, peers, health, svc, running, queued, pass, published, rolled>>

(* The API server keeps an object with a finalizer until that is removed.  *)
DeleteNode ==
  /\ Current(sbn) # None /\ ~Current(sbn).del
  /\ sbn' = Commit(sbn, IF Current(sbn).fin
                        THEN [Current(sbn) EXCEPT !.del = TRUE, !.gen = @ + 1]
                        ELSE None)
  /\ Spend("delete")
  /\ UNCHANGED <<sec, cm, pod, peers, health, svc, queued, restOfState>>

RecreateNode ==
  /\ Current(sbn) = None
  /\ \E s \in Specs :
       /\ sbn' = Commit(sbn, NewNode(intended.uid + 1, s))
       /\ intended' = [uid |-> intended.uid + 1, spec |-> s]
  /\ Spend("recreate")
  /\ UNCHANGED <<sec, cm, pod, peers, health, svc, running, queued, pass, published, rolled>>

ChangePeers ==
  /\ \E p \in Peers \ {Current(peers)} : peers' = Commit(peers, p)
  /\ Spend("peers")
  /\ UNCHANGED <<sbn, sec, cm, pod, health, svc, queued, restOfState>>

ChangeHealth ==
  /\ health' = Commit(health, ~Current(health))
  /\ Spend("health")
  /\ UNCHANGED <<sbn, sec, cm, pod, peers, svc, queued, restOfState>>

EvictPod ==
  /\ Terminate(pod) # pod
  /\ pod' = Terminate(pod)
  /\ Spend("evict")
  /\ UNCHANGED <<sbn, sec, cm, peers, health, svc, queued, restOfState>>

(* The container starts, or starts again, and reads the mounted ConfigMap. *)
KubeletStart ==
  /\ Current(pod) # None /\ ~Current(pod).del
  /\ Current(cm) # None
  /\ running' = Current(cm).data
  /\ Spend("start")
  /\ UNCHANGED <<objects, queued, pass, ghosts>>

PodGone ==
  /\ Current(pod) # None /\ Current(pod).del
  /\ pod' = Commit(pod, None)
  /\ running' = None
  /\ UNCHANGED <<sbn, sec, cm, peers, health, svc, queued, pass, ghosts, left>>

(* The garbage collector removes what belongs to a node that is no more.   *)
Orphan(owner) == Current(sbn) # None => Current(sbn).uid # owner

CollectGarbage ==
  /\ \/ /\ Current(cm) # None /\ Orphan(Current(cm).owner)
        /\ cm' = Commit(cm, None) /\ UNCHANGED <<pod, sec>>
     \/ /\ Current(pod) # None /\ Orphan(Current(pod).owner) /\ ~Current(pod).del
        /\ pod' = Terminate(pod) /\ UNCHANGED <<cm, sec>>
     \/ /\ Current(sec) # None /\ Orphan(Current(sec))
        /\ sec' = Commit(sec, None) /\ UNCHANGED <<cm, pod>>
  /\ UNCHANGED <<sbn, peers, health, svc, queued, restOfState, left>>

(* The operator stops anywhere in a pass.  Its successor lists every kind  *)
(* and queues every node it finds.                                         *)
Crash ==
  /\ sbn' = Relist(sbn) /\ sec' = Relist(sec) /\ cm' = Relist(cm)
  /\ pod' = Relist(pod) /\ peers' = Relist(peers) /\ health' = Relist(health)
  /\ Requeue
  /\ Spend("crash")
  /\ UNCHANGED <<svc, running, ghosts>>

WatchEvent ==
  SbnEvent \/ ConfigMapEvent \/ PodEvent \/ PeersEvent \/ HealthEvent \/ SecretEvent

Environment ==
  \/ EditSpec \/ DeleteNode \/ RecreateNode
  \/ ChangePeers \/ ChangeHealth \/ EvictPod
  \/ KubeletStart \/ PodGone \/ CollectGarbage
  \/ Crash

Next == Worker \/ WatchEvent \/ Resync \/ Environment

Spec == Init /\ [][Next]_vars

(* The worker does not stall, watch events keep arriving (of whatever kind *)
(* first), the informers resync, kubelet finishes terminating a pod, the   *)
(* garbage collector runs.  Nothing is assumed of users, faults or         *)
(* kubelet's restarts.                                                     *)
Fairness ==
  /\ WF_vars(Worker)
  /\ WF_vars(WatchEvent)
  /\ WF_vars(Resync)
  /\ WF_vars(PodGone) /\ WF_vars(CollectGarbage)

FairSpec == Spec /\ Fairness
-----------------------------------------------------------------------------
(* Properties.                                                             *)

(* Roll-out order: a config is annotated on a Pod only after the ConfigMap *)
(* has held it, it is loaded by sing-box only from the ConfigMap, and it   *)
(* is reported as status.configHash only after a Pod was created for it.   *)
RolloutOrder ==
  /\ rolled \subseteq published
  /\ running # None => running \in published
  /\ Current(sbn) # None /\ Current(sbn).st.hash # None
       => Current(sbn).st.hash \in rolled

(* No write of the operator, which always sends back a whole cached        *)
(* object, undoes a spec edit the cache has not seen or revives a node     *)
(* that has been deleted meanwhile.                                        *)
NoLostEdit ==
  Current(sbn) # None =>
    /\ Current(sbn).uid = intended.uid
    /\ Current(sbn).spec = intended.spec

(* status.observedGeneration of one node never goes back, and a deletion   *)
(* request is never withdrawn, whatever stale copy a pass works with.      *)
StatusNeverGoesBack ==
  [][ LET o == Current(sbn)
          n == Current(sbn)'
      IN  o # None /\ n # None /\ n.uid = o.uid
            => n.st.og >= o.st.og /\ n.gen >= o.gen /\ (o.del => n.del) ]_vars

(* Nothing is left to do: no pass is running or queued and every watched   *)
(* object's cache is up to date.                                           *)
Settled ==
  /\ pc = "idle" /\ ~queued
  /\ Fresh(sbn) /\ Fresh(cm) /\ Fresh(pod) /\ Fresh(peers) /\ Fresh(health)

Live(n) == n # None /\ ~n.del

(* No wake-up is lost: when the controller has come to rest with a live    *)
(* node, the ConfigMap holds the config of the node's and the peers'       *)
(* current state, the Pod is annotated with that same config, and the      *)
(* status reports it for the current generation.                           *)
NoLostWakeup ==
  Settled /\ Live(sbn.cache) =>
    /\ sbn.cache.fin
    /\ cm.cache # None /\ pod.cache # None
    /\ cm.cache.owner = sbn.cache.uid
    /\ cm.cache.data.cfg = sbn.cache.spec.cfg
    /\ cm.cache.data.peers = peers.cache
    /\ pod.cache.hash = cm.cache.data
    /\ sbn.cache.st.hash = cm.cache.data
    /\ sbn.cache.st.og = sbn.cache.gen
    /\ ~svc

(* A deleted node has come to rest only when it is gone.                   *)
NoStuckDeletion == Settled => sbn.cache = None \/ ~sbn.cache.del

Converged ==
  LET n == Current(sbn)
  IN  IF n = None
      THEN Current(sec) = None /\ Current(cm) = None /\ Current(pod) = None
      ELSE /\ ~n.del
           /\ n.spec.cfg \in Relays => Current(sec) = n.uid
           /\ Current(cm) = [data  |-> Compute(n, Current(peers), Current(sec)),
                             owner |-> n.uid]
           /\ Current(pod) # None
           /\ Current(pod).hash = Current(cm).data
           /\ Current(pod).owner = n.uid
           /\ n.st.hash = Current(cm).data
           /\ n.st.og = n.gen
           /\ n.st.ready = IF Current(health) THEN "true" ELSE "false"

(* Once edits, faults and deletions stop, the operator brings the cluster  *)
(* to the state the resources ask for and keeps it there: credential,      *)
(* config, Pod, status and NodeReady of a live node, nothing at all for a  *)
(* deleted one.                                                            *)
EventuallyConverged == <>[]Converged

(* "ConfigHash is the sha256[:16] of the current sing-box config": at      *)
(* rest, the config the process has loaded is the one in the status.       *)
ConfigHashIsCurrent ==
  Settled /\ Live(sbn.cache) /\ running # None => running = sbn.cache.st.hash

(* "NodeRef is the name of the Kubernetes Node this proxy runs on": at     *)
(* rest, the Pod is bound to the Node the spec names.                      *)
RunsOnNodeRef ==
  Settled /\ Live(sbn.cache) => pod.cache.host = sbn.cache.spec.host
=============================================================================
