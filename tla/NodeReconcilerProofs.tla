------------------------ MODULE NodeReconcilerProofs ------------------------
(***************************************************************************)
(* Proofs, for any number of edits, deletions, faults and restarts and for *)
(* any spec values, peers and hosts, of the safety properties of           *)
(* NodeReconciler.                                                         *)
(***************************************************************************)
EXTENDS NodeReconciler, InformerProofs

-----------------------------------------------------------------------------
(* Type correctness.  A pass holds a node from its start to its end and a  *)
(* config from collectInput on.                                            *)

PassOK ==
  /\ pc # "idle" => node \in SBNs
  /\ pc \in {"cm", "pod", "svc", "status"} => cfg \in Configs

TypeInv == TypeOK /\ PassOK

(* What the finalizer, edits, deletion and status writes make of a         *)
(* SingBoxNode is a SingBoxNode.                                           *)
LEMMA SbnTypes ==
  ASSUME NEW n \in SBNs
  PROVE  /\ [n EXCEPT !.fin = TRUE] \in SBNs
         /\ [n EXCEPT !.del = TRUE, !.gen = @ + 1] \in SBNs
         /\ \A s \in Specs : [n EXCEPT !.spec = s, !.gen = @ + 1] \in SBNs
         /\ \A c \in Configs : [n EXCEPT !.st.hash = c, !.st.og = n.gen] \in SBNs
         /\ ReadyStatus(n) \in SBNs
<1>1. [n EXCEPT !.fin = TRUE] \in SBNs
  BY Zenon DEF SBNs
<1>2. n.gen + 1 \in Nat
  BY DEF SBNs
<1>3. [n EXCEPT !.del = TRUE, !.gen = @ + 1] \in SBNs
  BY <1>2, Zenon DEF SBNs
<1>4. \A s \in Specs : [n EXCEPT !.spec = s, !.gen = @ + 1] \in SBNs
  BY <1>2, Zenon DEF SBNs
<1>5. \A c \in Configs : [n EXCEPT !.st.hash = c, !.st.og = n.gen] \in SBNs
  <2> TAKE c \in Configs
  <2>1. [n.st EXCEPT !.hash = c, !.og = n.gen] \in Status
    BY Zenon DEF SBNs, Status
  <2> QED
    BY <2>1, Zenon DEF SBNs
<1>6. ReadyStatus(n) \in SBNs
  BY Zenon DEF ReadyStatus, SBNs, Status, NodeState
<1> QED
  BY <1>1, <1>3, <1>4, <1>5, <1>6, Zenon

(* A node as it is created.                                                *)
LEMMA NewNodeType ==
  ASSUME NEW u \in Uids, NEW s \in Specs
  PROVE  NewNode(u, s) \in SBNs
  BY DEF NewNode, SBNs, Status, NodeState

(* Compute returns a config whatever credential it is given.               *)
LEMMA ComputeType ==
  ASSUME NEW n \in SBNs, NEW p \in Peers, NEW u \in Uids \cup {None}
  PROVE  Compute(n, p, u) \in Configs
  BY DEF Compute, SBNs, Specs, Configs

(* Deleting the Pod only marks it.                                         *)
LEMMA TerminateType ==
  ASSUME NEW o \in Object(Pods \cup {None})
  PROVE  Terminate(o) \in Object(Pods \cup {None})
<1>1. CASE Current(o) = None \/ Current(o).del
  BY <1>1 DEF Terminate
<1>2. CASE ~(Current(o) = None \/ Current(o).del)
  <2>1. Current(o) \in Pods
    BY <1>2, CurrentType
  <2>2. [Current(o) EXCEPT !.del = TRUE] \in Pods
    BY <2>1, Zenon DEF Pods
  <2> QED
    BY <1>2, <2>2, CommitType DEF Terminate
<1> QED
  BY <1>1, <1>2

(* The types, with a node and a config at hand wherever a pass needs them, *)
(* hold at first.                                                          *)
LEMMA TypeInit == Init => TypeInv
<1> SUFFICES ASSUME Init PROVE TypeInv
  OBVIOUS
<1> USE DEF Init
<1>1. PICK s \in Starts : /\ sbn = Created(NewNode(1, s.spec))
                          /\ intended = [uid |-> 1, spec |-> s.spec]
                          /\ peers = Listed(s.peers) /\ svc = s.svc /\ left = s.left
  OBVIOUS
<1>t. s.spec \in Specs /\ s.peers \in Peers /\ s.svc \in BOOLEAN
      /\ s.left \in [Disturbances -> Nat]
  BY ConstantsAssumption DEF StartStates, Specs
<1>2. 1 \in Uids
  BY DEF Uids
<1>3. sbn \in Object(SBNs \cup {None}) /\ intended \in [uid : Uids, spec : Specs]
  BY <1>1, <1>2, <1>t, NewNodeType DEF Object, Created
<1>4. /\ sec \in Object(Uids \cup {None}) /\ cm \in Object(ConfigMaps \cup {None})
      /\ pod \in Object(Pods \cup {None})
      /\ peers \in Object(Peers) /\ health \in Object(BOOLEAN)
  BY <1>1, <1>t DEF Object, Listed
<1> QED
  BY <1>1, <1>3, <1>4, <1>t, Zenon DEF TypeInv, TypeOK, PassOK

(* Every step keeps them.                                                  *)
LEMMA TypeStep == TypeInv /\ [Next]_vars => TypeInv'
<1> SUFFICES ASSUME TypeInv, [Next]_vars PROVE TypeInv'
  OBVIOUS
<1> USE DEF TypeInv, TypeOK, PassOK
<1>s. /\ Current(sbn) \in SBNs \cup {None} /\ sbn.cache \in SBNs \cup {None}
      /\ Current(sec) \in Uids \cup {None} /\ sec.cache \in Uids \cup {None}
      /\ Current(cm) \in ConfigMaps \cup {None} /\ cm.cache \in ConfigMaps \cup {None}
      /\ Current(pod) \in Pods \cup {None} /\ pod.cache \in Pods \cup {None}
      /\ Current(peers) \in Peers /\ peers.cache \in Peers
      /\ Current(health) \in BOOLEAN /\ health.cache \in BOOLEAN
  BY CurrentType
<1>d. \A d \in Disturbances : Spend(d) => left' \in [Disturbances -> Nat]
  BY DEF Spend
<1>1. CASE Reconcile
  <2>1. CASE NodeNotFound
    BY <1>1, <2>1, Zenon DEF Reconcile, NodeNotFound, objects, pass, ghosts
  <2>2. CASE handleDeletion
    BY <1>1, <2>2, CommitType, ZenonT(30) DEF Reconcile, handleDeletion, pass, ghosts
  <2>3. CASE AddFinalizer
    <3>1. sbn' \in Object(SBNs \cup {None})
      BY <1>s, <2>3, CommitType, SbnTypes, Zenon DEF AddFinalizer
    <3> QED
      BY <1>1, <2>3, <3>1 DEF Reconcile, AddFinalizer, pass, ghosts
  <2>4. CASE StartPass
    BY <1>s, <1>1, <2>4, Zenon DEF Reconcile, StartPass, objects, ghosts
  <2> QED
    BY <1>1, <2>1, <2>2, <2>3, <2>4 DEF Reconcile
<1>2. CASE updateNodeReadyStatus
  <2>1. sbn' \in Object(SBNs \cup {None})
    <3>1. CASE UNCHANGED sbn
      BY <3>1
    <3>2. CASE sbn.cache # None /\ sbn' = Commit(sbn, ReadyStatus(sbn.cache))
      <4>1. ReadyStatus(sbn.cache) \in SBNs \cup {None}
        BY <1>s, <3>2, SbnTypes, Zenon
      <4> QED
        BY <3>2, <4>1, CommitType
    <3> QED
      BY <1>2, <3>1, <3>2 DEF updateNodeReadyStatus
  <2>2. left' \in [Disturbances -> Nat]
    BY <1>d, <1>2 DEF updateNodeReadyStatus, Disturbances
  <2> QED
    BY <1>2, <2>1, <2>2 DEF updateNodeReadyStatus, At, GoTo, ghosts
<1>3. CASE ensureCredential
  <2>1. node.uid \in Uids
    BY <1>3 DEF ensureCredential, At, SBNs
  <2>2. sec' \in Object(Uids \cup {None})
    BY <1>3, <2>1, CommitType DEF ensureCredential, ApiError, objects
  <2>3. left' \in [Disturbances -> Nat]
    BY <1>d, <1>3 DEF ensureCredential, ApiError, Disturbances
  <2> QED
    BY <1>3, <2>2, <2>3, Zenon DEF ensureCredential, At, GoTo, Requeue, ApiError, ghosts
<1>4. CASE collectInput
  BY <1>s, <1>4, ComputeType DEF collectInput, At, GoTo, objects, ghosts
<1>5. CASE reconcileConfigMap
  <2> DEFINE want == [data |-> cfg, owner |-> node.uid]
  <2>1. cfg \in Configs /\ want \in ConfigMaps
    BY <1>5 DEF reconcileConfigMap, At, SBNs, ConfigMaps
  <2>2. cm' \in Object(ConfigMaps \cup {None}) /\ published' \subseteq Configs
    BY <1>5, <2>1, CommitType DEF reconcileConfigMap, ApiError, objects
  <2>3. left' \in [Disturbances -> Nat]
    BY <1>d, <1>5 DEF reconcileConfigMap, ApiError, Disturbances
  <2> QED
    BY <1>5, <2>2, <2>3, Zenon DEF reconcileConfigMap, At, GoTo, Requeue, ApiError
<1>6. CASE reconcilePod
  <2> DEFINE want == [hash |-> cfg, owner |-> node.uid, host |-> node.spec.host,
                      del |-> FALSE]
  <2>1. cfg \in Configs /\ want \in Pods
    BY <1>6 DEF reconcilePod, At, SBNs, Specs, Pods
  <2>2. /\ Terminate(pod) \in Object(Pods \cup {None})
        /\ Commit(pod, want) \in Object(Pods \cup {None})
    BY <2>1, CommitType, TerminateType, Zenon
  <2>3. pod' \in Object(Pods \cup {None}) /\ rolled' \subseteq Configs
    BY <1>6, <2>1, <2>2 DEF reconcilePod, ApiError, objects
  <2>4. left' \in [Disturbances -> Nat]
    BY <1>d, <1>6 DEF reconcilePod, ApiError, Disturbances
  <2> QED
    BY <1>6, <2>3, <2>4, Zenon DEF reconcilePod, At, GoTo, Requeue, ApiError
<1>7. CASE reconcileServices
  <2>1. left' \in [Disturbances -> Nat]
    BY <1>d, <1>7 DEF reconcileServices, ApiError, Disturbances
  <2> QED
    BY <1>7, <2>1, Zenon DEF reconcileServices, At, GoTo, Requeue, ApiError, objects, ghosts
<1>8. CASE updateStatus
  <2> DEFINE want == [sbn.cache EXCEPT !.st.hash = cfg, !.st.og = sbn.cache.gen]
  <2>1. sbn' \in Object(SBNs \cup {None})
    <3>1. CASE UNCHANGED sbn
      BY <3>1
    <3>2. CASE sbn.cache # None /\ sbn' = Commit(sbn, want)
      <4>1. want \in SBNs \cup {None}
        BY <1>s, <1>8, <3>2, SbnTypes, Zenon DEF updateStatus, At
      <4> QED
        BY <3>2, <4>1, CommitType
    <3> QED
      BY <1>8, <3>1, <3>2 DEF updateStatus, ApiError, objects
  <2>2. left' \in [Disturbances -> Nat]
    BY <1>d, <1>8 DEF updateStatus, ApiError, Disturbances
  <2> QED
    BY <1>8, <2>1, <2>2, Zenon DEF updateStatus, At, Done, Requeue, ApiError, ghosts
<1>9. CASE SbnEvent
  BY <1>9, DeliverType DEF SbnEvent, restOfState, pass, ghosts
<1>10. CASE ConfigMapEvent
  BY <1>10, DeliverType DEF ConfigMapEvent, restOfState, pass, ghosts
<1>11. CASE PodEvent
  BY <1>11, DeliverType DEF PodEvent, restOfState, pass, ghosts
<1>12. CASE PeersEvent
  BY <1>12, DeliverType DEF PeersEvent, restOfState, pass, ghosts
<1>13. CASE HealthEvent
  BY <1>13, DeliverType DEF HealthEvent, restOfState, pass, ghosts
<1>14. CASE SecretEvent
  BY <1>14, DeliverType DEF SecretEvent, restOfState, pass, ghosts
<1>15. CASE Resync
  BY <1>15 DEF Resync, objects, restOfState, pass, ghosts
<1>16. CASE EditSpec
  <2>1. PICK s \in Specs :
           /\ sbn' = Commit(sbn, [Current(sbn) EXCEPT !.spec = s, !.gen = @ + 1])
           /\ intended' = [intended EXCEPT !.spec = s]
    BY <1>16, Zenon DEF EditSpec
  <2>2. Current(sbn) \in SBNs
    BY <1>s, <1>16 DEF EditSpec
  <2>3. sbn' \in Object(SBNs \cup {None}) /\ intended' \in [uid : Uids, spec : Specs]
    BY <2>1, <2>2, CommitType, SbnTypes, Zenon
  <2>4. left' \in [Disturbances -> Nat]
    BY <1>d, <1>16 DEF EditSpec, Disturbances
  <2> QED
    BY <1>16, <2>3, <2>4 DEF EditSpec, pass
<1>17. CASE DeleteNode
  <2>1. Current(sbn) \in SBNs
    BY <1>s, <1>17 DEF DeleteNode
  <2>2. sbn' \in Object(SBNs \cup {None})
    BY <1>17, <2>1, CommitType, SbnTypes, Zenon DEF DeleteNode
  <2>3. left' \in [Disturbances -> Nat]
    BY <1>d, <1>17 DEF DeleteNode, Disturbances
  <2> QED
    BY <1>17, <2>2, <2>3 DEF DeleteNode, restOfState, pass, ghosts
<1>18. CASE RecreateNode
  <2>1. PICK s \in Specs : /\ sbn' = Commit(sbn, NewNode(intended.uid + 1, s))
                           /\ intended' = [uid |-> intended.uid + 1, spec |-> s]
    BY <1>18 DEF RecreateNode
  <2>2. intended.uid + 1 \in Uids
    BY DEF Uids
  <2>3. sbn' \in Object(SBNs \cup {None}) /\ intended' \in [uid : Uids, spec : Specs]
    BY <2>1, <2>2, CommitType, NewNodeType
  <2>4. left' \in [Disturbances -> Nat]
    BY <1>d, <1>18 DEF RecreateNode, Disturbances
  <2> QED
    BY <1>18, <2>3, <2>4 DEF RecreateNode, pass
<1>19. CASE ChangePeers
  <2>1. peers' \in Object(Peers)
    BY <1>19, CommitType DEF ChangePeers
  <2>2. left' \in [Disturbances -> Nat]
    BY <1>d, <1>19 DEF ChangePeers, Disturbances
  <2> QED
    BY <1>19, <2>1, <2>2 DEF ChangePeers, restOfState, pass, ghosts
<1>20. CASE ChangeHealth
  <2>1. health' \in Object(BOOLEAN)
    BY <1>s, <1>20, CommitType, Zenon DEF ChangeHealth
  <2>2. left' \in [Disturbances -> Nat]
    BY <1>d, <1>20 DEF ChangeHealth, Disturbances
  <2> QED
    BY <1>20, <2>1, <2>2 DEF ChangeHealth, restOfState, pass, ghosts
<1>21. CASE EvictPod
  <2>1. left' \in [Disturbances -> Nat]
    BY <1>d, <1>21 DEF EvictPod, Disturbances
  <2> QED
    BY <1>21, <2>1, TerminateType, Zenon DEF EvictPod, restOfState, pass, ghosts
<1>22. CASE KubeletStart
  <2>1. running' \in Configs
    BY <1>s, <1>22 DEF KubeletStart, ConfigMaps
  <2>2. left' \in [Disturbances -> Nat]
    BY <1>d, <1>22 DEF KubeletStart, Disturbances
  <2> QED
    BY <1>22, <2>1, <2>2 DEF KubeletStart, objects, pass, ghosts
<1>23. CASE PodGone
  BY <1>23, CommitType DEF PodGone, pass, ghosts
<1>24. CASE CollectGarbage
  <2>1. /\ Commit(sec, None) \in Object(Uids \cup {None})
        /\ Commit(cm, None) \in Object(ConfigMaps \cup {None})
        /\ Terminate(pod) \in Object(Pods \cup {None})
    BY CommitType, TerminateType, Zenon
  <2>2. /\ sec' \in Object(Uids \cup {None})
        /\ cm' \in Object(ConfigMaps \cup {None})
        /\ pod' \in Object(Pods \cup {None})
    BY <1>24, <2>1 DEF CollectGarbage
  <2> QED
    BY <1>24, <2>2 DEF CollectGarbage, restOfState, pass, ghosts
<1>25. CASE Crash
  <2>1. /\ sbn' \in Object(SBNs \cup {None}) /\ sec' \in Object(Uids \cup {None})
        /\ cm' \in Object(ConfigMaps \cup {None}) /\ pod' \in Object(Pods \cup {None})
        /\ peers' \in Object(Peers) /\ health' \in Object(BOOLEAN)
    BY <1>25, RelistType DEF Crash
  <2>2. left' \in [Disturbances -> Nat]
    BY <1>d, <1>25 DEF Crash, Disturbances
  <2> QED
    BY <1>25, <2>1, <2>2 DEF Crash, Requeue, ghosts
<1>26. CASE UNCHANGED vars
  BY <1>26 DEF vars, objects, pass, ghosts
<1> QED
  BY <1>1, <1>2, <1>3, <1>4, <1>5, <1>6, <1>7, <1>8, <1>9, <1>10, <1>11, <1>12,
     <1>13, <1>14, <1>15, <1>16, <1>17, <1>18, <1>19, <1>20, <1>21, <1>22, <1>23,
     <1>24, <1>25, <1>26 DEF Next, Worker, WatchEvent, Environment

(* Every variable keeps its type: in particular a pass that has got past   *)
(* collectInput always has a node and a config to write.                   *)
THEOREM TypeCorrect == Spec => []TypeOK
<1>1. Spec => []TypeInv
  BY TypeInit, TypeStep, PTL DEF Spec
<1>2. TypeInv => TypeOK
  BY DEF TypeInv
<1> QED
  BY <1>1, <1>2, PTL

-----------------------------------------------------------------------------
(* What a step may do to the version of the SingBoxNode the API server     *)
(* holds: because a write is refused unless the cached copy is up to date, *)
(* every write of the operator changes just its own fields of that version.*)

OperatorWrite(o, n) ==
  /\ o # None
  /\ \/ n = [o EXCEPT !.fin = TRUE]
     \/ n = ReadyStatus(o)
     \/ /\ pc = "status"
        /\ n = [o EXCEPT !.st.hash = cfg, !.st.og = o.gen]
     \/ n = None

UserWrite(o, n) ==
  \/ /\ o # None /\ intended' = intended
     /\ n = [o EXCEPT !.del = TRUE, !.gen = @ + 1] \/ n = None
  \/ /\ o # None
     /\ \E s \in Specs : /\ n = [o EXCEPT !.spec = s, !.gen = @ + 1]
                          /\ intended' = [intended EXCEPT !.spec = s]
  \/ /\ o = None
     /\ \E s \in Specs : /\ n = NewNode(intended.uid + 1, s)
                          /\ intended' = [uid |-> intended.uid + 1, spec |-> s]

(* Every step leaves the SingBoxNode the API server holds alone, or is an  *)
(* accepted operator write, or is the user's.                              *)
LEMMA SbnStep ==
  ASSUME TypeInv, [Next]_vars
  PROVE  \/ Current(sbn)' = Current(sbn) /\ intended' = intended
         \/ OperatorWrite(Current(sbn), Current(sbn)') /\ intended' = intended
         \/ UserWrite(Current(sbn), Current(sbn)')
<1> DEFINE V == SBNs \cup {None}
<1> HIDE DEF V
<1>o. sbn \in Object(V)
  BY DEF TypeInv, TypeOK, V
<1>s. /\ Current(sbn) \in V /\ sbn.cache \in V
      /\ None \in V /\ SBNs \subseteq V
      /\ V \subseteq SBNs \cup {None}
  BY <1>o, CurrentType, Zenon DEF V
<1>f. sbn.cache # None /\ Accepts(sbn) => Current(sbn) = sbn.cache
  BY FreshCurrent DEF Accepts
<1>c. \A v \in V : Current(Commit(sbn, v)) = v
  BY <1>o, CommitType
<1>u. UNCHANGED <<sbn, intended>> => Current(sbn)' = Current(sbn) /\ intended' = intended
  OBVIOUS
<1>1. CASE Reconcile
  <2>1. CASE NodeNotFound \/ StartPass
    BY <1>1, <1>u, <2>1 DEF Reconcile, NodeNotFound, StartPass, objects, ghosts
  <2>2. CASE handleDeletion
    BY <1>1, <1>s, <1>f, <1>c, <2>2 DEF Reconcile, handleDeletion, OperatorWrite, ghosts
  <2>3. CASE AddFinalizer
    <3>1. [sbn.cache EXCEPT !.fin = TRUE] \in V
      BY <1>s, <2>3, SbnTypes, Zenon DEF AddFinalizer
    <3>2. Current(sbn)' = [Current(sbn) EXCEPT !.fin = TRUE] /\ Current(sbn) # None
      BY <1>f, <1>c, <2>3, <3>1, Zenon DEF AddFinalizer
    <3> QED
      BY <1>1, <3>2 DEF Reconcile, OperatorWrite, ghosts
  <2> QED
    BY <1>1, <2>1, <2>2, <2>3 DEF Reconcile
<1>2. CASE updateNodeReadyStatus
  <2>1. CASE UNCHANGED sbn
    BY <1>2, <1>u, <2>1 DEF updateNodeReadyStatus, ghosts
  <2>2. CASE /\ sbn.cache # None /\ Accepts(sbn)
             /\ sbn' = Commit(sbn, ReadyStatus(sbn.cache))
    <3>1. ReadyStatus(sbn.cache) \in V
      BY <1>s, <2>2, SbnTypes, Zenon
    <3>2. Current(sbn)' = ReadyStatus(Current(sbn)) /\ Current(sbn) # None
      BY <1>f, <1>c, <2>2, <3>1
    <3> QED
      BY <1>2, <3>2 DEF updateNodeReadyStatus, OperatorWrite, ghosts
  <2> QED
    BY <1>2, <2>1, <2>2 DEF updateNodeReadyStatus
<1>3. CASE updateStatus
  <2> DEFINE want == [sbn.cache EXCEPT !.st.hash = cfg, !.st.og = sbn.cache.gen]
  <2>1. CASE UNCHANGED sbn
    BY <1>3, <1>u, <2>1 DEF updateStatus, ghosts
  <2>2. CASE sbn.cache # None /\ Accepts(sbn) /\ sbn' = Commit(sbn, want)
    <3>1. want \in V
      BY <1>3, <1>s, <2>2, SbnTypes, Zenon DEF updateStatus, At, TypeInv, PassOK
    <3>2. Current(sbn)' = want /\ Current(sbn) = sbn.cache
      BY <1>f, <1>c, <2>2, <3>1
    <3> QED
      BY <1>3, <2>2, <3>2 DEF updateStatus, At, OperatorWrite, ghosts
  <2> QED
    BY <1>3, <2>1, <2>2 DEF updateStatus, ApiError, objects
<1>4. CASE SbnEvent
  BY <1>4, <1>o, DeliverType DEF SbnEvent, restOfState, ghosts
<1>5. CASE EditSpec
  <2>1. PICK s \in Specs :
           /\ sbn' = Commit(sbn, [Current(sbn) EXCEPT !.spec = s, !.gen = @ + 1])
           /\ intended' = [intended EXCEPT !.spec = s]
    BY <1>5, ZenonT(30) DEF EditSpec
  <2>2. Current(sbn) # None /\ [Current(sbn) EXCEPT !.spec = s, !.gen = @ + 1] \in V
    BY <1>5, <1>s, SbnTypes, ZenonT(30) DEF EditSpec
  <2> QED
    BY <1>c, <2>1, <2>2, ZenonT(30) DEF UserWrite
<1>6. CASE DeleteNode
  <2>1. Current(sbn) # None /\ [Current(sbn) EXCEPT !.del = TRUE, !.gen = @ + 1] \in V
    BY <1>6, <1>s, SbnTypes, Zenon DEF DeleteNode
  <2> QED
    BY <1>6, <1>s, <1>c, <2>1, ZenonT(30) DEF DeleteNode, UserWrite, restOfState, ghosts
<1>7. CASE RecreateNode
  <2>1. PICK s \in Specs : /\ sbn' = Commit(sbn, NewNode(intended.uid + 1, s))
                           /\ intended' = [uid |-> intended.uid + 1, spec |-> s]
    BY <1>7 DEF RecreateNode
  <2>2. intended.uid + 1 \in Uids
    BY DEF TypeInv, TypeOK, Uids
  <2>3. NewNode(intended.uid + 1, s) \in V
    BY <1>s, <2>2, NewNodeType
  <2> QED
    BY <1>7, <1>c, <2>1, <2>3 DEF RecreateNode, UserWrite
<1>8. CASE Crash
  BY <1>8, <1>o, RelistType DEF Crash, ghosts
<1>9. CASE \/ ensureCredential \/ collectInput \/ reconcileConfigMap \/ reconcilePod
           \/ reconcileServices
  BY <1>9, <1>u, ZenonT(30)
     DEF ensureCredential, collectInput, reconcileConfigMap, reconcilePod,
     reconcileServices, objects, ghosts
<1>10. CASE \/ ConfigMapEvent \/ PodEvent \/ PeersEvent \/ HealthEvent \/ SecretEvent
            \/ Resync \/ ChangePeers \/ ChangeHealth \/ EvictPod \/ KubeletStart
            \/ PodGone \/ CollectGarbage \/ UNCHANGED vars
  BY <1>10, <1>u, Zenon DEF ConfigMapEvent, PodEvent, PeersEvent, HealthEvent, SecretEvent,
     Resync, ChangePeers, ChangeHealth, EvictPod, KubeletStart, PodGone,
     CollectGarbage, vars, restOfState, objects, ghosts
<1> QED
  BY <1>1, <1>2, <1>3, <1>4, <1>5, <1>6, <1>7, <1>8, <1>9, <1>10
     DEF Next, Worker, WatchEvent, Environment

(* A write never changes the spec or the uid of the version it is made     *)
(* from.                                                                   *)
LEMMA NoLostEditStep == TypeInv /\ NoLostEdit /\ [Next]_vars => NoLostEdit'
<1> SUFFICES ASSUME TypeInv, NoLostEdit, [Next]_vars PROVE NoLostEdit'
  OBVIOUS
<1> DEFINE o == Current(sbn)
           n == Current(sbn)'
<1>1. o \in SBNs \cup {None} /\ intended \in [uid : Uids, spec : Specs]
  BY CurrentType DEF TypeInv, TypeOK
<1>2. CASE n = o /\ intended' = intended
  BY <1>2 DEF NoLostEdit
<1>3. CASE OperatorWrite(o, n) /\ intended' = intended
  BY <1>1, <1>3, Zenon DEF OperatorWrite, ReadyStatus, NoLostEdit, SBNs
<1>4. CASE UserWrite(o, n)
  <2>1. CASE \E s \in Specs : /\ n = [o EXCEPT !.spec = s, !.gen = @ + 1]
                              /\ intended' = [intended EXCEPT !.spec = s]
                              /\ o # None
    BY <1>1, <2>1 DEF NoLostEdit, SBNs
  <2>2. CASE n = [o EXCEPT !.del = TRUE, !.gen = @ + 1] /\ o # None /\ intended' = intended
    BY <1>1, <2>2 DEF NoLostEdit, SBNs
  <2>3. CASE \E s \in Specs : /\ n = NewNode(intended.uid + 1, s)
                              /\ intended' = [uid |-> intended.uid + 1, spec |-> s]
    BY <2>3 DEF NoLostEdit, NewNode
  <2>4. CASE n = None
    BY <2>4 DEF NoLostEdit
  <2> QED
    BY <1>4, <2>1, <2>2, <2>3, <2>4, Zenon DEF UserWrite
<1> QED
  BY <1>2, <1>3, <1>4, SbnStep

(* However many writes race with it, an edit of the spec is never undone   *)
(* and a deleted node is never revived by the operator's writes, all of    *)
(* which send back a whole cached object.                                  *)
THEOREM NoEditIsLost == Spec => []NoLostEdit
<1>1. Init => NoLostEdit
  BY DEF Init, NoLostEdit, Created, Current, NewNode
<1>2. Spec => []TypeInv
  BY TypeInit, TypeStep, PTL DEF Spec
<1> QED
  BY <1>1, <1>2, NoLostEditStep, PTL DEF Spec

-----------------------------------------------------------------------------
(* The reported generation never runs ahead of the generation, so a later  *)
(* report cannot be smaller.                                               *)

ObservedInv == Current(sbn) # None => Current(sbn).st.og <= Current(sbn).gen

(* Every step keeps the observed generation at or below the generation,    *)
(* and takes neither back nor a deletion request.                          *)
LEMMA ObservedStep ==
  ASSUME TypeInv, ObservedInv, [Next]_vars
  PROVE  /\ ObservedInv'
         /\ LET o == Current(sbn)
                n == Current(sbn)'
            IN  o # None /\ n # None /\ n.uid = o.uid
                  => n.st.og >= o.st.og /\ n.gen >= o.gen /\ (o.del => n.del)
<1> DEFINE o == Current(sbn)
           n == Current(sbn)'
<1>1. o \in SBNs \cup {None}
  BY CurrentType DEF TypeInv, TypeOK
<1>2. CASE n = o
  BY <1>1, <1>2 DEF ObservedInv, SBNs, Status
<1>3. CASE OperatorWrite(o, n)
  <2>1. CASE n = None
    BY <2>1 DEF ObservedInv
  <2>2. CASE o # None /\ n = [o EXCEPT !.fin = TRUE]
    BY <1>1, <2>2 DEF ObservedInv, SBNs, Status
  <2>3. CASE o # None /\ n = ReadyStatus(o)
    <3>1. n.gen = o.gen /\ n.st.og = o.st.og /\ n.del = o.del
      BY <1>1, <2>3, ZenonT(30) DEF ReadyStatus, SBNs, Status
    <3>2. o.gen \in Nat /\ o.st.og \in Nat /\ o.st.og <= o.gen
      BY <1>1, <2>3 DEF ObservedInv, SBNs, Status
    <3> QED
      BY <3>1, <3>2 DEF ObservedInv
  <2>4. CASE o # None /\ n = [o EXCEPT !.st.hash = cfg, !.st.og = o.gen]
    <3>1. n.gen = o.gen /\ n.st.og = o.gen /\ n.del = o.del
      BY <1>1, <2>4, Zenon DEF SBNs, Status
    <3>2. o.gen \in Nat /\ o.st.og \in Nat /\ o.st.og <= o.gen
      BY <1>1, <2>4 DEF ObservedInv, SBNs, Status
    <3> QED
      BY <3>1, <3>2 DEF ObservedInv
  <2> QED
    BY <1>3, <2>1, <2>2, <2>3, <2>4 DEF OperatorWrite
<1>4. CASE UserWrite(o, n)
  <2>1. CASE o # None /\ \E s \in Specs : n = [o EXCEPT !.spec = s, !.gen = @ + 1]
    <3>1. n.gen = o.gen + 1 /\ n.st = o.st /\ n.del = o.del
      BY <1>1, <2>1, Zenon DEF SBNs
    <3>2. o.gen \in Nat /\ o.st.og \in Nat /\ o.st.og <= o.gen
      BY <1>1, <2>1 DEF ObservedInv, SBNs, Status
    <3> QED
      BY <3>1, <3>2 DEF ObservedInv
  <2>2. CASE o # None /\ n = [o EXCEPT !.del = TRUE, !.gen = @ + 1]
    <3>1. n.gen = o.gen + 1 /\ n.st = o.st /\ n.del
      BY <1>1, <2>2, Zenon DEF SBNs
    <3>2. o.gen \in Nat /\ o.st.og \in Nat /\ o.st.og <= o.gen
      BY <1>1, <2>2 DEF ObservedInv, SBNs, Status
    <3> QED
      BY <3>1, <3>2 DEF ObservedInv
  <2>3. CASE o = None /\ \E s \in Specs : n = NewNode(intended.uid + 1, s)
    BY <2>3 DEF ObservedInv, NewNode
  <2>4. CASE n = None
    BY <2>4 DEF ObservedInv
  <2> QED
    BY <1>4, <2>1, <2>2, <2>3, <2>4, Zenon DEF UserWrite
<1> QED
  BY <1>2, <1>3, <1>4, SbnStep

(* status.observedGeneration never goes back and a deletion request is     *)
(* never withdrawn, whatever stale copies the passes work with.            *)
THEOREM StatusIsMonotonic == Spec => StatusNeverGoesBack
<1>1. Init => ObservedInv
  BY DEF Init, ObservedInv, Created, Current, NewNode
<1>2. Spec => []TypeInv
  BY TypeInit, TypeStep, PTL DEF Spec
<1>3. TypeInv /\ ObservedInv /\ [Next]_vars => ObservedInv'
  BY ObservedStep
<1>4. TypeInv /\ ObservedInv /\ [Next]_vars
        => [ LET o == Current(sbn)
                 n == Current(sbn)'
             IN  o # None /\ n # None /\ n.uid = o.uid
                   => n.st.og >= o.st.og /\ n.gen >= o.gen /\ (o.del => n.del) ]_vars
  BY ObservedStep
<1> QED
  BY <1>1, <1>2, <1>3, <1>4, PTL DEF Spec, StatusNeverGoesBack
-----------------------------------------------------------------------------
(* Roll-out order.  Passes decide by cached, possibly old versions of the  *)
(* ConfigMap and the Pod, so the invariant speaks of all versions: each    *)
(* ConfigMap version holds a published config, each Pod version is         *)
(* annotated with a rolled-out one.                                        *)

Published == [data : published, owner : Uids] \cup {None}
Rolled    == [hash : rolled, owner : Uids, host : Hosts, del : BOOLEAN] \cup {None}

RolloutInv ==
  /\ cm \in Object(Published)
  /\ pod \in Object(Rolled)
  /\ RolloutOrder
  /\ pc \in {"pod", "svc", "status"} => cfg \in published
  /\ pc \in {"svc", "status"} => cfg \in rolled

(* Publishing and rolling out more configs keeps the old versions good.    *)
LEMMA PublishedGrows ==
  ASSUME published \subseteq published'
  PROVE  Object(Published) \subseteq Object(Published')
<1>1. Published \subseteq Published'
  BY DEF Published
<1> QED
  BY <1>1, ObjectMonotonic

(* The same for the versions of the Pod.                                   *)
LEMMA RolledGrows ==
  ASSUME rolled \subseteq rolled'
  PROVE  Object(Rolled) \subseteq Object(Rolled')
<1>1. Rolled \subseteq Rolled'
  BY DEF Rolled
<1> QED
  BY <1>1, ObjectMonotonic

(* A Pod marked for deletion keeps its annotation.                         *)
LEMMA TerminateRolled ==
  ASSUME pod \in Object(Rolled)
  PROVE  Terminate(pod) \in Object(Rolled)
<1>1. CASE Current(pod) = None \/ Current(pod).del
  BY <1>1 DEF Terminate
<1>2. CASE ~(Current(pod) = None \/ Current(pod).del)
  <2>1. Current(pod) \in Rolled \ {None}
    BY <1>2, CurrentType
  <2>2. [Current(pod) EXCEPT !.del = TRUE] \in Rolled
    BY <2>1, Zenon DEF Rolled
  <2> QED
    BY <1>2, <2>2, CommitType DEF Terminate
<1> QED
  BY <1>1, <1>2

(* The reported hash stays rolled out: a step leaves it, drops it, or      *)
(* makes it the config of a pass that has rolled out its Pod.              *)
LEMMA ReportedHash ==
  ASSUME TypeInv, RolloutInv, [Next]_vars, rolled \subseteq rolled'
  PROVE  Current(sbn)' # None /\ Current(sbn)'.st.hash # None
           => Current(sbn)'.st.hash \in rolled'
<1> DEFINE o == Current(sbn)
           n == Current(sbn)'
<1>1. o \in SBNs \cup {None}
  BY CurrentType DEF TypeInv, TypeOK
<1>2. o # None /\ o.st.hash # None => o.st.hash \in rolled'
  BY DEF RolloutInv, RolloutOrder
<1>3. CASE n = o
  BY <1>2, <1>3
<1>4. CASE OperatorWrite(o, n)
  <2>1. CASE o # None /\ n = [o EXCEPT !.fin = TRUE]
    BY <1>1, <1>2, <2>1 DEF SBNs
  <2>2. CASE o # None /\ n = ReadyStatus(o)
    BY <1>1, <1>2, <2>2, ZenonT(30) DEF SBNs, Status, ReadyStatus
  <2>3. CASE o # None /\ pc = "status" /\ n = [o EXCEPT !.st.hash = cfg, !.st.og = o.gen]
    <3>1. n.st.hash = cfg
      BY <1>1, <2>3, Zenon DEF SBNs, Status
    <3> QED
      BY <2>3, <3>1 DEF RolloutInv
  <2> QED
    BY <1>4, <2>1, <2>2, <2>3 DEF OperatorWrite
<1>5. CASE UserWrite(o, n)
  <2>1. CASE o # None /\ \E s \in Specs : n = [o EXCEPT !.spec = s, !.gen = @ + 1]
    BY <1>1, <1>2, <2>1, Zenon DEF SBNs
  <2>2. CASE o # None /\ n = [o EXCEPT !.del = TRUE, !.gen = @ + 1]
    BY <1>1, <1>2, <2>2, Zenon DEF SBNs
  <2>3. CASE \E s \in Specs : n = NewNode(intended.uid + 1, s)
    BY <2>3 DEF NewNode
  <2> QED
    BY <1>5, <2>1, <2>2, <2>3, Zenon DEF UserWrite
<1> QED
  BY <1>3, <1>4, <1>5, SbnStep

(* Every step keeps the roll-out order.                                    *)
LEMMA RolloutStep == TypeInv /\ RolloutInv /\ [Next]_vars => RolloutInv'
<1> SUFFICES ASSUME TypeInv, RolloutInv, [Next]_vars PROVE RolloutInv'
  OBVIOUS
<1> DEFINE Stays == /\ published' = published /\ rolled' = rolled
                    /\ cm' \in Object(Published) /\ pod' \in Object(Rolled)
                    /\ running' = None \/ running' = running \/ running' \in published
                    /\ \/ cfg' = cfg /\ pc' = pc
                       \/ pc' \notin {"pod", "svc", "status"}
                       \/ cfg' = cfg /\ pc' = "pod" /\ cfg \in published
                       \/ cfg' = cfg /\ pc' \in {"svc", "status"}
                            /\ cfg \in published /\ cfg \in rolled
<1>s. Stays => RolloutInv'
  <2> SUFFICES ASSUME Stays PROVE RolloutInv'
    OBVIOUS
  <2>1. cm' \in Object(Published') /\ pod' \in Object(Rolled')
    BY DEF Published, Rolled
  <2>2. Current(sbn)' # None /\ Current(sbn)'.st.hash # None
          => Current(sbn)'.st.hash \in rolled'
    BY ReportedHash
  <2> QED
    BY <2>1, <2>2 DEF RolloutInv, RolloutOrder
<1>t. /\ cm.cache \in Published /\ Current(cm) \in Published
      /\ pod.cache \in Rolled /\ Current(pod) \in Rolled
      /\ cm \in Object(Published) /\ pod \in Object(Rolled)
  BY CurrentType DEF RolloutInv
<1>n. None \in Published /\ None \in Rolled
  BY DEF Published, Rolled
<1>1. CASE Reconcile
  BY <1>1, <1>s, <1>t, ZenonT(30) DEF Reconcile, NodeNotFound, handleDeletion, AddFinalizer,
     StartPass, objects, pass, ghosts
<1>2. CASE updateNodeReadyStatus
  BY <1>2, <1>s, <1>t DEF updateNodeReadyStatus, GoTo, ghosts
<1>3. CASE ensureCredential
  BY <1>3, <1>s, <1>t DEF ensureCredential, GoTo, Requeue, ApiError, ghosts
<1>4. CASE collectInput
  BY <1>4, <1>s, <1>t DEF collectInput, GoTo, objects, ghosts
<1>5. CASE reconcileConfigMap
  <2> DEFINE want == [data |-> cfg, owner |-> node.uid]
  <2>1. CASE cm.cache = want /\ GoTo("pod") /\ UNCHANGED <<cm, cfg, published>>
    <3>1. want # None
      BY <1>5, NoneAssumption DEF reconcileConfigMap, At, TypeInv, PassOK, SBNs, ConfigMaps
    <3>2. cfg \in published
      BY <1>t, <2>1, <3>1 DEF Published
    <3> QED
      BY <1>5, <1>s, <1>t, <2>1, <3>2 DEF reconcileConfigMap, GoTo
  <2>2. CASE /\ cm' = Commit(cm, want) /\ published' = published \cup {cfg}
             /\ GoTo("pod") /\ UNCHANGED cfg
    <3>1. cm \in Object(Published')
      BY <1>t, <2>2, PublishedGrows
    <3>2. want \in Published'
      BY <1>5, <2>2 DEF reconcileConfigMap, At, TypeInv, PassOK, SBNs, Published
    <3>3. cm' \in Object(Published')
      BY <2>2, <3>1, <3>2, CommitType
    <3>4. rolled' = rolled /\ pod' = pod /\ running' = running
      BY <1>5 DEF reconcileConfigMap
    <3>5. Current(sbn)' # None /\ Current(sbn)'.st.hash # None
            => Current(sbn)'.st.hash \in rolled'
      BY <3>4, ReportedHash
    <3>6. pod' \in Object(Rolled')
      BY <1>t, <3>4 DEF Rolled
    <3> QED
      BY <2>2, <3>3, <3>4, <3>5, <3>6 DEF RolloutInv, RolloutOrder, GoTo
  <2>3. CASE Requeue /\ UNCHANGED <<cm, published>>
    BY <1>5, <1>s, <1>t, <2>3 DEF reconcileConfigMap, Requeue
  <2> QED
    BY <1>5, <2>1, <2>2, <2>3 DEF reconcileConfigMap, ApiError, objects
<1>6. CASE reconcilePod
  <2> DEFINE want == [hash |-> cfg, owner |-> node.uid, host |-> node.spec.host,
                      del |-> FALSE]
  <2>0. cfg \in published
    BY <1>6 DEF reconcilePod, At, RolloutInv
  <2>1. CASE pod.cache # None /\ pod.cache.hash = cfg /\ GoTo("svc") /\ UNCHANGED <<pod, cfg, rolled>>
    <3>1. cfg \in rolled
      BY <1>t, <2>1 DEF Rolled
    <3> QED
      BY <1>6, <1>s, <1>t, <2>0, <2>1, <3>1 DEF reconcilePod, GoTo
  <2>2. CASE /\ pod' = Commit(pod, want) /\ rolled' = rolled \cup {cfg}
             /\ GoTo("svc") /\ UNCHANGED cfg
    <3>1. pod \in Object(Rolled')
      BY <1>t, <2>2, RolledGrows
    <3>2. want \in Rolled'
      BY <1>6, <2>2 DEF reconcilePod, At, TypeInv, PassOK, SBNs, Specs, Rolled
    <3>3. pod' \in Object(Rolled')
      BY <2>2, <3>1, <3>2, CommitType
    <3>4. published' = published /\ cm' = cm /\ running' = running
      BY <1>6 DEF reconcilePod
    <3>5. Current(sbn)' # None /\ Current(sbn)'.st.hash # None
            => Current(sbn)'.st.hash \in rolled'
      BY <2>2, ReportedHash
    <3>6. cm' \in Object(Published')
      BY <1>t, <3>4 DEF Published
    <3> QED
      BY <2>0, <2>2, <3>3, <3>4, <3>5, <3>6, Zenon DEF RolloutInv, RolloutOrder, GoTo
  <2>3. CASE Requeue /\ (pod' = Terminate(pod) \/ pod' = pod) /\ UNCHANGED rolled
    BY <1>6, <1>s, <1>t, <2>3, TerminateRolled DEF reconcilePod, Requeue
  <2> QED
    BY <1>6, <2>1, <2>2, <2>3 DEF reconcilePod, ApiError, objects
<1>7. CASE reconcileServices
  <2>1. cfg \in published /\ cfg \in rolled
    BY <1>7 DEF reconcileServices, At, RolloutInv
  <2> QED
    BY <1>7, <1>s, <1>t, <2>1, Zenon DEF reconcileServices, GoTo, Requeue, ApiError, ghosts
<1>8. CASE updateStatus
  BY <1>8, <1>s, <1>t DEF updateStatus, Done, Requeue, ApiError, ghosts
<1>9. CASE ConfigMapEvent
  BY <1>9, <1>s, <1>t, DeliverType DEF ConfigMapEvent, restOfState, pass, ghosts
<1>10. CASE PodEvent
  BY <1>10, <1>s, <1>t, DeliverType DEF PodEvent, restOfState, pass, ghosts
<1>11. CASE SbnEvent \/ PeersEvent \/ HealthEvent \/ SecretEvent \/ Resync
  BY <1>11, <1>s, <1>t DEF SbnEvent, PeersEvent, HealthEvent, SecretEvent, Resync,
     restOfState, objects, pass, ghosts
<1>12. CASE EditSpec \/ DeleteNode \/ RecreateNode \/ ChangePeers \/ ChangeHealth
  BY <1>12, <1>s, <1>t, Zenon DEF EditSpec, DeleteNode, RecreateNode, ChangePeers,
     ChangeHealth, restOfState, pass, ghosts
<1>13. CASE EvictPod
  BY <1>13, <1>s, <1>t, TerminateRolled DEF EvictPod, restOfState, pass, ghosts
<1>14. CASE KubeletStart
  <2>1. running' \in published
    BY <1>14, <1>t DEF KubeletStart, Published
  <2> QED
    BY <1>14, <1>s, <1>t, <2>1 DEF KubeletStart, objects, pass, ghosts
<1>15. CASE PodGone
  BY <1>15, <1>s, <1>t, <1>n, CommitType DEF PodGone, pass, ghosts
<1>16. CASE CollectGarbage
  <2>1. Commit(cm, None) \in Object(Published) /\ Terminate(pod) \in Object(Rolled)
    BY <1>t, <1>n, CommitType, TerminateRolled
  <2> QED
    BY <1>16, <1>s, <1>t, <2>1 DEF CollectGarbage, restOfState, pass, ghosts
<1>17. CASE Crash
  BY <1>17, <1>s, <1>t, RelistType DEF Crash, Requeue, ghosts
<1>18. CASE UNCHANGED vars
  BY <1>18, <1>s, <1>t DEF vars, objects, pass, ghosts
<1> QED
  BY <1>1, <1>2, <1>3, <1>4, <1>5, <1>6, <1>7, <1>8, <1>9, <1>10, <1>11, <1>12,
     <1>13, <1>14, <1>15, <1>16, <1>17, <1>18 DEF Next, Worker, WatchEvent, Environment

(* A config reaches a Pod only after the ConfigMap has held it, sing-box   *)
(* only from the ConfigMap, and the status only after a Pod was created    *)
(* for it, through any interleaving of passes, faults and restarts.        *)
THEOREM RolloutIsOrdered == Spec => []RolloutOrder
<1>1. Init => RolloutInv
  <2> SUFFICES ASSUME Init PROVE RolloutInv
    OBVIOUS
  <2>1. cm = Listed(None) /\ pod = Listed(None) /\ running = None
    BY Zenon DEF Init
  <2>2. pc = "idle" /\ published = {} /\ rolled = {}
    BY Zenon DEF Init
  <2>3. cm \in Object(Published) /\ pod \in Object(Rolled)
    BY <2>1 DEF Published, Rolled, Object, Listed
  <2>4. \E s \in Starts : sbn = Created(NewNode(1, s.spec))
    BY Zenon DEF Init
  <2>5. Current(sbn).st.hash = None
    BY <2>4 DEF Created, Current, NewNode
  <2>6. RolloutOrder
    BY <2>1, <2>2, <2>5 DEF RolloutOrder
  <2> QED
    BY <2>2, <2>3, <2>6 DEF RolloutInv
<1>2. Spec => []TypeInv
  BY TypeInit, TypeStep, PTL DEF Spec
<1>3. RolloutInv => RolloutOrder
  BY DEF RolloutInv
<1> QED
  BY <1>1, <1>2, <1>3, RolloutStep, PTL DEF Spec
-----------------------------------------------------------------------------
(* Rest states: no wake-up is lost and no deletion gets stuck.             *)
(*                                                                         *)
(* Every change of a watched object's cache queues the key.  While the key *)
(* is not queued, the caches are therefore the ones the running pass       *)
(* started from, and what the pass has found or written stays true of      *)
(* every object without an outstanding event.                              *)

Wanted(c, u) == [data |-> c, owner |-> u]

PassInv ==
  /\ pc # "idle" => node = sbn.cache /\ node.fin /\ ~node.del
  /\ pc \in {"cm", "pod", "svc", "status"}
       => cfg.cfg = node.spec.cfg /\ cfg.peers = peers.cache
  /\ pc \in {"pod", "svc", "status"} /\ Fresh(cm) => cm.cache = Wanted(cfg, node.uid)
  /\ pc \in {"svc", "status"} /\ Fresh(pod) => pod.cache # None /\ pod.cache.hash = cfg

RestInv ==
  pc = "idle" /\ Live(sbn.cache) /\ Fresh(sbn) =>
    /\ sbn.cache.fin
    /\ sbn.cache.st.hash \in Configs
    /\ sbn.cache.st.hash.cfg = sbn.cache.spec.cfg
    /\ sbn.cache.st.hash.peers = peers.cache
    /\ sbn.cache.st.og = sbn.cache.gen
    /\ Fresh(cm) => cm.cache = Wanted(sbn.cache.st.hash, sbn.cache.uid)
    /\ Fresh(pod) => pod.cache # None /\ pod.cache.hash = sbn.cache.st.hash
    /\ ~svc

DeletionInv == Fresh(sbn) => sbn.cache = None \/ ~sbn.cache.del

WakeupInv ==
  /\ ~queued => PassInv /\ RestInv /\ DeletionInv
  /\ pc = "status" => ~svc

(* An object a step left alone or wrote to: its cache is the same, and it  *)
(* is fresh only if it was.                                                *)
Kept(o, p) == p = o \/ (p.cache = o.cache /\ ~Fresh(p))

(* A write leaves the cache as it was, and the object not fresh.           *)
LEMMA CommitKeeps ==
  ASSUME NEW V, NEW o \in Object(V), NEW v \in V
  PROVE  Kept(o, Commit(o, v))
  BY CommitType DEF Kept

(* So does a deletion of the Pod, unless there is nothing to delete.       *)
LEMMA TerminateKeeps ==
  ASSUME NEW o \in Object(Pods \cup {None})
  PROVE  Kept(o, Terminate(o))
<1>1. CASE Current(o) = None \/ Current(o).del
  BY <1>1 DEF Terminate, Kept
<1>2. CASE ~(Current(o) = None \/ Current(o).del)
  <2>1. Current(o) \in Pods
    BY <1>2, CurrentType
  <2>2. [Current(o) EXCEPT !.del = TRUE] \in Pods
    BY <2>1, Zenon DEF Pods
  <2> QED
    BY <1>2, <2>2, CommitKeeps DEF Terminate
<1> QED
  BY <1>1, <1>2

(* Steps that queue the key have nothing to keep.                          *)
LEMMA QueuedStep ==
  ASSUME queued' = TRUE, pc' = "status" => ~svc'
  PROVE  WakeupInv'
  BY DEF WakeupInv

(* Steps that only write to the API server keep what a pass has found.     *)
LEMMA WriteStep ==
  ASSUME WakeupInv,
         UNCHANGED <<queued, pc, node, cfg, svc>>,
         Kept(sbn, sbn'), Kept(cm, cm'), Kept(pod, pod'), peers'.cache = peers.cache
  PROVE  WakeupInv'
<1>1. /\ sbn'.cache = sbn.cache /\ cm'.cache = cm.cache /\ pod'.cache = pod.cache
      /\ (Fresh(sbn') => Fresh(sbn)) /\ (Fresh(cm') => Fresh(cm))
      /\ (Fresh(pod') => Fresh(pod))
  BY DEF Kept
<1>2. CASE queued
  BY <1>2 DEF WakeupInv
<1>3. CASE ~queued
  BY <1>1, <1>3, ZenonT(30) DEF WakeupInv, PassInv, RestInv, DeletionInv, Fresh
<1> QED
  BY <1>2, <1>3

(* Taking the key from the queue, up to the copy a pass works with.        *)
LEMMA ReconcileStep ==
  ASSUME TypeInv, WakeupInv, Reconcile
  PROVE  WakeupInv'
<1>0. pc = "idle"
  BY DEF Reconcile, At
<1>1. CASE NodeNotFound
  BY <1>0, <1>1
     DEF NodeNotFound, objects, pass, WakeupInv, PassInv, RestInv, DeletionInv, Live
<1>2. CASE handleDeletion
  <2>1. ~Fresh(sbn')
    BY <1>2, CommitType DEF handleDeletion, TypeInv, TypeOK
  <2>2. pc' = "idle"
    BY <1>0, <1>2 DEF handleDeletion, pass
  <2> QED
    BY <2>1, <2>2, ZenonT(30) DEF WakeupInv, PassInv, RestInv, DeletionInv, Fresh
<1>3. CASE AddFinalizer
  BY <1>0, <1>3, QueuedStep DEF Reconcile, AddFinalizer, pass
<1>4. CASE StartPass
  BY <1>4 DEF StartPass, objects, WakeupInv, PassInv, RestInv, DeletionInv
<1> QED
  BY <1>1, <1>2, <1>3, <1>4 DEF Reconcile

(* The steps of a pass up to its status write.                             *)
LEMMA PassStep ==
  ASSUME TypeInv, WakeupInv,
         \/ updateNodeReadyStatus \/ ensureCredential \/ collectInput
         \/ reconcileConfigMap \/ reconcilePod \/ reconcileServices
  PROVE  WakeupInv'
<1>k. CASE queued' = TRUE /\ pc' # "status"
  BY <1>k, QueuedStep
<1>r. Requeue => WakeupInv'
  BY QueuedStep DEF Requeue
<1>1. CASE updateNodeReadyStatus
  <2>1. sbn'.cache = sbn.cache /\ (Fresh(sbn') => Fresh(sbn))
    <3>1. CASE UNCHANGED sbn
      BY <3>1
    <3>2. CASE sbn.cache # None /\ sbn' = Commit(sbn, ReadyStatus(sbn.cache))
      <4>1. sbn \in Object(SBNs \cup {None}) /\ sbn.cache \in SBNs
        BY <3>2, CurrentType DEF TypeInv, TypeOK
      <4>2. ReadyStatus(sbn.cache) \in SBNs
        BY <4>1, SbnTypes, Zenon
      <4> QED
        BY <3>2, <4>1, <4>2, CommitType
    <3> QED
      BY <1>1, <3>1, <3>2 DEF updateNodeReadyStatus
  <2>2. pc = "ready" /\ pc' = "cred" /\ UNCHANGED <<node, queued>>
    BY <1>1 DEF updateNodeReadyStatus, At, GoTo
  <2>3. CASE queued
    BY <1>k, <2>2, <2>3 DEF TypeInv, TypeOK
  <2>4. CASE ~queued
    BY <2>1, <2>2, <2>4 DEF WakeupInv, PassInv, RestInv, DeletionInv, Fresh
  <2> QED
    BY <2>3, <2>4
<1>2. CASE ensureCredential
  <2>1. CASE GoTo("input")
    BY <1>2, <1>k, <2>1, Zenon DEF ensureCredential, At, GoTo, WakeupInv, PassInv, RestInv,
       DeletionInv, Fresh, TypeInv, TypeOK
  <2> QED
    BY <1>2, <1>r, <2>1 DEF ensureCredential, ApiError
<1>3. CASE collectInput
  <2>1. /\ pc = "input" /\ pc' = "cm" /\ UNCHANGED <<node, queued, objects>>
        /\ cfg' = Compute(node, peers.cache, sec.cache)
    BY <1>3 DEF collectInput, At, GoTo
  <2>2. cfg'.cfg = node.spec.cfg /\ cfg'.peers = peers.cache
    BY <2>1 DEF Compute
  <2>3. CASE queued
    BY <1>k, <2>1, <2>3 DEF TypeInv, TypeOK
  <2>4. CASE ~queued
    BY <2>1, <2>2, <2>4, ZenonT(30) DEF objects, WakeupInv, PassInv, RestInv, DeletionInv
  <2> QED
    BY <2>3, <2>4
<1>4. CASE reconcileConfigMap
  <2>1. CASE GoTo("pod")
    <3>1. /\ pc = "cm" /\ pc' = "pod" /\ UNCHANGED <<node, queued, cfg, sbn, pod, peers, svc>>
      BY <1>4, <2>1, Zenon DEF reconcileConfigMap, At, GoTo, Requeue, ApiError
    <3>2. cfg \in Configs /\ Wanted(cfg, node.uid) \in ConfigMaps
      BY <3>1 DEF TypeInv, PassOK, SBNs, ConfigMaps, Wanted
    <3>3. Fresh(cm') => cm'.cache = Wanted(cfg, node.uid)
      <4>1. CASE cm' = Commit(cm, Wanted(cfg, node.uid))
        BY <3>2, <4>1, CommitType DEF TypeInv, TypeOK
      <4>2. CASE cm' = cm /\ cm.cache = Wanted(cfg, node.uid)
        BY <4>2
      <4> QED
        BY <1>4, <3>1, <4>1, <4>2, Zenon DEF reconcileConfigMap, Requeue, ApiError, Wanted
    <3>4. CASE queued
      BY <1>k, <3>1, <3>4 DEF TypeInv, TypeOK
    <3>5. CASE ~queued
      BY <3>1, <3>3, <3>5, ZenonT(30)
         DEF WakeupInv, PassInv, RestInv, DeletionInv, Fresh, Wanted
    <3> QED
      BY <3>4, <3>5
  <2> QED
    BY <1>4, <1>r, <2>1 DEF reconcileConfigMap, ApiError
<1>5. CASE reconcilePod
  <2> DEFINE want == [hash |-> cfg, owner |-> node.uid, host |-> node.spec.host,
                      del |-> FALSE]
  <2>1. CASE GoTo("svc")
    <3>1. /\ pc = "pod" /\ pc' = "svc" /\ UNCHANGED <<node, queued, cfg, sbn, cm, peers, svc>>
      BY <1>5, <2>1, Zenon DEF reconcilePod, At, GoTo, Requeue, ApiError
    <3>2. want \in Pods
      BY <3>1 DEF TypeInv, PassOK, SBNs, Specs, Pods
    <3>3. Fresh(pod') => pod'.cache # None /\ pod'.cache.hash = cfg
      <4>1. CASE pod' = Commit(pod, want)
        <5>1. pod \in Object(Pods \cup {None})
          BY Zenon DEF TypeInv, TypeOK
        <5>2. want \in Pods \cup {None}
          BY <3>2, Zenon
        <5> HIDE DEF want
        <5>3. ~Fresh(Commit(pod, want))
          BY <5>1, <5>2, CommitType, Zenon
        <5> QED
          BY <4>1, <5>3, Zenon
      <4>2. CASE pod' = pod /\ pod.cache # None /\ pod.cache.hash = cfg
        BY <4>2
      <4> QED
        BY <1>5, <3>1, <4>1, <4>2, ZenonT(30) DEF reconcilePod, Requeue, ApiError
    <3>4. CASE queued
      BY <1>k, <3>1, <3>4 DEF TypeInv, TypeOK
    <3>5. CASE ~queued
      BY <3>1, <3>3, <3>5, Zenon DEF WakeupInv, PassInv, RestInv, DeletionInv, Fresh, Wanted
    <3> QED
      BY <3>4, <3>5
  <2> QED
    BY <1>5, <1>r, <2>1, ZenonT(30) DEF reconcilePod, ApiError
<1>6. CASE reconcileServices
  <2>1. CASE svc' = FALSE /\ pc' = "status" /\ queued' = TRUE
    BY <2>1, QueuedStep
  <2>2. CASE ~svc /\ GoTo("status") /\ UNCHANGED <<svc, cfg>>
    <3>1. pc = "svc" /\ pc' = "status" /\ UNCHANGED <<node, queued, cfg, sbn, cm, pod, peers, svc>>
      BY <1>6, <2>2 DEF reconcileServices, At, GoTo
    <3>2. ~svc'
      BY <2>2, <3>1
    <3>3. PassInv => PassInv'
      BY <3>1 DEF PassInv, Fresh, Wanted
    <3>4. RestInv' /\ (DeletionInv => DeletionInv')
      BY <3>1, Zenon DEF RestInv, DeletionInv, Fresh
    <3> QED
      BY <3>1, <3>2, <3>3, <3>4, Zenon DEF WakeupInv
  <2> QED
    BY <1>6, <1>r, <2>1, <2>2, Zenon DEF reconcileServices, ApiError
<1> QED
  BY <1>1, <1>2, <1>3, <1>4, <1>5, <1>6

(* The end of a pass: when nothing had to be written, the status and the   *)
(* caches agree.                                                           *)
LEMMA StatusStep ==
  ASSUME TypeInv, WakeupInv, updateStatus
  PROVE  WakeupInv'
<1> DEFINE want == [sbn.cache EXCEPT !.st.hash = cfg, !.st.og = sbn.cache.gen]
<1>1. /\ pc = "status" /\ ~svc /\ cfg \in Configs
      /\ UNCHANGED <<cm, pod, peers, svc>>
  BY DEF updateStatus, At, WakeupInv, TypeInv, PassOK
<1>2. CASE Requeue
  BY <1>2, QueuedStep DEF Requeue
<1>3. CASE sbn.cache # None /\ sbn' = Commit(sbn, want) /\ Done
  <2>1. sbn \in Object(SBNs \cup {None}) /\ sbn.cache \in SBNs
    BY <1>3, CurrentType DEF TypeInv, TypeOK
  <2>2. want \in SBNs
    BY <1>1, <2>1, SbnTypes, Zenon
  <2>3. ~Fresh(sbn')
    BY <1>3, <2>1, <2>2, CommitType
  <2> QED
    BY <1>3, <2>3 DEF Done, WakeupInv, PassInv, RestInv, DeletionInv, Fresh
<1>4. CASE sbn.cache # None /\ want = sbn.cache /\ sbn' = sbn /\ Done
  <2>1. CASE queued
    BY <1>4, <2>1, QueuedStep DEF Done, TypeInv, TypeOK
  <2>2. CASE ~queued
    <3>1. sbn.cache \in SBNs
      BY <1>4, CurrentType DEF TypeInv, TypeOK
    <3>2. sbn.cache.st.hash = cfg /\ sbn.cache.st.og = sbn.cache.gen
      <4>1. want.st.hash = cfg /\ want.st.og = sbn.cache.gen
        BY <3>1, Zenon DEF SBNs, Status
      <4> QED
        BY <1>4, <4>1, Zenon
    <3>3. PassInv /\ DeletionInv
      BY <2>2 DEF WakeupInv
    <3>4. /\ sbn.cache.fin
          /\ cfg.cfg = sbn.cache.spec.cfg /\ cfg.peers = peers.cache
          /\ Fresh(cm) => cm.cache = Wanted(cfg, sbn.cache.uid)
          /\ Fresh(pod) => pod.cache # None /\ pod.cache.hash = cfg
      BY <1>1, <3>3 DEF PassInv
    <3>5. RestInv' /\ DeletionInv'
      BY <1>1, <1>4, <3>2, <3>3, <3>4 DEF RestInv, DeletionInv, Fresh, Wanted
    <3> QED
      BY <1>4, <3>5 DEF Done, WakeupInv, PassInv
  <2> QED
    BY <2>1, <2>2
<1> QED
  BY <1>2, <1>3, <1>4 DEF updateStatus, ApiError

(* Every step keeps what the passes and the rest states rely on.           *)
LEMMA WakeupStep == TypeInv /\ WakeupInv /\ [Next]_vars => WakeupInv'
<1> SUFFICES ASSUME TypeInv, WakeupInv, [Next]_vars PROVE WakeupInv'
  OBVIOUS
<1>t. /\ sbn \in Object(SBNs \cup {None}) /\ Current(sbn) \in SBNs \cup {None}
      /\ cm \in Object(ConfigMaps \cup {None}) /\ pod \in Object(Pods \cup {None})
      /\ peers \in Object(Peers)
  BY CurrentType DEF TypeInv, TypeOK
<1>k. \A o : Kept(o, o)
  BY DEF Kept
<1>w. pc = "status" => ~svc
  BY DEF WakeupInv
<1>1. CASE Reconcile \/ updateStatus
  BY <1>1, ReconcileStep, StatusStep
<1>2. CASE \/ updateNodeReadyStatus \/ ensureCredential \/ collectInput
           \/ reconcileConfigMap \/ reconcilePod \/ reconcileServices
  BY <1>2, PassStep
<1>3. CASE \/ SbnEvent \/ ConfigMapEvent \/ PodEvent \/ PeersEvent \/ HealthEvent \/ Resync
  <2>1. queued' = TRUE /\ UNCHANGED <<pc, svc>>
    BY <1>3 DEF SbnEvent, ConfigMapEvent, PodEvent, PeersEvent, HealthEvent, Resync,
       restOfState, objects, pass
  <2> QED
    BY <1>w, <2>1, QueuedStep
<1>4. CASE SecretEvent
  BY <1>4, <1>k, WriteStep DEF SecretEvent, restOfState, pass
<1>5. CASE EditSpec
  <2>1. PICK s \in Specs :
           sbn' = Commit(sbn, [Current(sbn) EXCEPT !.spec = s, !.gen = @ + 1])
    BY <1>5, ZenonT(30) DEF EditSpec
  <2>2. [Current(sbn) EXCEPT !.spec = s, !.gen = @ + 1] \in SBNs
    BY <1>5, <1>t, SbnTypes, Zenon DEF EditSpec
  <2>3. Kept(sbn, sbn')
    BY <1>t, <2>1, <2>2, CommitKeeps
  <2> QED
    BY <1>5, <1>k, <2>3, WriteStep DEF EditSpec, pass
<1>6. CASE DeleteNode
  <2>1. [Current(sbn) EXCEPT !.del = TRUE, !.gen = @ + 1] \in SBNs
    BY <1>6, <1>t, SbnTypes, Zenon DEF DeleteNode
  <2>2. Kept(sbn, sbn')
    BY <1>6, <1>t, <2>1, CommitKeeps DEF DeleteNode
  <2> QED
    BY <1>6, <1>k, <2>2, WriteStep DEF DeleteNode, restOfState, pass
<1>7. CASE RecreateNode
  <2>1. PICK s \in Specs : sbn' = Commit(sbn, NewNode(intended.uid + 1, s))
    BY <1>7 DEF RecreateNode
  <2>2. intended.uid + 1 \in Uids
    BY DEF TypeInv, TypeOK, Uids
  <2>3. Kept(sbn, sbn')
    BY <1>t, <2>1, <2>2, NewNodeType, CommitKeeps
  <2> QED
    BY <1>7, <1>k, <2>3, WriteStep DEF RecreateNode, pass
<1>8. CASE ChangePeers
  <2>1. peers'.cache = peers.cache
    BY <1>8, <1>t, CommitType DEF ChangePeers
  <2> QED
    BY <1>8, <1>k, <2>1, WriteStep DEF ChangePeers, restOfState, pass
<1>9. CASE ChangeHealth \/ KubeletStart \/ UNCHANGED vars
  BY <1>9, <1>k, WriteStep DEF ChangeHealth, KubeletStart, vars, objects, restOfState, pass
<1>10. CASE EvictPod
  <2>1. Kept(pod, pod')
    BY <1>10, <1>t, TerminateKeeps DEF EvictPod
  <2> QED
    BY <1>10, <1>k, <2>1, WriteStep DEF EvictPod, restOfState, pass
<1>11. CASE PodGone
  <2>1. Kept(pod, pod')
    BY <1>11, <1>t, CommitKeeps DEF PodGone
  <2> QED
    BY <1>11, <1>k, <2>1, WriteStep DEF PodGone, pass
<1>12. CASE CollectGarbage
  <2>1. Kept(cm, Commit(cm, None)) /\ Kept(pod, Terminate(pod))
    BY <1>t, CommitKeeps, TerminateKeeps, ZenonT(30)
  <2>2. Kept(cm, cm') /\ Kept(pod, pod')
    BY <1>12, <1>k, <2>1 DEF CollectGarbage
  <2> QED
    BY <1>12, <1>k, <2>2, WriteStep DEF CollectGarbage, restOfState, pass
<1>13. CASE Crash
  BY <1>13, QueuedStep DEF Crash, Requeue
<1> QED
  BY <1>1, <1>2, <1>3, <1>4, <1>5, <1>6, <1>7, <1>8, <1>9, <1>10, <1>11, <1>12, <1>13
     DEF Next, Worker, WatchEvent, Environment

(* It holds throughout.                                                    *)
LEMMA WakeupInvariant == Spec => [](TypeInv /\ WakeupInv)
<1>1. Init => WakeupInv
  <2> SUFFICES ASSUME Init PROVE WakeupInv
    OBVIOUS
  <2>1. pc = "idle" /\ sbn.watch # << >>
    BY DEF Init, Created
  <2>2. PassInv
    BY <2>1 DEF PassInv
  <2>3. RestInv /\ DeletionInv
    BY <2>1, Zenon DEF RestInv, DeletionInv, Fresh
  <2> QED
    BY <2>1, <2>2, <2>3 DEF WakeupInv
<1> QED
  BY <1>1, TypeInit, TypeStep, WakeupStep, PTL DEF Spec

(* When the controller has come to rest with a live node, ConfigMap, Pod   *)
(* and status all carry the config of the current spec and peers: no       *)
(* interleaving of late events, refused writes and restarts makes it miss  *)
(* a change.                                                               *)
THEOREM NoWakeupIsLost == Spec => []NoLostWakeup
<1>1. TypeInv /\ WakeupInv => NoLostWakeup
  <2> SUFFICES ASSUME TypeInv, WakeupInv, Settled, Live(sbn.cache)
               PROVE  /\ sbn.cache.fin
                      /\ cm.cache # None /\ pod.cache # None
                      /\ cm.cache.owner = sbn.cache.uid
                      /\ cm.cache.data.cfg = sbn.cache.spec.cfg
                      /\ cm.cache.data.peers = peers.cache
                      /\ pod.cache.hash = cm.cache.data
                      /\ sbn.cache.st.hash = cm.cache.data
                      /\ sbn.cache.st.og = sbn.cache.gen
                      /\ ~svc
    BY DEF NoLostWakeup
  <2>1. RestInv
    BY DEF WakeupInv, Settled
  <2>2. sbn.cache \in SBNs
    BY CurrentType DEF TypeInv, TypeOK, Live
  <2>3. cm.cache = Wanted(sbn.cache.st.hash, sbn.cache.uid) /\ sbn.cache.st.hash \in Configs
    BY <2>1 DEF RestInv, Settled
  <2>4. Wanted(sbn.cache.st.hash, sbn.cache.uid) \in ConfigMaps
    BY <2>2, <2>3 DEF Wanted, ConfigMaps, SBNs
  <2>5. cm.cache # None
    BY <2>3, <2>4, NoneAssumption, Zenon
  <2>6. /\ cm.cache.owner = sbn.cache.uid
        /\ cm.cache.data = sbn.cache.st.hash
    BY <2>3 DEF Wanted
  <2>7. /\ sbn.cache.fin /\ ~svc
        /\ sbn.cache.st.hash.cfg = sbn.cache.spec.cfg
        /\ sbn.cache.st.hash.peers = peers.cache
        /\ sbn.cache.st.og = sbn.cache.gen
        /\ pod.cache # None /\ pod.cache.hash = sbn.cache.st.hash
    BY <2>1, Zenon DEF RestInv, Settled
  <2> QED
    BY <2>5, <2>6, <2>7, Zenon
<1> QED
  BY <1>1, WakeupInvariant, PTL

(* A node that is being deleted is never left behind by a controller at    *)
(* rest.                                                                   *)
THEOREM NoDeletionIsStuck == Spec => []NoStuckDeletion
<1>1. WakeupInv => NoStuckDeletion
  BY DEF WakeupInv, DeletionInv, NoStuckDeletion, Settled
<1> QED
  BY <1>1, WakeupInvariant, PTL
=============================================================================
