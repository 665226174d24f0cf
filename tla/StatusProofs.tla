----------------------------- MODULE StatusProofs ---------------------------
(***************************************************************************)
(* That at rest the statuses of ExternalOutbounds, EgressPolicies and      *)
(* users say what the objects call for: proofs about ControlPlane, for any *)
(* number of objects of every kind, any edits in any order and any number  *)
(* of seconds.                                                             *)
(***************************************************************************)
EXTENDS ControlPlaneProofs, ConfigLocalityProofs

-----------------------------------------------------------------------------
(* The verdicts on ExternalOutbounds.                                      *)

baseReason(c, e) ==
  IF specViolation(c.eob[e]) # "Valid" THEN specViolation(c.eob[e])
  ELSE credentialViolation(c, e)

(* An ExternalOutbound the cache shows as it is stored, and that is not    *)
(* queued, carries the verdict the cached Secrets call for.                *)
VerdictInv ==
  \A e \in DOMAIN View.eob :
    \/ ~FreshFor("eob", e) \/ e \in queue.external
    \/ View.eob[e].accepted \in {"NameConflict", baseReason(View, e)}

LEMMA ReasonCases ==
  ASSUME NEW c, NEW e
  PROVE  acceptedReason(c, e) \in {"NameConflict", baseReason(c, e)}
BY DEF acceptedReason, baseReason, nameConflict

LEMMA ReasonLocal ==
  ASSUME NEW c, NEW d, NEW e, c.eob[e] = d.eob[e], Same(c.secret, d.secret, c.eob[e].ref)
  PROVE  baseReason(c, e) = baseReason(d, e)
BY Zenon DEF baseReason, credentialViolation, Same

LEMMA VerdictQuietly ==
  ASSUME TypeInv, VerdictInv, Quietly
  PROVE  VerdictInv'
<1>0. Histories /\ Controls
  BY TypeInvParts
<1>1. Writes
  <2>1. clock \in Nat
    BY <1>0 DEF Controls
  <2> QED BY <1>0, <2>1, QuietlyWrites DEF Controls
<1>2. /\ View' = View /\ "eob" \in Kinds /\ View.eob = obj["eob"].cache
      /\ \A x : UpToDate(obj'["eob"], x) => UpToDate(obj["eob"], x)
  BY <1>0, <1>1, WritesKeepCaches, CachedObjects DEF Kinds
<1>3. ASSUME NEW e \in DOMAIN View.eob, UpToDate(obj'["eob"], e), e \notin queue'.external
      PROVE  View.eob[e].accepted \in {"NameConflict", baseReason(View, e)}
  <2>1. FreshFor("eob", e)
    BY <1>2, <1>3 DEF FreshFor
  <2>2. CASE e \notin queue.external
    BY <2>1, <2>2 DEF VerdictInv
  <2>3. CASE e \in queue.external
    <3>1. externalPass(e)
      <4>1. queue'.external # queue.external
        BY <1>3, <2>3
      <4>2. ~UNCHANGED vars /\ ~Tick /\ ~UserEdit
        BY <4>1, Zenon DEF vars, Tick, UserEdit
      <4>3. ~Resync
        BY <1>0, <1>3, <2>3, Enqueued DEF Resync, Controllers
      <4>4. ~PolicyController /\ ~UserController /\ ~GroupController /\ ~NodeController
        BY <1>0, <4>1, ZenonT(30)
           DEF PolicyController, policyPass, policyUpdateStatus, policyTrigger,
           EndPolicyPass, UserController, userPass, userTrigger, userUpdateStatus,
           GroupController, userGroupPass, NodeController, nodePass, nodeGone, Controls,
           Controllers
      <4>5. PICK f \in queue.external : externalPass(f)
        BY <4>2, <4>3, <4>4 DEF Quietly, Controller, ExternalController
      <4>6. f = e
        BY <1>0, <1>3, <2>3, <4>5 DEF externalPass, Controls, Controllers
      <4> QED BY <4>5, <4>6
    <3>2. obj' = Update("eob", e, setAccepted(e, acceptedReason(View, e)))
      BY <1>3, <2>1, <3>1 DEF externalPass
    <3>3. View.eob[e] = setAccepted(e, acceptedReason(View, e))
      BY <1>0, <1>2, <1>3, <2>1, <3>2, UpdateShown
    <3>4. "accepted" \in DOMAIN View.eob[e]
      BY <1>0, CachedObjects DEF Objects, Kept
    <3>5. View.eob[e].accepted = acceptedReason(View, e)
      BY <3>3, <3>4, Zenon DEF setAccepted
    <3> QED BY <3>5, ReasonCases
  <2> QED BY <2>2, <2>3
<1> QED BY <1>2, <1>3 DEF VerdictInv, FreshFor

LEMMA VerdictWatch ==
  ASSUME TypeInv, VerdictInv, Watch
  PROVE  VerdictInv'
<1>0. /\ Histories /\ "external" \in Controllers
      /\ {"sbn", "eob", "policy", "user", "group", "secrets"} \subseteq Kinds
  BY TypeInvParts DEF Kinds, Controllers
<1> SUFFICES ASSUME NEW e \in DOMAIN View'.eob, UpToDate(obj'["eob"], e), e \notin queue'.external
             PROVE  View'.eob[e].accepted \in {"NameConflict", baseReason(View', e)}
  BY DEF VerdictInv, FreshFor
<1>1. ASSUME NEW k \in {"sbn", "policy", "user", "group"}, Receive(k),
             queue.external \subseteq queue'.external
      PROVE  View'.eob[e].accepted \in {"NameConflict", baseReason(View', e)}
  <2>1. View'.eob = View.eob /\ View'.secret = View.secret /\ obj'["eob"] = obj["eob"]
    BY <1>0, <1>1, ReceiveView
  <2>2. baseReason(View', e) = baseReason(View, e)
    BY <2>1, ReasonLocal DEF Same
  <2> QED BY <1>1, <2>1, <2>2 DEF VerdictInv, FreshFor
<1>2. CASE singBoxNodeEvent
  BY <1>0, <1>1, <1>2, Enqueued DEF singBoxNodeEvent
<1>3. CASE egressPolicyEvent
  BY <1>0, <1>1, <1>3, Enqueued DEF egressPolicyEvent
<1>4. CASE userEvent
  BY <1>0, <1>1, <1>4, Enqueued DEF userEvent
<1>5. CASE userGroupEvent
  BY <1>0, <1>1, <1>5, Enqueued DEF userGroupEvent
<1>6. CASE externalOutboundEvent
  <2> DEFINE all == Changed(obj.eob.cache, Head(obj.eob.watch))
  <2>1. Receive("eob") /\ all \subseteq queue'.external /\ queue.external \subseteq queue'.external
    BY <1>0, <1>6, Enqueued DEF externalOutboundEvent
  <2>2. e \notin all /\ e \notin queue.external
    BY <2>1
  <2>3. obj'["eob"].cache = Head(obj["eob"].watch) /\ View'.secret = View.secret
    BY <1>0, <2>1, ReceiveDelivers, ReceiveView
  <2>4. UpToDate(obj["eob"], e) /\ Same(obj["eob"].cache, obj'["eob"].cache, e)
    BY <1>0, <2>1, <2>2, <2>3, ReceiveDelivers
  <2>5. e \in DOMAIN View.eob /\ View'.eob[e] = View.eob[e]
    BY <2>4 DEF View, Same
  <2>6. baseReason(View', e) = baseReason(View, e)
    BY <2>3, <2>5, ReasonLocal DEF Same
  <2> QED BY <2>2, <2>4, <2>5, <2>6 DEF VerdictInv, FreshFor
<1>7. CASE secretEvent
  <2> DEFINE changed == Changed(obj.secrets.cache.secret, Head(obj.secrets.watch).secret)
             woken   == UNION {credentialsSecretMapper(View', s) : s \in changed}
  <2>1. Receive("secrets") /\ woken \subseteq queue'.external
        /\ queue.external \subseteq queue'.external
    BY <1>0, <1>7, Enqueued DEF secretEvent
  <2>2. View'.eob = View.eob /\ obj'["eob"] = obj["eob"]
    BY <1>0, <2>1, ReceiveView
  <2>3. View'.secret = Head(obj.secrets.watch).secret /\ View.secret = obj.secrets.cache.secret
    BY <1>0, <2>1, ReceiveDelivers DEF View
  <2>4. View.eob[e].ref \notin changed
    BY <2>1, <2>2 DEF credentialsSecretMapper
  <2>5. Same(View.secret, View'.secret, View.eob[e].ref)
    BY <2>3, <2>4, Zenon DEF Changed, Same
  <2>6. baseReason(View', e) = baseReason(View, e)
    BY <2>2, <2>5, ReasonLocal
  <2> QED BY <2>1, <2>2, <2>6 DEF VerdictInv, FreshFor
<1> QED BY <1>2, <1>3, <1>4, <1>5, <1>6, <1>7 DEF Watch

(* Once the controllers rest, the Accepted condition the ExternalOutbound  *)
(* reconciler wrote is the verdict on the stored object and its Secret,    *)
(* whatever events of either arrived in whatever order and however often   *)
(* the status update was refused.                                          *)
THEOREM VerdictsCurrent == Spec => []VerdictsAreCurrent
<1>1. Init => VerdictInv
  <2> SUFFICES ASSUME Init, NEW e \in DOMAIN View.eob
               PROVE  View.eob[e].accepted \in {"NameConflict", baseReason(View, e)}
    BY DEF VerdictInv
  <2>1. View.eob = Start.eob /\ View.eob = StartCluster.eob /\ View.secret = StartCluster.secret
    BY AtFirst DEF StartCluster
  <2>2. View.eob[e].accepted = acceptedReason(StartCluster, e)
    BY <2>1, StartAtRest
  <2>3. baseReason(View, e) = baseReason(StartCluster, e)
    BY <2>1, ReasonLocal DEF Same
  <2> QED BY <2>2, <2>3, ReasonCases
<1>2. TypeInv /\ VerdictInv /\ [Next]_vars => VerdictInv'
  <2> SUFFICES ASSUME TypeInv, VerdictInv, [Next]_vars PROVE VerdictInv'
    OBVIOUS
  <2>1. CASE Restart
    <3>1. View' = Now /\ queue'.external = DOMAIN Now.eob
      BY <2>1, RestartLists DEF TypeInv, Restart
    <3> QED BY <3>1 DEF VerdictInv
  <2> QED BY <2>1, VerdictQuietly, VerdictWatch DEF Next, Quietly
<1>3. TypeInv /\ VerdictInv => VerdictsAreCurrent
  <2> SUFFICES ASSUME TypeInv, VerdictInv, Quiet, NEW e \in DOMAIN Now.eob
               PROVE  \/ Now.eob[e].accepted = acceptedReason(Now, e)
                      \/ "NameConflict" \in {Now.eob[e].accepted, acceptedReason(Now, e)}
    BY DEF VerdictsAreCurrent
  <2>1. View = Now /\ FreshFor("eob", e) /\ e \notin queue.external
    BY AtRest DEF TypeInv, Kinds, Quiet, Controllers
  <2>2. Now.eob[e].accepted \in {"NameConflict", baseReason(Now, e)}
    BY <2>1 DEF VerdictInv
  <2> QED BY <2>2, ReasonCases
<1> QED BY <1>1, <1>2, <1>3, TypeInvariance, PTL DEF Spec
-----------------------------------------------------------------------------
(* The statuses of EgressPolicies.                                         *)

(* The pass in progress carries the status the caches call for.            *)
CarriesResolution(p) ==
  LET wanted == policyResolution(View, p)
  IN  /\ pass.policy.at = "status" /\ pass.policy.key = p
      /\ pass.policy.nodes = wanted.nodes /\ pass.policy.resolved = wanted.resolved
      /\ pass.policy.reason = wanted.reason

PolicyInv ==
  \A p \in DOMAIN View.policy :
    \/ ~FreshFor("policy", p) \/ p \in queue.policy
    \/ PolicyStatusHolds(View, p) \/ CarriesResolution(p)

LEMMA ResolutionLocal ==
  ASSUME NEW c, NEW d, NEW p, c.policy[p] = d.policy[p],
         Agree(c.sbn, d.sbn, {"roles", "labels"}), Agree(c.eob, d.eob, {"labels"})
  PROVE  /\ policyResolution(c, p) = policyResolution(d, p)
         /\ PolicyStatusHolds(c, p) <=> PolicyStatusHolds(d, p)
<1>1. /\ DOMAIN c.sbn = DOMAIN d.sbn /\ DOMAIN c.eob = DOMAIN d.eob
      /\ \A x \in DOMAIN d.sbn : /\ c.sbn[x].roles = d.sbn[x].roles
                                 /\ c.sbn[x].labels = d.sbn[x].labels
      /\ \A x \in DOMAIN d.eob : c.eob[x].labels = d.eob[x].labels
  BY DEF Agree
<1>2. \A o : egressPolicyMapper(c, o) = egressPolicyMapper(d, o)
  BY <1>1 DEF egressPolicyMapper, inbounds, hasRole, Matches
<1>3. \A s : egressCandidates(s, c.sbn, c.eob) = egressCandidates(s, d.sbn, d.eob)
  BY CandidatesLocal
<1>4. policyResolution(c, p) = policyResolution(d, p)
  BY <1>2, <1>3 DEF policyResolution
<1> QED BY <1>4 DEF PolicyStatusHolds

LEMMA PolicyWatch ==
  ASSUME TypeInv, PolicyInv, Watch
  PROVE  PolicyInv'
<1>0. /\ Histories /\ "policy" \in Controllers
      /\ {"sbn", "eob", "policy", "user", "group", "secrets"} \subseteq Kinds
  BY TypeInvParts DEF Kinds, Controllers
<1> SUFFICES ASSUME NEW p \in DOMAIN View'.policy, UpToDate(obj'["policy"], p),
                    p \notin queue'.policy
             PROVE  PolicyStatusHolds(View', p) \/ CarriesResolution(p)'
  BY DEF PolicyInv, FreshFor
<1>1. ASSUME pass' = pass, p \in DOMAIN View.policy, View'.policy[p] = View.policy[p],
             UpToDate(obj["policy"], p), p \notin queue.policy,
             Agree(View'.sbn, View.sbn, {"roles", "labels"}),
             Agree(View'.eob, View.eob, {"labels"})
      PROVE  PolicyStatusHolds(View', p) \/ CarriesResolution(p)'
  <2>1. /\ policyResolution(View', p) = policyResolution(View, p)
        /\ PolicyStatusHolds(View', p) <=> PolicyStatusHolds(View, p)
    BY <1>1, ResolutionLocal
  <2>2. CASE PolicyStatusHolds(View, p)
    BY <2>1, <2>2
  <2>3. CASE CarriesResolution(p)
    BY <1>1, <2>1, <2>3 DEF CarriesResolution
  <2> QED BY <1>1, <2>2, <2>3 DEF PolicyInv, FreshFor
<1>2. ASSUME NEW k \in Kinds \ {"policy"}, Receive(k), queue.policy \subseteq queue'.policy,
             Agree(View'.sbn, View.sbn, {"roles", "labels"}),
             Agree(View'.eob, View.eob, {"labels"})
      PROVE  PolicyStatusHolds(View', p) \/ CarriesResolution(p)'
  <2>1. View'.policy = View.policy /\ obj'["policy"] = obj["policy"] /\ pass' = pass
    BY <1>0, <1>2, ReceiveView, Zenon DEF Receive
  <2> QED BY <1>1, <1>2, <2>1
<1>3. ASSUME NEW k \in {"user", "group", "secrets"}, Receive(k),
             queue.policy \subseteq queue'.policy
      PROVE  PolicyStatusHolds(View', p) \/ CarriesResolution(p)'
  <2>1. View'.sbn = View.sbn /\ View'.eob = View.eob
    BY <1>0, <1>3, ReceiveView
  <2> QED BY <1>0, <1>2, <1>3, <2>1 DEF Agree
<1>4. CASE userEvent
  BY <1>0, <1>3, <1>4, Enqueued DEF userEvent
<1>5. CASE userGroupEvent
  BY <1>0, <1>3, <1>5, Enqueued DEF userGroupEvent
<1>6. CASE secretEvent
  BY <1>0, <1>3, <1>6, Enqueued DEF secretEvent
<1>7. CASE egressPolicyEvent
  <2> DEFINE all == Changed(obj.policy.cache, Head(obj.policy.watch))
  <2>1. Receive("policy") /\ all \subseteq queue'.policy /\ queue.policy \subseteq queue'.policy
    <3> DEFINE woken == UNION {UNION {egressPolicyMapper(View', o) :
                          o \in Versions(x, obj.policy.cache, Head(obj.policy.watch))} :
                          x \in {y \in all : GenerationChanged(y, obj.policy.cache,
                                                             Head(obj.policy.watch))}}
               r     == [policy |-> all, node |-> woken]
    <3>1. Receive("policy") /\ Enqueue(r)
      BY <1>7, Zenon DEF egressPolicyEvent
    <3> HIDE DEF all, woken
    <3>2. "policy" \in DOMAIN r /\ r["policy"] = all
      OBVIOUS
    <3> HIDE DEF r
    <3> QED BY <1>0, <3>1, <3>2, Enqueued
  <2>2. p \notin all /\ p \notin queue.policy
    BY <2>1
  <2>3. obj'["policy"].cache = Head(obj["policy"].watch)
        /\ View'.sbn = View.sbn /\ View'.eob = View.eob /\ pass' = pass
    BY <1>0, <2>1, ReceiveDelivers, ReceiveView, ZenonT(30) DEF Receive
  <2>4. UpToDate(obj["policy"], p) /\ Same(obj["policy"].cache, obj'["policy"].cache, p)
    BY <1>0, <2>1, <2>2, <2>3, ReceiveDelivers
  <2>5. p \in DOMAIN View.policy /\ View'.policy[p] = View.policy[p]
    BY <2>4 DEF View, Same
  <2> QED BY <1>1, <2>2, <2>3, <2>4, <2>5 DEF Agree
<1>8. CASE singBoxNodeEvent
  <2> DEFINE all == Changed(obj.sbn.cache, Head(obj.sbn.watch))
             loud == \E x \in all : \/ GenerationChanged(x, obj.sbn.cache, Head(obj.sbn.watch))
                                    \/ LabelChanged(x, obj.sbn.cache, Head(obj.sbn.watch))
  <2>1. /\ Receive("sbn") /\ queue.policy \subseteq queue'.policy
        /\ loud => DOMAIN View'.policy \subseteq queue'.policy
    <3> DEFINE spec  == {x \in all : GenerationChanged(x, obj.sbn.cache, Head(obj.sbn.watch))}
               woken == all \cup UNION {UNION {sameRegionNodeMapper(View', x, o) :
                          o \in Versions(x, obj.sbn.cache, Head(obj.sbn.watch))} : x \in spec}
               pols  == IF \E x \in all : \/ x \in spec
                                         \/ LabelChanged(x, obj.sbn.cache, Head(obj.sbn.watch))
                        THEN policyMapper(View') ELSE {}
               r     == [node |-> woken, policy |-> pols]
    <3>1. Receive("sbn") /\ Enqueue(r)
      BY <1>8, Zenon DEF singBoxNodeEvent
    <3>2. loud => pols = DOMAIN View'.policy
      BY DEF policyMapper
    <3> HIDE DEF woken, pols
    <3>3. "policy" \in DOMAIN r /\ r["policy"] = pols
      OBVIOUS
    <3> HIDE DEF r, loud
    <3> QED BY <1>0, <3>1, <3>2, <3>3, Enqueued
  <2>2. ~loud
    BY <2>1
  <2>3. Agree(obj["sbn"].cache, obj'["sbn"].cache, Editable["sbn"])
    BY <1>0, <2>1, <2>2, StatusEventKeepsSpecs DEF Agree
  <2>4. Agree(View'.sbn, View.sbn, {"roles", "labels"}) /\ View'.eob = View.eob
    <3>1. View'.eob = View.eob
      BY <1>0, <2>1, ReceiveView
    <3>2. View.sbn = obj["sbn"].cache /\ View'.sbn = obj'["sbn"].cache
      BY DEF View
    <3>3. {"roles", "labels"} \subseteq Editable["sbn"]
      BY DEF Editable
    <3> QED BY <2>3, <3>1, <3>2, <3>3 DEF Agree
  <2> QED BY <1>0, <1>2, <2>1, <2>4 DEF Agree
<1>9. CASE externalOutboundEvent
  <2> DEFINE all == Changed(obj.eob.cache, Head(obj.eob.watch))
             loud == \E x \in all : \/ GenerationChanged(x, obj.eob.cache, Head(obj.eob.watch))
                                    \/ LabelChanged(x, obj.eob.cache, Head(obj.eob.watch))
  <2>1. /\ Receive("eob") /\ queue.policy \subseteq queue'.policy
        /\ loud => DOMAIN View'.policy \subseteq queue'.policy
    <3> DEFINE spec  == {x \in all : GenerationChanged(x, obj.eob.cache, Head(obj.eob.watch))}
               woken == UNION {UNION {externalOutboundMapper(View', x, o) :
                          o \in Versions(x, obj.eob.cache, Head(obj.eob.watch))} : x \in spec}
               pols  == IF \E x \in all : \/ x \in spec
                                         \/ LabelChanged(x, obj.eob.cache, Head(obj.eob.watch))
                        THEN policyMapper(View') ELSE {}
               r     == [external |-> all, node |-> woken, policy |-> pols]
    <3>1. Receive("eob") /\ Enqueue(r)
      BY <1>9, Zenon DEF externalOutboundEvent
    <3>2. loud => pols = DOMAIN View'.policy
      BY DEF policyMapper
    <3> HIDE DEF woken, pols
    <3>3. "policy" \in DOMAIN r /\ r["policy"] = pols
      OBVIOUS
    <3> HIDE DEF r, loud
    <3> QED BY <1>0, <3>1, <3>2, <3>3, Enqueued
  <2>2. ~loud
    BY <2>1
  <2>3. Agree(obj["eob"].cache, obj'["eob"].cache, Editable["eob"])
    BY <1>0, <2>1, <2>2, StatusEventKeepsSpecs DEF Agree
  <2>4. Agree(View'.eob, View.eob, {"labels"}) /\ View'.sbn = View.sbn
    <3>1. View'.sbn = View.sbn
      BY <1>0, <2>1, ReceiveView
    <3>2. View.eob = obj["eob"].cache /\ View'.eob = obj'["eob"].cache
      BY DEF View
    <3>3. {"labels"} \subseteq Editable["eob"]
      BY DEF Editable
    <3> QED BY <2>3, <3>1, <3>2, <3>3 DEF Agree
  <2> QED BY <1>0, <1>2, <2>1, <2>4 DEF Agree
<1> QED BY <1>4, <1>5, <1>6, <1>7, <1>8, <1>9 DEF Watch

LEMMA PolicySteps ==
  ASSUME TypeInv, Quietly
  PROVE  \/ PolicyController
         \/ queue.policy \subseteq queue'.policy /\ pass'.policy = pass.policy
<1>0. /\ queue \in [Controllers -> SUBSET Nat] /\ "policy" \in Controllers
      /\ pass = [w \in {"policy", "user"} |-> pass[w]]
  BY TypeInvParts DEF Controls, Controllers
<1>1. CASE Tick \/ UserEdit \/ UNCHANGED vars
  BY <1>1, Zenon DEF Tick, UserEdit, vars
<1>2. CASE Resync
  BY <1>0, <1>2, Enqueued DEF Resync
<1>3. CASE UserController
  BY <1>0, <1>3, Zenon DEF UserController, userPass, userTrigger, userUpdateStatus
<1>4. CASE GroupController \/ ExternalController \/ NodeController
  BY <1>0, <1>4, Zenon DEF GroupController, userGroupPass, ExternalController, externalPass,
                    NodeController, nodePass, nodeGone
<1> QED BY <1>1, <1>2, <1>3, <1>4 DEF Quietly, Controller

LEMMA PolicyQuietly ==
  ASSUME TypeInv, PolicyInv, Quietly
  PROVE  PolicyInv'
<1>0. /\ Histories /\ clock \in Nat /\ \E all \in Scripts : script \subseteq all
      /\ "policy" \in Kinds
      /\ queue \in [Controllers -> SUBSET Nat] /\ "policy" \in Controllers
      /\ pass \in [{"policy", "user"} -> Passes] /\ pass.policy \in Passes
  BY TypeInvParts DEF Controls, Kinds, Controllers
<1>1. Writes
  BY <1>0, QuietlyWrites
<1>2. /\ View' = View /\ View.policy = obj["policy"].cache
      /\ \A x : UpToDate(obj'["policy"], x) => UpToDate(obj["policy"], x)
  BY <1>0, <1>1, WritesKeepCaches, CachedObjects
<1> SUFFICES ASSUME NEW p \in DOMAIN View.policy, UpToDate(obj'["policy"], p),
                    p \notin queue'.policy
             PROVE  PolicyStatusHolds(View, p) \/ CarriesResolution(p)'
  BY <1>2 DEF PolicyInv, FreshFor
<1>3. FreshFor("policy", p)
  BY <1>2 DEF FreshFor
<1>4. p \in queue.policy \/ PolicyStatusHolds(View, p) \/ CarriesResolution(p)
  BY <1>3 DEF PolicyInv
<1>5. CASE queue.policy \subseteq queue'.policy /\ pass'.policy = pass.policy
  BY <1>2, <1>4, <1>5 DEF CarriesResolution
<1>6. CASE \E q \in queue.policy : policyPass(q)
  <2>1. PICK q \in queue.policy : policyPass(q)
    BY <1>6
  <2>2. CASE q = p
    <3>1. pass'.policy = policyResolution(View, p)
      BY <1>0, <2>1, <2>2 DEF policyPass
    <3>2. policyResolution(View, p).at = "status" /\ policyResolution(View, p).key = p
      BY DEF policyResolution
    <3> QED BY <1>2, <3>1, <3>2 DEF CarriesResolution
  <2>3. CASE q # p
    <3>1. p \notin queue.policy /\ pass.policy.at # "status"
      BY <1>0, <2>1, <2>3 DEF policyPass, Idle
    <3> QED BY <1>4, <3>1 DEF CarriesResolution
  <2> QED BY <2>2, <2>3
<1>7. CASE policyUpdateStatus
  <2>1. queue.policy \subseteq queue'.policy
    BY <1>0, <1>7 DEF policyUpdateStatus, EndPolicyPass
  <2>2. CASE PolicyStatusHolds(View, p)
    BY <2>2
  <2>3. CASE CarriesResolution(p)
    <3>1. pass.policy.key = p
      BY <2>3 DEF CarriesResolution
    <3>2. obj' = IF policyReport(p) = View.policy[p] THEN obj
                 ELSE Update("policy", p, policyReport(p))
      BY <1>3, <1>7, <3>1, ZenonT(30) DEF policyUpdateStatus
    <3>3. policyReport(p) = View.policy[p]
      BY <1>0, <1>2, <1>3, <3>2, UpdateShown
    <3>4. {"resolved", "ingresses", "reason", "observed"} \subseteq DOMAIN View.policy[p]
      <4>1. Objects("policy", View.policy)
        BY <1>0, CachedObjects, Zenon
      <4> QED BY <1>0, <4>1 DEF Objects, Kept
    <3>5. /\ View.policy[p].resolved = pass.policy.resolved
          /\ View.policy[p].ingresses = pass.policy.nodes
          /\ View.policy[p].reason = pass.policy.reason
          /\ View.policy[p].observed = View.policy[p].gen
      BY <3>3, <3>4, Zenon DEF policyReport
    <3> QED BY <2>3, <3>5 DEF CarriesResolution, PolicyStatusHolds
  <2> QED BY <1>4, <2>1, <2>2, <2>3
<1>8. CASE policyTrigger
  <2>1. queue.policy \subseteq queue'.policy /\ pass.policy.at # "status"
    BY <1>0, <1>8 DEF policyTrigger, EndPolicyPass
  <2> QED BY <1>4, <2>1 DEF CarriesResolution
<1> QED BY <1>5, <1>6, <1>7, <1>8, PolicySteps DEF PolicyController

(* Once the controllers rest, every EgressPolicy's status is its           *)
(* resolution against the stored nodes and outbounds: the generation and   *)
(* label predicates of the policy controller's watches let every change    *)
(* through that can move it, and a refused status update is retried.       *)
THEOREM PolicyStatusesCurrent == Spec => []PolicyStatusesAreCurrent
<1>1. Init => PolicyInv
  <2> SUFFICES ASSUME Init, NEW p \in DOMAIN View.policy
               PROVE  PolicyStatusHolds(View, p)
    BY DEF PolicyInv
  <2>1. /\ View.policy = Start.policy /\ View.policy = StartCluster.policy
        /\ View.eob = StartCluster.eob /\ StartCluster.sbn = Start["sbn"]
        /\ View.sbn = [n \in DOMAIN Start.sbn |->
                         [Start.sbn[n] EXCEPT !.hash = Wanted(StartCluster, n)]]
    BY AtFirst DEF StartCluster
  <2>2. Agree(View.sbn, StartCluster.sbn, {"roles", "labels"})
    <3>1. Objects("sbn", Start["sbn"])
      BY StartAssumption DEF Kinds
    <3>2. \A n \in DOMAIN Start.sbn : {"roles", "labels"} \subseteq DOMAIN Start.sbn[n]
      BY <3>1 DEF Objects, Editable, Kept
    <3> QED BY <2>1, <3>2 DEF Agree
  <2>3. Agree(View.eob, StartCluster.eob, {"labels"})
    BY <2>1 DEF Agree
  <2>4. PolicyStatusHolds(StartCluster, p)
    BY <2>1, StartAtRest
  <2> QED BY <2>1, <2>2, <2>3, <2>4, ResolutionLocal, Zenon
<1>2. TypeInv /\ PolicyInv /\ [Next]_vars => PolicyInv'
  <2> SUFFICES ASSUME TypeInv, PolicyInv, [Next]_vars PROVE PolicyInv'
    OBVIOUS
  <2>1. CASE Restart
    <3>1. View' = Now /\ queue'.policy = DOMAIN Now.policy
      BY <2>1, RestartLists DEF TypeInv, Restart
    <3> QED BY <3>1 DEF PolicyInv
  <2> QED BY <2>1, PolicyQuietly, PolicyWatch DEF Next, Quietly
<1>3. TypeInv /\ PolicyInv => PolicyStatusesAreCurrent
  <2> SUFFICES ASSUME TypeInv, PolicyInv, Quiet, NEW p \in DOMAIN Now.policy
               PROVE  PolicyStatusHolds(Now, p)
    BY DEF PolicyStatusesAreCurrent
  <2>1. View = Now /\ FreshFor("policy", p) /\ p \notin queue.policy
    BY AtRest DEF TypeInv, Kinds, Quiet, Controllers
  <2>2. pass.policy.at # "status"
    BY DEF Quiet, Idle, TypeInv, TypeOK
  <2> QED BY <2>1, <2>2 DEF PolicyInv, CarriesResolution
<1> QED BY <1>1, <1>2, <1>3, TypeInvariance, PTL DEF Spec
-----------------------------------------------------------------------------
(* The statuses of Users.                                                  *)

(* Something is still to come for u: its group's pass, or it was missed.   *)
Excused(u) == <<"user", u>> \in missed \/ View.user[u].group \in queue.group

UserPassDue(u) ==
  /\ pass.user.at = "trigger" /\ pass.user.key = u
  /\ Excused(u) \/ pass.user.nodes = findMatchingInboundNodes(View, u)

UserDone(u) ==
  /\ View.user[u].observed = View.user[u].gen
  /\ Excused(u) \/ UserStatusHolds(View, u)

UserInv ==
  \A u \in DOMAIN View.user :
    ~FreshFor("user", u) \/ u \in queue.user \/ UserPassDue(u) \/ UserDone(u)

LEMMA UserLocal ==
  ASSUME NEW c, NEW d, NEW u, c.user[u] = d.user[u],
         Same(c.group, d.group, c.user[u].group), Agree(c.sbn, d.sbn, {"roles"})
  PROVE  /\ findMatchingInboundNodes(c, u) = findMatchingInboundNodes(d, u)
         /\ UserStatusHolds(c, u) <=> UserStatusHolds(d, u)
<1>1. groupList(c, u, "allowed") = groupList(d, u, "allowed")
      /\ groupList(c, u, "denied") = groupList(d, u, "denied")
  BY DEF groupList, Same
<1>2. inbounds(c) = inbounds(d)
  BY DEF inbounds, hasRole, Agree
<1>3. findMatchingInboundNodes(c, u) = findMatchingInboundNodes(d, u)
  BY <1>1, <1>2 DEF findMatchingInboundNodes
<1> QED BY <1>3 DEF UserStatusHolds, Same

LEMMA UserWatch ==
  ASSUME TypeInv, UserInv, Watch
  PROVE  UserInv'
<1>0. /\ Histories /\ {"user", "group"} \subseteq Controllers
      /\ {"sbn", "eob", "policy", "user", "group", "secrets"} \subseteq Kinds
  BY TypeInvParts DEF Kinds, Controllers
<1> SUFFICES ASSUME NEW u \in DOMAIN View'.user, UpToDate(obj'["user"], u), u \notin queue'.user
             PROVE  UserPassDue(u)' \/ UserDone(u)'
  BY DEF UserInv, FreshFor
<1>1. ASSUME pass' = pass, missed \subseteq missed', queue.group \subseteq queue'.group,
             u \notin queue.user, UpToDate(obj["user"], u),
             u \in DOMAIN View.user, View'.user[u] = View.user[u],
             \/ Excused(u)'
             \/ /\ findMatchingInboundNodes(View', u) = findMatchingInboundNodes(View, u)
                /\ UserStatusHolds(View', u) <=> UserStatusHolds(View, u)
      PROVE  UserPassDue(u)' \/ UserDone(u)'
  <2>1. Excused(u) => Excused(u)'
    BY <1>1 DEF Excused
  <2>2. CASE UserPassDue(u)
    BY <1>1, <2>1, <2>2 DEF UserPassDue
  <2>3. CASE UserDone(u)
    BY <1>1, <2>1, <2>3 DEF UserDone
  <2> QED BY <1>1, <2>2, <2>3 DEF UserInv, FreshFor
<1>2. ASSUME NEW k \in {"eob", "policy", "secrets"}, Receive(k), missed' = missed,
             queue.user \subseteq queue'.user, queue.group \subseteq queue'.group
      PROVE  UserPassDue(u)' \/ UserDone(u)'
  <2>1. /\ View'.user = View.user /\ obj'["user"] = obj["user"]
        /\ View'.sbn = View.sbn /\ View'.group = View.group /\ pass' = pass
    BY <1>0, <1>2, ReceiveView, ZenonT(30) DEF Receive
  <2>2. /\ findMatchingInboundNodes(View', u) = findMatchingInboundNodes(View, u)
        /\ UserStatusHolds(View', u) <=> UserStatusHolds(View, u)
    BY <2>1, UserLocal DEF Same, Agree
  <2> QED BY <1>1, <1>2, <2>1, <2>2
<1>3. CASE externalOutboundEvent
  BY <1>0, <1>2, <1>3, Enqueued DEF externalOutboundEvent
<1>4. CASE egressPolicyEvent
  BY <1>0, <1>2, <1>4, Enqueued DEF egressPolicyEvent
<1>5. CASE secretEvent
  BY <1>0, <1>2, <1>5, Enqueued DEF secretEvent
<1>6. CASE singBoxNodeEvent
  <2>1. /\ Receive("sbn") /\ UsersMiss
        /\ queue.user \subseteq queue'.user /\ queue.group \subseteq queue'.group
    BY <1>0, <1>6, Enqueued DEF singBoxNodeEvent
  <2>2. /\ View'.user = View.user /\ obj'["user"] = obj["user"] /\ View'.group = View.group
        /\ pass' = pass
    BY <1>0, <2>1, ReceiveView, Zenon DEF Receive
  <2>3. CASE findMatchingInboundNodes(View', u) = findMatchingInboundNodes(View, u)
    <3>1. UserStatusHolds(View', u) <=> UserStatusHolds(View, u)
      BY <2>2, <2>3 DEF UserStatusHolds
    <3>2. missed \subseteq missed'
      BY <2>1 DEF UsersMiss
    <3> QED BY <1>1, <2>1, <2>2, <2>3, <3>1, <3>2
  <2>4. CASE findMatchingInboundNodes(View', u) # findMatchingInboundNodes(View, u)
    <3>1. <<"user", u>> \in missed' /\ missed \subseteq missed'
      BY <2>1, <2>2, <2>4 DEF UsersMiss
    <3> QED BY <1>1, <2>1, <2>2, <3>1 DEF Excused
  <2> QED BY <2>3, <2>4
<1>7. CASE userEvent
  <2> DEFINE all == Changed(obj.user.cache, Head(obj.user.watch))
  <2>1. /\ Receive("user") /\ all \subseteq queue'.user /\ missed' = missed
        /\ queue.user \subseteq queue'.user /\ queue.group \subseteq queue'.group
    <3> DEFINE woken == matchingProtocolNodeMapper(View')
               r     == [user |-> all, node |-> woken]
    <3>1. Receive("user") /\ missed' = missed /\ Enqueue(r)
      BY <1>7, Zenon DEF userEvent
    <3> HIDE DEF all, woken
    <3>2. "user" \in DOMAIN r /\ r["user"] = all
      OBVIOUS
    <3> HIDE DEF r
    <3> QED BY <1>0, <3>1, <3>2, Enqueued
  <2>2. u \notin all /\ u \notin queue.user
    BY <2>1
  <2>3. obj'["user"].cache = Head(obj["user"].watch)
        /\ View'.sbn = View.sbn /\ View'.group = View.group /\ pass' = pass
    BY <1>0, <2>1, ReceiveDelivers, ReceiveView, ZenonT(30) DEF Receive
  <2>4. UpToDate(obj["user"], u) /\ Same(obj["user"].cache, obj'["user"].cache, u)
    BY <1>0, <2>1, <2>2, <2>3, ReceiveDelivers
  <2>5. u \in DOMAIN View.user /\ View'.user[u] = View.user[u]
    BY <2>4 DEF View, Same
  <2>6. /\ findMatchingInboundNodes(View', u) = findMatchingInboundNodes(View, u)
        /\ UserStatusHolds(View', u) <=> UserStatusHolds(View, u)
    BY <2>3, <2>5, UserLocal DEF Same, Agree
  <2> QED BY <1>1, <2>1, <2>2, <2>3, <2>4, <2>5, <2>6
<1>8. CASE userGroupEvent
  <2> DEFINE all == Changed(obj.group.cache, Head(obj.group.watch))
             g   == View.user[u].group
  <2>1. /\ Receive("group") /\ all \subseteq queue'.group /\ missed' = missed
        /\ queue.user \subseteq queue'.user /\ queue.group \subseteq queue'.group
    <3> DEFINE woken == UNION {usersInGroupToNodesMapper(View', x) : x \in all}
               r     == [group |-> all, node |-> woken]
    <3>1. Receive("group") /\ missed' = missed /\ Enqueue(r)
      BY <1>8, Zenon DEF userGroupEvent
    <3> HIDE DEF all, woken
    <3>2. "group" \in DOMAIN r /\ r["group"] = all
      OBVIOUS
    <3> HIDE DEF r
    <3> QED BY <1>0, <3>1, <3>2, Enqueued
  <2>2. /\ View'.user = View.user /\ obj'["user"] = obj["user"] /\ View'.sbn = View.sbn
        /\ pass' = pass
    BY <1>0, <2>1, ReceiveView, ZenonT(30) DEF Receive
  <2>3. View'.group = Head(obj.group.watch) /\ View.group = obj.group.cache
    BY <1>0, <2>1, ReceiveDelivers, Zenon DEF View
  <2>4. CASE g \in all
    BY <1>1, <2>1, <2>2, <2>4 DEF Excused
  <2>5. CASE g \notin all
    <3>1. Same(View'.group, View.group, g)
      BY <2>3, <2>5, Zenon DEF Changed, Same
    <3>2. /\ findMatchingInboundNodes(View', u) = findMatchingInboundNodes(View, u)
          /\ UserStatusHolds(View', u) <=> UserStatusHolds(View, u)
      BY <2>2, <3>1, UserLocal DEF Agree
    <3> QED BY <1>1, <2>1, <2>2, <3>2
  <2> QED BY <2>4, <2>5
<1> QED BY <1>3, <1>4, <1>5, <1>6, <1>7, <1>8 DEF Watch

LEMMA UserQuietly ==
  ASSUME TypeInv, UserInv, Quietly
  PROVE  UserInv'
<1>0. /\ Histories /\ clock \in Nat /\ \E all \in Scripts : script \subseteq all
      /\ "user" \in Kinds
      /\ queue \in [Controllers -> SUBSET Nat] /\ {"user", "group"} \subseteq Controllers
      /\ pass \in [{"policy", "user"} -> Passes] /\ pass.user \in Passes
  BY TypeInvParts DEF Controls, Kinds, Controllers
<1>1. Writes
  BY <1>0, QuietlyWrites
<1>2. /\ View' = View /\ View.user = obj["user"].cache /\ IsObject(obj["user"])
      /\ \A x : UpToDate(obj'["user"], x) => UpToDate(obj["user"], x)
  BY <1>0, <1>1, WritesKeepCaches, CachedObjects DEF Histories, History
<1> SUFFICES ASSUME NEW u \in DOMAIN View.user, UpToDate(obj'["user"], u), u \notin queue'.user
             PROVE  UserPassDue(u)' \/ UserDone(u)'
  BY <1>2 DEF UserInv, FreshFor
<1>3. FreshFor("user", u)
  BY <1>2 DEF FreshFor
<1>4. u \in queue.user \/ UserPassDue(u) \/ UserDone(u)
  BY <1>3 DEF UserInv
<1>5. ASSUME queue.user \subseteq queue'.user, Excused(u) => Excused(u)',
             /\ pass'.user.at = pass.user.at /\ pass'.user.key = pass.user.key
             /\ pass'.user.nodes = pass.user.nodes
      PROVE  UserPassDue(u)' \/ UserDone(u)'
  BY <1>2, <1>4, <1>5 DEF UserPassDue, UserDone
<1>6. ASSUME missed' \cap {<<"user", u>>} = missed \cap {<<"user", u>>},
             queue.group \subseteq queue'.group
      PROVE  Excused(u) => Excused(u)'
  BY <1>2, <1>6 DEF Excused
<1>7. CASE Tick \/ UserEdit \/ UNCHANGED vars
  BY <1>5, <1>6, <1>7, Zenon DEF Tick, UserEdit, vars
<1>8. CASE Resync
  BY <1>0, <1>5, <1>6, <1>8, Enqueued DEF Resync
<1>9. CASE ExternalController
  BY <1>0, <1>5, <1>6, <1>9 DEF ExternalController, externalPass
<1>10. CASE NodeController
  BY <1>0, <1>5, <1>6, <1>10 DEF NodeController, nodePass, nodeGone
<1>11. ASSUME NEW n, triggerNodeReconcile(n)
       PROVE  missed' \cap {<<"user", u>>} = missed \cap {<<"user", u>>}
  BY <1>11 DEF triggerNodeReconcile
<1>12. CASE PolicyController
  <2>1. /\ queue.user \subseteq queue'.user /\ queue.group \subseteq queue'.group
        /\ pass'.user = pass.user
    BY <1>0, <1>12 DEF PolicyController, policyPass, policyUpdateStatus, policyTrigger,
                       EndPolicyPass
  <2>2. missed' \cap {<<"user", u>>} = missed \cap {<<"user", u>>}
    BY <1>11, <1>12, Zenon DEF PolicyController, policyPass, policyUpdateStatus, policyTrigger
  <2> QED BY <1>5, <1>6, <2>1, <2>2
<1>13. CASE GroupController
  <2>1. PICK g \in queue.group : userGroupPass(g)
    BY <1>13 DEF GroupController
  <2>2. queue'.user = queue.user /\ pass' = pass /\ missed \subseteq missed'
        /\ queue'.group = queue.group \ {g}
    BY <1>0, <2>1 DEF userGroupPass
  <2>3. CASE View.user[u].group # g
    <3>1. Excused(u) => Excused(u)'
      BY <1>2, <2>2, <2>3 DEF Excused
    <3> QED BY <1>5, <2>2, <3>1
  <2>4. CASE View.user[u].group = g
    <3> DEFINE s == Stored("user")
               v == [m \in DOMAIN s |->
                       IF m \in Members(g) THEN [s[m] EXCEPT !.stamp = clock] ELSE s[m]]
    <3>1. u \in Members(g) /\ u \in DOMAIN s /\ s[u] = View.user[u] /\ "stamp" \in DOMAIN s[u]
      <4>1. u \in DOMAIN s /\ s[u] = View.user[u]
        BY <1>2, <1>3, UpToDateCurrent DEF FreshFor, Same, Stored
      <4>2. "stamp" \in DOMAIN View.user[u]
        <5>1. Objects("user", View.user)
          BY <1>0, CachedObjects, Zenon
        <5> QED BY <1>0, <5>1 DEF Objects, Kept
      <4> QED BY <2>4, <4>1, <4>2 DEF Members
    <3>2. v[u].stamp = clock
      BY <3>1
    <3>3. CASE v = s
      <4>1. s[u].stamp = clock
        BY <3>2, <3>3, Zenon
      <4>2. <<"user", u>> \in missed'
        BY <2>1, <3>1, <4>1 DEF userGroupPass
      <4> QED BY <1>5, <2>2, <4>2 DEF Excused
    <3>4. CASE v # s
      <4>1. obj'["user"] = Commit(obj["user"], v)
        BY <1>0, <2>1, <3>4 DEF userGroupPass, Store, Histories
      <4>2. Same(v, obj["user"].cache, u)
        BY <1>2, <4>1, UpToDateCommit
      <4>3. v[u] = View.user[u]
        BY <1>2, <4>2 DEF Same
      <4>4. s[u].stamp = clock
        BY <3>1, <3>2, <4>3
      <4>5. <<"user", u>> \in missed'
        BY <2>1, <3>1, <4>4 DEF userGroupPass
      <4> QED BY <1>5, <2>2, <4>5 DEF Excused
    <3> QED BY <3>3, <3>4
  <2> QED BY <2>3, <2>4
<1>14. CASE \E v \in queue.user : userPass(v)
  <2>1. PICK v \in queue.user : userPass(v)
    BY <1>14
  <2>2. /\ queue'.group = queue.group /\ queue'.user = queue.user \ {v} /\ pass.user = Idle
        /\ missed' = missed \ {<<"user", v>>}
        /\ pass'.user = IF v \in DOMAIN View.user
             THEN [Idle EXCEPT !.key = v, !.at = "trigger",
                               !.todo = findMatchingInboundNodes(View, v),
                               !.nodes = findMatchingInboundNodes(View, v)]
             ELSE Idle
    BY <1>0, <2>1 DEF userPass
  <2>3. CASE v = u
    <3>1. /\ pass'.user.at = "trigger" /\ pass'.user.key = u
          /\ pass'.user.nodes = findMatchingInboundNodes(View, u)
      BY <2>2, <2>3 DEF Idle
    <3> QED BY <1>2, <3>1 DEF UserPassDue
  <2>4. CASE v # u
    <3>1. Excused(u) => Excused(u)'
      BY <1>2, <2>2, <2>4 DEF Excused
    <3>2. UserDone(u)
      BY <1>4, <2>2, <2>4 DEF UserPassDue, Idle
    <3> QED BY <1>2, <3>1, <3>2 DEF UserDone
  <2> QED BY <2>3, <2>4
<1>15. CASE userTrigger
  <2>1. PICK n : triggerNodeReconcile(n) /\ pass' = [pass EXCEPT !.user.todo = @ \ {n}]
    BY <1>15, Zenon DEF userTrigger
  <2>2. pass'.user = [pass.user EXCEPT !.todo = pass.user.todo \ {n}]
    BY <1>0, <2>1
  <2>3. /\ pass'.user.at = pass.user.at /\ pass'.user.key = pass.user.key
        /\ pass'.user.nodes = pass.user.nodes /\ queue' = queue
    BY <1>0, <1>15, <2>2 DEF Passes, userTrigger
  <2> QED BY <1>5, <1>6, <1>11, <2>1, <2>3
<1>16. CASE userUpdateStatus
  <2>1. missed' = missed /\ queue'.group = queue.group /\ queue.user \subseteq queue'.user
    BY <1>0, <1>16 DEF userUpdateStatus
  <2>2. Excused(u) <=> Excused(u)'
    BY <1>2, <2>1 DEF Excused
  <2>3. CASE UserDone(u)
    BY <1>2, <2>2, <2>3 DEF UserDone
  <2>4. CASE UserPassDue(u)
    <3>1. pass.user.key = u
      BY <2>4 DEF UserPassDue
    <3>2. obj' = Update("user", u, userReport(u))
      BY <1>3, <1>16, <3>1 DEF userUpdateStatus
    <3>3. View.user[u] = userReport(u)
      BY <1>0, <1>2, <1>3, <3>2, UpdateShown
    <3>4. {"active", "observed", "groupReady", "gen", "group"} \subseteq DOMAIN View.user[u]
      <4>1. Objects("user", View.user)
        BY <1>0, CachedObjects, Zenon
      <4> QED BY <1>0, <4>1 DEF Objects, Kept, Editable
    <3>5. /\ View.user[u].active = pass.user.nodes
          /\ View.user[u].observed = View.user[u].gen
          /\ View.user[u].group # NoName =>
               View.user[u].groupReady =
                 (IF View.user[u].group \in DOMAIN View.group THEN "true" ELSE "false")
      BY <3>3, <3>4, Zenon DEF userReport
    <3>6. Excused(u) \/ UserStatusHolds(View, u)
      BY <2>4, <3>5 DEF UserPassDue, UserStatusHolds
    <3> QED BY <1>2, <2>2, <3>5, <3>6 DEF UserDone
  <2> QED BY <1>4, <2>1, <2>3, <2>4
<1> QED BY <1>7, <1>8, <1>9, <1>10, <1>12, <1>13, <1>14, <1>15, <1>16
        DEF Quietly, Controller, UserController

(* Once the controllers rest, every User's status is about its current     *)
(* spec and tells what its group, kept, changed or deleted, lets it use:   *)
(* the UserGroup reconciler's patches reach every member, and the User     *)
(* reconciler's refused status updates are retried.  Excepted are the      *)
(* Users a second patch within one second or an inbound node's coming or   *)
(* going has passed by.                                                    *)
THEOREM UserStatusesCurrent == Spec => []UserStatusesFollowGroups
<1>1. Init => UserInv
  <2> SUFFICES ASSUME Init, NEW u \in DOMAIN View.user
               PROVE  View.user[u].observed = View.user[u].gen /\ UserStatusHolds(View, u)
    BY DEF UserInv, UserDone
  <2>1. /\ View.user = Start.user /\ View.user = StartCluster.user
        /\ View.group = StartCluster.group /\ StartCluster.sbn = Start["sbn"]
        /\ View.sbn = [n \in DOMAIN Start.sbn |->
                         [Start.sbn[n] EXCEPT !.hash = Wanted(StartCluster, n)]]
    BY AtFirst DEF StartCluster
  <2>2. Agree(View.sbn, StartCluster.sbn, {"roles"})
    <3>1. Objects("sbn", Start["sbn"])
      BY StartAssumption DEF Kinds
    <3>2. \A n \in DOMAIN Start.sbn : "roles" \in DOMAIN Start.sbn[n]
      BY <3>1 DEF Objects, Editable, Kept
    <3> QED BY <2>1, <3>2 DEF Agree
  <2>3. UserStatusHolds(StartCluster, u) /\ View.user[u].observed = View.user[u].gen
    BY <2>1, StartAtRest
  <2> QED BY <2>1, <2>2, <2>3, UserLocal, Zenon DEF Same
<1>2. TypeInv /\ UserInv /\ [Next]_vars => UserInv'
  <2> SUFFICES ASSUME TypeInv, UserInv, [Next]_vars PROVE UserInv'
    OBVIOUS
  <2>1. CASE Restart
    <3>1. View' = Now /\ queue'.user = DOMAIN Now.user
      BY <2>1, RestartLists DEF TypeInv, Restart
    <3> QED BY <3>1 DEF UserInv
  <2> QED BY <2>1, UserQuietly, UserWatch DEF Next, Quietly
<1>3. TypeInv /\ UserInv => UserStatusesFollowGroups
  <2> SUFFICES ASSUME TypeInv, UserInv, Quiet, NEW u \in DOMAIN Now.user
               PROVE  /\ Now.user[u].observed = Now.user[u].gen
                      /\ <<"user", u>> \notin missed => UserStatusHolds(Now, u)
    BY Zenon DEF UserStatusesFollowGroups
  <2>1. View = Now /\ FreshFor("user", u) /\ queue.user = {} /\ queue.group = {}
    BY AtRest DEF TypeInv, Kinds, Quiet, Controllers
  <2>2. pass.user.at # "trigger"
    BY Zenon DEF Quiet, Idle, TypeInv, TypeOK
  <2> QED BY <2>1, <2>2 DEF UserInv, UserPassDue, UserDone, Excused
<1> QED BY <1>1, <1>2, <1>3, TypeInvariance, PTL DEF Spec
=============================================================================
