---------------------------- MODULE EngineProofs ----------------------------
(***************************************************************************)
(* What the config engine guarantees of every node's config, for every     *)
(* cluster - no bound on the number of nodes, ExternalOutbounds, users,    *)
(* policies or edits: admitted specs, references between the parts of a    *)
(* config, rules and outbounds, gates, statistics, accepted externals.     *)
(***************************************************************************)
EXTENDS Configs, WellFoundedInduction, TLAPS

-----------------------------------------------------------------------------
(* Type correctness.                                                       *)

(* One field of an object changes at a time, to a value of its type.       *)
LEMMA EditedNode ==
  ASSUME NEW node \in SingBoxNodes, NEW f \in DOMAIN NodeFields, NEW v \in NodeFields[f]
  PROVE  [node EXCEPT ![f] = v] \in SingBoxNodes
BY FieldsAssumption DEF SingBoxNodes

LEMMA EditedExternal ==
  ASSUME NEW eob \in ExternalOutbounds, NEW f \in DOMAIN ExternalFields,
         NEW v \in ExternalFields[f]
  PROVE  [eob EXCEPT ![f] = v] \in ExternalOutbounds
BY FieldsAssumption DEF ExternalOutbounds

LEMMA EditedPolicy ==
  ASSUME NEW policy \in EgressPolicies, NEW f \in DOMAIN PolicyFields, NEW v \in PolicyFields[f]
  PROVE  [policy EXCEPT ![f] = v] \in EgressPolicies
BY FieldsAssumption DEF EgressPolicies

LEMMA ResolvedPolicy ==
  ASSUME NEW policy \in EgressPolicies, NEW t \in Nat
  PROVE  [policy EXCEPT !.resolved = t] \in EgressPolicies
BY DEF EgressPolicies

LEMMA ReportedNode ==
  ASSUME NEW node \in SingBoxNodes, NEW r \in {"true", "false"}
  PROVE  [node EXCEPT !.ready = r, !.entry = node.protocols] \in SingBoxNodes
<1>1. node.protocols \in SUBSET STRING
  BY DEF SingBoxNodes
<1>2. [node EXCEPT !.ready = r] \in SingBoxNodes
  BY DEF SingBoxNodes
<1>3. \A s \in SingBoxNodes, P \in SUBSET STRING : [s EXCEPT !.entry = P] \in SingBoxNodes
  BY DEF SingBoxNodes
<1> QED BY <1>1, <1>2, <1>3, Zenon

(* Storing one kind leaves the others and the set of kinds as they are.    *)
LEMMA StoreKeepsKinds ==
  ASSUME NEW kind \in Kinds, NEW objects, TypeOK, Store(kind, objects)
  PROVE  /\ edits' \in 0 .. MaxEdits
         /\ cluster' = [k \in Kinds |-> cluster'[k]]
         /\ cluster'[kind] = objects
         /\ \A k \in Kinds \ {kind} : cluster'[k] = cluster[k]
<1>1. edits' \in 0 .. MaxEdits
  BY FieldsAssumption DEF TypeOK, Store
<1>2. cluster = [k \in Kinds |-> cluster[k]]
  BY DEF TypeOK, WellFormed
<1>3. cluster' = [k \in Kinds |-> IF k = kind THEN objects ELSE cluster[k]]
  BY <1>2, Zenon DEF Store
<1> QED BY <1>1, <1>3

(* The one target of an egress selector is the name of an object.          *)
LEMMA UniqueTarget ==
  ASSUME NEW candidates
  PROVE  uniqueTarget(candidates) = NoName \/ \E x \in candidates : uniqueTarget(candidates) = x[2]
<1>1. CASE \E x \in candidates : candidates = {x}
  <2>1. (CHOOSE x \in candidates : candidates = {x}) \in candidates
    BY <1>1
  <2> QED BY <1>1, <2>1 DEF uniqueTarget
<1>2. CASE ~ \E x \in candidates : candidates = {x}
  BY <1>2 DEF uniqueTarget
<1> QED BY <1>1, <1>2

LEMMA Candidates ==
  ASSUME NEW selector, NEW nodes, NEW outbounds, NEW x \in egressCandidates(selector, nodes, outbounds)
  PROVE  \/ x[2] \in DOMAIN nodes /\ hasRole(nodes[x[2]], "outbound")
         \/ x[2] \in DOMAIN outbounds
BY DEF egressCandidates

(* Adding or dropping an object keeps the others.                          *)
LEMMA WithKeeps ==
  ASSUME NEW f, NEW S, NEW x \in Names, NEW v \in S, Objects(f, S)
  PROVE  Objects(With(f, x, v), S)
BY DEF Objects, With

LEMMA WithoutKeeps ==
  ASSUME NEW f, NEW S, NEW x, Objects(f, S)
  PROVE  Objects(Without(f, x), S)
BY DEF Objects, Without

(* The invariant: well-formed objects, and only admitted ExternalOutbounds.*)
Admitted == \A e \in DOMAIN cluster.eob : validateExternalOutbound(cluster.eob[e])
Inv      == TypeOK /\ Admitted

(* A change of one kind keeps the invariant if the objects it stores are   *)
(* well-formed and, for ExternalOutbounds, admitted.                       *)
LEMMA StoreKeepsInv ==
  ASSUME NEW kind \in Kinds, NEW objects, Inv, Store(kind, objects),
         kind = "sbn"   => Objects(objects, SingBoxNodes),
         kind = "eob"   => /\ Objects(objects, ExternalOutbounds)
                           /\ \A e \in DOMAIN objects : validateExternalOutbound(objects[e]),
         kind = "policy" => Objects(objects, EgressPolicies),
         kind = "relay" => Objects(objects, Nat \ {NoCred})
  PROVE  Inv'
<1>1. /\ edits' \in 0 .. MaxEdits
      /\ cluster' = [k \in Kinds |-> cluster'[k]]
      /\ cluster'[kind] = objects
      /\ \A k \in Kinds \ {kind} : cluster'[k] = cluster[k]
  BY StoreKeepsKinds DEF Inv
<1>2. /\ Objects(cluster.sbn, SingBoxNodes)
      /\ Objects(cluster.eob, ExternalOutbounds)
      /\ Objects(cluster.policy, EgressPolicies)
      /\ Objects(cluster.relay, Nat \ {NoCred})
  BY DEF Inv, TypeOK, WellFormed
<1>3. Objects(cluster'.sbn, SingBoxNodes)
  <2>1. CASE kind = "sbn"
    BY <1>1, <2>1
  <2>2. CASE kind # "sbn"
    <3>1. cluster'.sbn = cluster.sbn
      BY <1>1, <2>2 DEF Kinds
    <3> QED BY <1>2, <3>1
  <2> QED BY <2>1, <2>2
<1>4. Objects(cluster'.eob, ExternalOutbounds) /\ Admitted'
  <2>1. CASE kind = "eob"
    BY <1>1, <2>1 DEF Admitted
  <2>2. CASE kind # "eob"
    <3>1. cluster'.eob = cluster.eob
      BY <1>1, <2>2 DEF Kinds
    <3> QED BY <1>2, <3>1 DEF Inv, Admitted
  <2> QED BY <2>1, <2>2
<1>5. Objects(cluster'.relay, Nat \ {NoCred})
  <2>1. CASE kind = "relay"
    BY <1>1, <2>1
  <2>2. CASE kind # "relay"
    <3>1. cluster'.relay = cluster.relay
      BY <1>1, <2>2 DEF Kinds
    <3> QED BY <1>2, <3>1
  <2> QED BY <2>1, <2>2
<1>6. Objects(cluster'.policy, EgressPolicies)
  <2>1. CASE kind = "policy"
    BY <1>1, <2>1
  <2>2. CASE kind # "policy"
    <3>1. cluster'.policy = cluster.policy
      BY <1>1, <2>2 DEF Kinds
    <3> QED BY <1>2, <3>1
  <2> QED BY <2>1, <2>2
<1> QED BY <1>1, <1>3, <1>4, <1>5, <1>6 DEF Inv, TypeOK, WellFormed

(* Storing an ExternalOutbound the webhook admitted.                       *)
LEMMA PutExternal ==
  ASSUME NEW e \in Names, NEW eob \in ExternalOutbounds, Inv,
         validateExternalOutbound(eob), Put("eob", e, eob)
  PROVE  Inv'
<1>1. Objects(With(cluster.eob, e, eob), ExternalOutbounds)
  BY WithKeeps DEF Inv, TypeOK, WellFormed
<1>2. \A x \in DOMAIN With(cluster.eob, e, eob) :
        validateExternalOutbound(With(cluster.eob, e, eob)[x])
  BY DEF With, Inv, Admitted
<1> QED BY <1>1, <1>2, StoreKeepsInv DEF Put, Kinds

LEMMA PutNode ==
  ASSUME NEW n \in Names, NEW node \in SingBoxNodes, Inv, Put("sbn", n, node)
  PROVE  Inv'
<1>1. Objects(With(cluster.sbn, n, node), SingBoxNodes)
  BY WithKeeps DEF Inv, TypeOK, WellFormed
<1> QED BY <1>1, StoreKeepsInv DEF Put, Kinds

LEMMA PutPolicy ==
  ASSUME NEW p \in Names, NEW policy \in EgressPolicies, Inv, Put("policy", p, policy)
  PROVE  Inv'
<1>1. Objects(With(cluster.policy, p, policy), EgressPolicies)
  BY WithKeeps DEF Inv, TypeOK, WellFormed
<1> QED BY <1>1, StoreKeepsInv DEF Put, Kinds

(* Deletions only shrink.                                                  *)
LEMMA DropKeepsInv ==
  ASSUME NEW kind \in Kinds, NEW x, Inv, Drop(kind, x)
  PROVE  Inv'
<1>1. /\ Objects(Without(cluster.sbn, x), SingBoxNodes)
      /\ Objects(Without(cluster.eob, x), ExternalOutbounds)
      /\ Objects(Without(cluster.policy, x), EgressPolicies)
      /\ Objects(Without(cluster.relay, x), Nat \ {NoCred})
  BY WithoutKeeps DEF Inv, TypeOK, WellFormed
<1>2. \A e \in DOMAIN Without(cluster.eob, x) :
        validateExternalOutbound(Without(cluster.eob, x)[e])
  BY DEF Without, Inv, Admitted
<1> QED BY <1>1, <1>2, StoreKeepsInv DEF Drop
-----------------------------------------------------------------------------
LEMMA InvInit == Init => Inv
BY StartAssumption, FieldsAssumption DEF Init, Inv, TypeOK, Admitted

LEMMA InvNext == Inv /\ [Next]_vars => Inv'
<1> SUFFICES ASSUME Inv, [Next]_vars PROVE Inv'
  OBVIOUS
<1>1. /\ Objects(cluster.sbn, SingBoxNodes)
      /\ Objects(cluster.eob, ExternalOutbounds)
      /\ Objects(cluster.policy, EgressPolicies)
      /\ Objects(cluster.relay, Nat \ {NoCred})
  BY DEF Inv, TypeOK, WellFormed
<1>2. CASE EditNode
  <2>1. PICK n \in DOMAIN cluster.sbn, f \in DOMAIN NodeFields :
          \E v \in NodeFields[f] : Put("sbn", n, [cluster.sbn[n] EXCEPT ![f] = v])
    BY <1>2 DEF EditNode
  <2>2. PICK v \in NodeFields[f] : Put("sbn", n, [cluster.sbn[n] EXCEPT ![f] = v])
    BY <2>1
  <2>3. n \in Names /\ cluster.sbn[n] \in SingBoxNodes
    BY <1>1 DEF Objects
  <2>4. [cluster.sbn[n] EXCEPT ![f] = v] \in SingBoxNodes
    BY <2>3, EditedNode
  <2> QED BY <2>2, <2>3, <2>4, PutNode
<1>3. CASE EditExternal
  <2>1. PICK e \in DOMAIN cluster.eob, f \in DOMAIN ExternalFields :
          \E v \in ExternalFields[f] :
            /\ validateExternalOutbound([cluster.eob[e] EXCEPT ![f] = v])
            /\ Put("eob", e, [cluster.eob[e] EXCEPT ![f] = v])
    BY <1>3 DEF EditExternal
  <2>2. PICK v \in ExternalFields[f] :
            /\ validateExternalOutbound([cluster.eob[e] EXCEPT ![f] = v])
            /\ Put("eob", e, [cluster.eob[e] EXCEPT ![f] = v])
    BY <2>1
  <2>3. e \in Names /\ cluster.eob[e] \in ExternalOutbounds
    BY <1>1 DEF Objects
  <2>4. [cluster.eob[e] EXCEPT ![f] = v] \in ExternalOutbounds
    BY <2>3, EditedExternal
  <2> QED BY <2>2, <2>3, <2>4, PutExternal
<1>4. CASE CreateExternal
  <2>1. PICK e \in DOMAIN NewExternals :
          validateExternalOutbound(NewExternals[e]) /\ Put("eob", e, NewExternals[e])
    BY <1>4 DEF CreateExternal
  <2>2. e \in Names /\ NewExternals[e] \in ExternalOutbounds
    BY FieldsAssumption DEF Objects
  <2> QED BY <2>1, <2>2, PutExternal
<1>5. CASE EditPolicy \/ policyStatus
  <2>1. CASE EditPolicy
    <3>1. PICK p \in DOMAIN cluster.policy, f \in DOMAIN PolicyFields :
            \E v \in PolicyFields[f] : Put("policy", p, [cluster.policy[p] EXCEPT ![f] = v])
      BY <2>1 DEF EditPolicy
    <3>2. PICK v \in PolicyFields[f] : Put("policy", p, [cluster.policy[p] EXCEPT ![f] = v])
      BY <3>1
    <3>3. p \in Names /\ cluster.policy[p] \in EgressPolicies
      BY <1>1 DEF Objects
    <3> QED BY <3>2, <3>3, EditedPolicy, PutPolicy
  <2>2. CASE policyStatus
    <3> DEFINE found(p) == egressCandidates(cluster.policy[p].egress, cluster.sbn, cluster.eob)
    <3>1. PICK p \in DOMAIN cluster.policy :
            Put("policy", p, [cluster.policy[p] EXCEPT !.resolved = uniqueTarget(found(p))])
      BY <2>2 DEF policyStatus
    <3>2. p \in Names /\ cluster.policy[p] \in EgressPolicies
      BY <1>1 DEF Objects
    <3>3. \A x \in found(p) : x[2] \in Nat
      BY <1>1, Candidates DEF Objects, Names
    <3>4. uniqueTarget(found(p)) \in Nat
      BY <3>3, UniqueTarget DEF NoName
    <3>5. [cluster.policy[p] EXCEPT !.resolved = uniqueTarget(found(p))] \in EgressPolicies
      BY <3>2, <3>4, ResolvedPolicy
    <3> QED BY <3>1, <3>2, <3>5, PutPolicy
  <2> QED BY <1>5, <2>1, <2>2
<1>6. CASE EditGroup \/ EditSecret
  <2>1. CASE EditGroup
    <3>1. PICK g, group : Put("group", g, group)
      BY <2>1 DEF EditGroup
    <3> QED BY <3>1, StoreKeepsInv DEF Put, Kinds
  <2>2. CASE EditSecret
    <3>1. PICK g, secret : Put("secret", g, secret)
      BY <2>2 DEF EditSecret
    <3> QED BY <3>1, StoreKeepsInv DEF Put, Kinds
  <2> QED BY <1>6, <2>1, <2>2
<1>7. CASE Delete
  <2>1. PICK kind \in {"sbn", "eob", "policy", "user", "group", "secret", "auth"} :
          \E x \in DOMAIN cluster[kind] : Drop(kind, x)
    BY <1>7 DEF Delete
  <2>2. PICK x : Drop(kind, x)
    BY <2>1
  <2>3. kind \in Kinds
    BY DEF Kinds
  <2> QED BY <2>2, <2>3, DropKeepsInv
<1>8. CASE nodeStatus
  <2>1. PICK n \in DOMAIN cluster.sbn, r \in {"true", "false"} :
          Put("sbn", n, [cluster.sbn[n] EXCEPT !.ready = r, !.entry = cluster.sbn[n].protocols])
    BY <1>8, Zenon DEF nodeStatus
  <2>2. n \in Names /\ cluster.sbn[n] \in SingBoxNodes
    BY <1>1 DEF Objects
  <2>3. [cluster.sbn[n] EXCEPT !.ready = r, !.entry = cluster.sbn[n].protocols] \in SingBoxNodes
    BY <2>2, ReportedNode, Zenon
  <2> QED BY <2>1, <2>2, <2>3, PutNode
<1>9. CASE EnsureNodeCredential
  <2>1. PICK n \in DOMAIN cluster.sbn : Put("relay", n, n)
    BY <1>9 DEF EnsureNodeCredential
  <2>2. n \in Names /\ n \in Nat \ {NoCred}
    BY <1>1 DEF Objects, Names, NoName, NoCred
  <2>3. Objects(With(cluster.relay, n, n), Nat \ {NoCred})
    BY <1>1, <2>2, WithKeeps
  <2> QED BY <2>1, <2>3, StoreKeepsInv DEF Put, Kinds
<1>10. CASE UNCHANGED vars
  BY <1>10 DEF vars, Inv, TypeOK, Admitted
<1> QED BY <1>2, <1>3, <1>4, <1>5, <1>6, <1>7, <1>8, <1>9, <1>10 DEF Next

(* What the theorems below rest on: the types,                             *)
(* and that every stored ExternalOutbound passed its webhook.              *)
THEOREM Invariance == Spec => []Inv
BY InvInit, InvNext, PTL DEF Spec

(* Every stored object keeps its shape under every edit, status and Secret *)
(* write.                                                                  *)
THEOREM TypeCorrect == Spec => []TypeOK
<1>1. Inv => TypeOK
  BY DEF Inv
<1> QED BY <1>1, Invariance, PTL

(* The controller's specViolation finds nothing in what the webhook's      *)
(* validateExternalOutbound lets in, for every protocol and option.        *)
THEOREM AdmittedAreValid == Spec => []AdmittedSpecsAreValid
<1>1. ASSUME NEW eob, validateExternalOutbound(eob)
      PROVE  specViolation(eob) = "Valid"
  BY <1>1 DEF validateExternalOutbound, specViolation
<1>2. Inv => AdmittedSpecsAreValid
  BY <1>1 DEF Inv, Admitted, AdmittedSpecsAreValid
<1> QED BY <1>2, Invariance, PTL
-----------------------------------------------------------------------------
(* The parts of collectInput.                                              *)
LEMMA CollectedNodes ==
  ASSUME NEW c, NEW n
  PROVE  LET input  == collectInput(c, n)
             byName == outboundPeers(c, n)
                         \cup {t \in policyTargets(c, n) : findOutboundNode(c, t)}
         IN  /\ input.Name = n
             /\ input.Node = c.sbn[n]
             /\ input.OutboundNodes = outboundPeers(c, n)
             /\ input.OutboundNodesByName = [m \in byName |-> c.sbn[m]]
BY DEF collectInput

LEMMA CollectedExternals ==
  ASSUME NEW c, NEW n
  PROVE  LET input == collectInput(c, n)
             extBy == discoveredExternals(c, n)
                        \cup {t \in policyTargets(c, n) : ~findOutboundNode(c, t)}
         IN  /\ input.ExternalOutbounds = discoveredExternals(c, n)
             /\ input.ExternalOutboundsByName = [e \in extBy |-> c.eob[e]]
             /\ input.ExternalCreds = [e \in extBy |-> GetExternalCredentials(c, e)]
BY DEF collectInput

LEMMA CollectedPolicies ==
  ASSUME NEW c, NEW n
  PROVE  collectInput(c, n).EgressPolicies = [p \in activePolicies(c, n) |-> c.policy[p]]
BY DEF collectInput

(* A policy is active only on an inbound node.                             *)
LEMMA ActiveOnInbound ==
  ASSUME NEW c, NEW n, NEW p \in activePolicies(c, n)
  PROVE  p \in DOMAIN c.policy /\ hasRole(c.sbn[n], "inbound")
BY DEF activePolicies
-----------------------------------------------------------------------------
(* The tags of an inbound node's outbounds.                                *)
LEMMA OutboundTags ==
  ASSUME NEW input, hasRole(input.Node, "inbound")
  PROVE  DOMAIN buildOutbounds(input) =
           relayPeers(input) \cup resolveExternalOutbounds(input)
             \cup policyOutboundNames(input) \cup directSelf(input)
BY DEF buildOutbounds

(* A target the engine finds available for a policy has an outbound entry: *)
(* policyEgressAvailable, which the rules ask, and buildPolicyOutbounds,   *)
(* which makes the entries, agree.                                         *)
LEMMA AvailableIsBuilt ==
  ASSUME NEW input, NEW t \in routedNames(input),
         t # NoName, policyEgressAvailable(input, t)
  PROVE  t \in policyOutboundNames(input)
<1>1. CASE t \in DOMAIN input.OutboundNodesByName
  <2>1. input.OutboundNodesByName[t].relayPort > 0
    BY <1>1 DEF policyEgressAvailable
  <2>2. input.OutboundNodesByName[t].relayPort # 0
    BY <2>1
  <2> QED BY <1>1, <2>2 DEF policyOutboundNames
<1>2. CASE t \notin DOMAIN input.OutboundNodesByName
  BY <1>2 DEF policyEgressAvailable, policyOutboundNames
<1> QED BY <1>1, <1>2

(* A policy rule with an outbound has the policy's target, and it is       *)
(* available.                                                              *)
LEMMA PolicyRuleTarget ==
  ASSUME NEW input, NEW p, NEW j \in DOMAIN policyRules(input, p),
         policyRules(input, p)[j].to = "outbound"
  PROVE  LET t == policyEgress(input, input.EgressPolicies[p])
         IN  /\ input.EgressPolicies[p].action # "reject"
             /\ t # NoName /\ policyEgressAvailable(input, t)
             /\ policyRules(input, p)[j].outbound = t
BY DEF policyRules

(* Targets users may ask for by name have an outbound, the node itself     *)
(* only if its own list has it.                                            *)
LEMMA NamedTargets ==
  ASSUME NEW input, hasRole(input.Node, "inbound"), NEW t \in outboundNames(input)
  PROVE  \/ t \in DOMAIN buildOutbounds(input)
         \/ /\ t = input.Name /\ isSelfOutbound(input)
            /\ ~Permits(input.Node.allowedOutbounds, t)
<1>1. CASE t \in relayPeers(input) \cup resolveExternalOutbounds(input)
  BY <1>1, OutboundTags, Zenon
<1>2. CASE t \in routedNames(input) /\ t # NoName /\ policyEgressAvailable(input, t)
  BY <1>2, AvailableIsBuilt, OutboundTags, Zenon
<1>3. CASE t \in selfName(input)
  <2>1. t = input.Name /\ isSelfOutbound(input)
    BY <1>3 DEF selfName
  <2>2. CASE Permits(input.Node.allowedOutbounds, t)
    <3>1. t \in directSelf(input)
      BY <1>3, <2>2 DEF directSelf
    <3> QED BY <3>1, OutboundTags, Zenon
  <2>3. CASE ~Permits(input.Node.allowedOutbounds, t)
    BY <2>1, <2>3
  <2> QED BY <2>2, <2>3
<1> QED BY <1>1, <1>2, <1>3 DEF outboundNames
-----------------------------------------------------------------------------
(* The parts of a config.                                                  *)
LEMMA ComputedParts ==
  ASSUME NEW input
  PROVE  /\ Compute(input).inbounds = buildInbounds(input)
         /\ Compute(input).relay = buildRelayInbound(input)
         /\ Compute(input).outbounds = buildOutbounds(input)
         /\ Compute(input).policyRules = buildPolicyRules(input)
         /\ Compute(input).stats = buildExperimentalConfig(input)
BY DEF Compute

LEMMA ComputedUserRules ==
  ASSUME NEW input, NEW rule \in Compute(input).userRules
  PROVE  /\ hasRole(input.Node, "inbound")
         /\ rule.outbound \in outboundNames(input)
<1>1. hasRole(input.Node, "inbound") /\ rule \in buildRouteRules(input)
  BY DEF Compute
<1> QED BY <1>1 DEF buildRouteRules

LEMMA ComputedFinal ==
  ASSUME NEW input, Compute(input).final # Direct
  PROVE  /\ Compute(input).final = routeFinal(input)
         /\ \A p \in DOMAIN input.EgressPolicies : policyRules(input, p) = << >>
<1>1. \A p \in DOMAIN buildPolicyRules(input) : buildPolicyRules(input)[p] = << >>
  BY DEF Compute
<1>2. Compute(input).final = routeFinal(input)
  BY DEF Compute
<1> QED BY <1>1, <1>2, Zenon DEF buildPolicyRules

(* A set of names has a least one.                                         *)
LEMMA LeastName ==
  ASSUME NEW S \in SUBSET Nat, S # {}
  PROVE  (CHOOSE x \in S : \A y \in S : x <= y) \in S
<1> DEFINE Less == {ss \in Nat \X Nat : ss[1] < ss[2]}
<1>1. IsWellFoundedOn(Less, Nat)
  BY NatLessThanWellFounded DEF OpToRel
<1>2. PICK x \in S : \A y \in S : ~(<<y, x>> \in Less)
  BY <1>1, WFMin, Zenon
<1>3. ASSUME NEW y \in S PROVE x <= y
  <2>1. <<y, x>> \in Nat \X Nat
    OBVIOUS
  <2>2. ~(y < x)
    BY <1>2, <2>1
  <2> QED BY <2>2
<1> QED BY <1>3, Zenon

(* route.final is asked for only when no policy has a rule, so when no     *)
(* policy has an outbound entry either.                                    *)
LEMMA BuiltHasRule ==
  ASSUME NEW input, NEW t \in policyOutboundNames(input),
         \A m \in DOMAIN input.OutboundNodesByName :
           /\ hasRole(input.OutboundNodesByName[m], "outbound")
           /\ input.OutboundNodesByName[m].relayPort \in Nat
  PROVE  \E p \in DOMAIN input.EgressPolicies : policyRules(input, p) # << >>
<1>1. t \in routedNames(input) /\ t # NoName
  BY DEF policyOutboundNames
<1>2. PICK p \in DOMAIN input.EgressPolicies :
        /\ input.EgressPolicies[p].action = "route"
        /\ t = policyEgress(input, input.EgressPolicies[p])
  BY <1>1 DEF routedNames
<1>3. policyEgressAvailable(input, t)
  <2>1. CASE t \in DOMAIN input.OutboundNodesByName
    <3>1. input.OutboundNodesByName[t].relayPort # 0
      BY <2>1 DEF policyOutboundNames
    <3>2. input.OutboundNodesByName[t].relayPort > 0
      BY <2>1, <3>1
    <3> QED BY <2>1, <3>2 DEF policyEgressAvailable
  <2>2. CASE t \notin DOMAIN input.OutboundNodesByName
    BY <2>2 DEF policyEgressAvailable, policyOutboundNames
  <2> QED BY <2>1, <2>2
<1> QED BY <1>1, <1>2, <1>3 DEF policyRules

LEMMA FinalHasOutbound ==
  ASSUME NEW input, Compute(input).final # Direct,
         input.OutboundNodes \subseteq Nat, input.ExternalOutbounds \subseteq Nat,
         \A m \in DOMAIN input.OutboundNodesByName :
           /\ hasRole(input.OutboundNodesByName[m], "outbound")
           /\ input.OutboundNodesByName[m].relayPort \in Nat
  PROVE  Compute(input).final \in DOMAIN buildOutbounds(input)
<1>1. Compute(input).final = routeFinal(input) /\ policyOutboundNames(input) = {}
  BY ComputedFinal, BuiltHasRule
<1>2. relayPeers(input) \subseteq Nat /\ resolveExternalOutbounds(input) \subseteq Nat
  BY DEF relayPeers, resolveExternalOutbounds
<1>3. DOMAIN buildOutbounds(input) # {}
  BY <1>1, Zenon DEF routeFinal
<1>4. hasRole(input.Node, "inbound")
  <2>1. SUFFICES ASSUME ~hasRole(input.Node, "inbound") PROVE FALSE
    OBVIOUS
  <2>2. buildOutbounds(input) = << >>
    BY <2>1 DEF buildOutbounds
  <2> QED BY <1>3, <2>2
<1>5. CASE relayPeers(input) # {}
  <2>1. routeFinal(input) \in relayPeers(input)
    BY <1>2, <1>3, <1>5, LeastName DEF routeFinal
  <2> QED BY <1>1, <1>4, <2>1, OutboundTags, Zenon
<1>6. CASE relayPeers(input) = {} /\ resolveExternalOutbounds(input) # {}
  <2>1. routeFinal(input) \in resolveExternalOutbounds(input)
    BY <1>2, <1>3, <1>6, LeastName DEF routeFinal
  <2> QED BY <1>1, <1>4, <2>1, OutboundTags, Zenon
<1>7. CASE relayPeers(input) = {} /\ resolveExternalOutbounds(input) = {}
  <2>1. routeFinal(input) = input.Name
    BY <1>3, <1>7 DEF routeFinal
  <2>2. PICK t \in directSelf(input) : TRUE
    BY <1>1, <1>3, <1>4, <1>7, OutboundTags
  <2>3. t = input.Name
    BY DEF directSelf, selfName
  <2> QED BY <1>1, <1>4, <2>1, <2>2, <2>3, OutboundTags, Zenon
<1> QED BY <1>5, <1>6, <1>7
-----------------------------------------------------------------------------
(* Facts about the input of a node of a well-formed cluster.               *)

(* What a policy of the node resolves to, the node may use.                *)
LEMMA PolicyTarget ==
  ASSUME NEW c, NEW n, NEW t \in policyTargets(c, n)
  PROVE  t # NoName /\ egressConnectedToInbound(c, n, t)
BY DEF policyTargets, activePolicies

LEMMA InputNodes ==
  ASSUME NEW n \in DOMAIN cluster.sbn, TypeOK,
         NEW m \in DOMAIN NodeInput(n).OutboundNodesByName
  PROVE  /\ m \in DOMAIN cluster.sbn
         /\ NodeInput(n).OutboundNodesByName[m] = cluster.sbn[m]
         /\ hasRole(cluster.sbn[m], "outbound")
         /\ cluster.sbn[m].relayPort \in Nat
         /\ m # n => Connects(cluster.sbn[n], n, cluster.sbn[m], m)
<1> DEFINE peers   == outboundPeers(cluster, n)
           targets == {t \in policyTargets(cluster, n) : findOutboundNode(cluster, t)}
<1>1. NodeInput(n).OutboundNodesByName = [x \in peers \cup targets |-> cluster.sbn[x]]
  BY CollectedNodes DEF NodeInput
<1>2. m \in peers \cup targets
  BY <1>1
<1>3. /\ m \in DOMAIN cluster.sbn /\ hasRole(cluster.sbn[m], "outbound")
      /\ m # n => Connects(cluster.sbn[n], n, cluster.sbn[m], m)
  <2>1. CASE m \in peers
    BY <2>1 DEF outboundPeers
  <2>2. CASE m \in targets
    BY <2>2, PolicyTarget, Zenon DEF findOutboundNode, egressConnectedToInbound
  <2> QED BY <1>2, <2>1, <2>2
<1>4. cluster.sbn[m] \in SingBoxNodes
  BY <1>3 DEF TypeOK, WellFormed, Objects
<1>5. cluster.sbn[m].relayPort \in Nat
  BY <1>4 DEF SingBoxNodes
<1> QED BY <1>1, <1>2, <1>3, <1>5

LEMMA InputExternals ==
  ASSUME NEW n \in DOMAIN cluster.sbn,
         NEW e \in DOMAIN NodeInput(n).ExternalOutboundsByName
  PROVE  /\ e \in DOMAIN cluster.eob
         /\ NodeInput(n).ExternalOutboundsByName[e] = cluster.eob[e]
         /\ NodeInput(n).ExternalCreds[e] = GetExternalCredentials(cluster, e)
         /\ cluster.eob[e].region # ""
         /\ Connects(cluster.sbn[n], n, cluster.eob[e], e)
<1> DEFINE exts    == discoveredExternals(cluster, n)
           targets == {t \in policyTargets(cluster, n) : ~findOutboundNode(cluster, t)}
<1>1. /\ NodeInput(n).ExternalOutboundsByName = [x \in exts \cup targets |-> cluster.eob[x]]
      /\ NodeInput(n).ExternalCreds =
           [x \in exts \cup targets |-> GetExternalCredentials(cluster, x)]
  BY CollectedExternals DEF NodeInput
<1>2. e \in exts \cup targets
  BY <1>1
<1>3. /\ e \in DOMAIN cluster.eob
      /\ cluster.eob[e].region # ""
      /\ Connects(cluster.sbn[n], n, cluster.eob[e], e)
  <2>1. CASE e \in exts
    BY <2>1, Zenon DEF discoveredExternals
  <2>2. CASE e \in targets
    BY <2>2, PolicyTarget, Zenon DEF egressConnectedToInbound
  <2> QED BY <1>2, <2>1, <2>2, Zenon
<1> QED BY <1>1, <1>2, <1>3, Zenon

LEMMA InputParts ==
  ASSUME NEW n \in DOMAIN cluster.sbn, TypeOK
  PROVE  /\ NodeInput(n).Name = n
         /\ NodeInput(n).Node = cluster.sbn[n]
         /\ NodeInput(n).OutboundNodes = outboundPeers(cluster, n)
         /\ NodeInput(n).OutboundNodes \subseteq Nat
         /\ NodeInput(n).ExternalOutbounds = discoveredExternals(cluster, n)
         /\ NodeInput(n).ExternalOutbounds \subseteq Nat
         /\ NodeInput(n).EgressPolicies = [p \in activePolicies(cluster, n) |-> cluster.policy[p]]
<1>1. DOMAIN cluster.sbn \subseteq Nat /\ DOMAIN cluster.eob \subseteq Nat
  BY DEF TypeOK, WellFormed, Objects, Names
<1>2. outboundPeers(cluster, n) \subseteq Nat /\ discoveredExternals(cluster, n) \subseteq Nat
  BY <1>1, ZenonT(30) DEF outboundPeers, discoveredExternals
<1>3. /\ NodeInput(n).Name = n
      /\ NodeInput(n).Node = cluster.sbn[n]
      /\ NodeInput(n).OutboundNodes = outboundPeers(cluster, n)
  BY DEF NodeInput, collectInput
<1>4. NodeInput(n).ExternalOutbounds = discoveredExternals(cluster, n)
  BY CollectedExternals, Zenon DEF NodeInput
<1>5. NodeInput(n).EgressPolicies = [p \in activePolicies(cluster, n) |-> cluster.policy[p]]
  BY CollectedPolicies, Zenon DEF NodeInput
<1> QED BY <1>2, <1>3, <1>4, <1>5, Zenon

(* A policy of the node's input routes or rejects, on an inbound node.     *)
LEMMA InputPolicies ==
  ASSUME NEW n \in DOMAIN cluster.sbn, TypeOK,
         NEW p \in DOMAIN NodeInput(n).EgressPolicies
  PROVE  /\ hasRole(cluster.sbn[n], "inbound")
         /\ NodeInput(n).EgressPolicies[p].action \in {"route", "reject"}
<1>1. p \in activePolicies(cluster, n) /\ NodeInput(n).EgressPolicies[p] = cluster.policy[p]
  <2>1. NodeInput(n).EgressPolicies = [q \in activePolicies(cluster, n) |-> cluster.policy[q]]
    BY CollectedPolicies DEF NodeInput
  <2> QED BY <2>1
<1>2. p \in DOMAIN cluster.policy /\ hasRole(cluster.sbn[n], "inbound")
  BY <1>1, ActiveOnInbound
<1>3. cluster.policy[p] \in EgressPolicies
  BY <1>2 DEF TypeOK, WellFormed, Objects
<1> QED BY <1>1, <1>2, <1>3 DEF EgressPolicies
-----------------------------------------------------------------------------
(* No route rule and no route.final of any node's config names an outbound *)
(* the config does not have, but for the node itself left out of its own   *)
(* list.                                                                   *)
THEOREM RulesHaveTheirOutbounds == Spec => []RulesHaveOutbounds
<1>1. ASSUME TypeOK, NEW n \in DOMAIN cluster.sbn
      PROVE  RuleTargets(NodeConfig(n)) \subseteq
               DOMAIN NodeConfig(n).outbounds \cup (IF SelfGated(n) THEN {n} ELSE {})
  <2>1. NodeConfig(n).outbounds = buildOutbounds(NodeInput(n))
    BY ComputedParts DEF NodeConfig
  <2>2. ASSUME NEW rule \in NodeConfig(n).userRules
        PROVE  rule.outbound \in DOMAIN NodeConfig(n).outbounds
                                   \cup (IF SelfGated(n) THEN {n} ELSE {})
    <3>1. /\ hasRole(NodeInput(n).Node, "inbound")
          /\ rule.outbound \in outboundNames(NodeInput(n))
      BY <2>2, ComputedUserRules DEF NodeConfig
    <3>2. \/ rule.outbound \in DOMAIN buildOutbounds(NodeInput(n))
          \/ /\ rule.outbound = n /\ isSelfOutbound(NodeInput(n))
             /\ ~Permits(cluster.sbn[n].allowedOutbounds, n)
      <4>1. NodeInput(n).Name = n /\ NodeInput(n).Node = cluster.sbn[n]
        BY <1>1, InputParts, Zenon
      <4>2. \/ rule.outbound \in DOMAIN buildOutbounds(NodeInput(n))
            \/ /\ rule.outbound = NodeInput(n).Name /\ isSelfOutbound(NodeInput(n))
               /\ ~Permits(NodeInput(n).Node.allowedOutbounds, rule.outbound)
        BY <3>1, NamedTargets
      <4> QED BY <4>1, <4>2
    <3> QED BY <2>1, <3>2 DEF SelfGated
  <2>3. ASSUME NEW p \in DOMAIN NodeConfig(n).policyRules,
               NEW j \in DOMAIN NodeConfig(n).policyRules[p],
               NodeConfig(n).policyRules[p][j].to = "outbound"
        PROVE  NodeConfig(n).policyRules[p][j].outbound \in DOMAIN NodeConfig(n).outbounds
    <3>1. /\ p \in DOMAIN NodeInput(n).EgressPolicies
          /\ NodeConfig(n).policyRules[p] = policyRules(NodeInput(n), p)
      BY <2>3, ComputedParts, ZenonT(30) DEF NodeConfig, buildPolicyRules
    <3> DEFINE t == policyEgress(NodeInput(n), NodeInput(n).EgressPolicies[p])
    <3>2. /\ NodeInput(n).EgressPolicies[p].action # "reject"
          /\ t # NoName /\ policyEgressAvailable(NodeInput(n), t)
          /\ NodeConfig(n).policyRules[p][j].outbound = t
      BY <2>3, <3>1, PolicyRuleTarget
    <3>3. /\ hasRole(cluster.sbn[n], "inbound")
          /\ NodeInput(n).EgressPolicies[p].action = "route"
      BY <1>1, <3>1, <3>2, InputPolicies
    <3>4. t \in routedNames(NodeInput(n))
      BY <3>1, <3>3 DEF routedNames
    <3>5. t \in policyOutboundNames(NodeInput(n))
      BY <3>2, <3>4, AvailableIsBuilt
    <3>6. hasRole(NodeInput(n).Node, "inbound")
      BY <1>1, <3>3, InputParts, Zenon
    <3> QED BY <2>1, <3>2, <3>5, <3>6, OutboundTags, Zenon
  <2> QED BY <2>2, <2>3 DEF RuleTargets
<1>2. ASSUME TypeOK, NEW n \in DOMAIN cluster.sbn, NodeConfig(n).final # Direct
      PROVE  NodeConfig(n).final \in DOMAIN NodeConfig(n).outbounds
  <2>1. \A m \in DOMAIN NodeInput(n).OutboundNodesByName :
          /\ hasRole(NodeInput(n).OutboundNodesByName[m], "outbound")
          /\ NodeInput(n).OutboundNodesByName[m].relayPort \in Nat
    BY <1>2, InputNodes
  <2>2. NodeConfig(n).final \in DOMAIN buildOutbounds(NodeInput(n))
    BY <1>2, <2>1, InputParts, FinalHasOutbound, Zenon DEF NodeConfig
  <2> QED BY <2>2, ComputedParts DEF NodeConfig
<1>3. TypeOK => RulesHaveOutbounds
  BY <1>1, <1>2 DEF RulesHaveOutbounds
<1> QED BY <1>3, TypeCorrect, PTL
-----------------------------------------------------------------------------
(* Discovered ExternalOutbounds with their keys are rendered.              *)
LEMMA DiscoveredWithKeys ==
  ASSUME TypeOK, NEW n \in DOMAIN cluster.sbn, NEW e \in DOMAIN cluster.eob \ DOMAIN cluster.sbn,
         cluster.eob[e].region # "", Connects(cluster.sbn[n], n, cluster.eob[e], e),
         hasRequiredExternalCreds(cluster.eob[e], GetExternalCredentials(cluster, e))
  PROVE  e \in resolveExternalOutbounds(NodeInput(n))
<1>1. e \in NodeInput(n).ExternalOutbounds
  <2>1. e \in discoveredExternals(cluster, n)
    BY ZenonT(30) DEF discoveredExternals
  <2> QED BY <2>1, InputParts, Zenon
<1>2. /\ NodeInput(n).ExternalOutboundsByName[e] = cluster.eob[e]
      /\ NodeInput(n).ExternalCreds[e] = GetExternalCredentials(cluster, e)
  <2>1. e \in discoveredExternals(cluster, n)
    BY Zenon DEF discoveredExternals
  <2> QED BY <2>1, Zenon DEF NodeInput, collectInput
<1>3. ~externalNameCollidesWithNode(NodeInput(n), e)
  <2>1. NodeInput(n).Name = n /\ NodeInput(n).OutboundNodes = outboundPeers(cluster, n)
    BY InputParts, Zenon
  <2>2. e \notin DOMAIN NodeInput(n).OutboundNodesByName
    BY InputNodes, Zenon
  <2>3. e \notin outboundPeers(cluster, n)
    BY Zenon DEF outboundPeers
  <2> QED BY <2>1, <2>2, <2>3, Zenon DEF externalNameCollidesWithNode
<1> QED BY <1>1, <1>2, <1>3, Zenon DEF resolveExternalOutbounds

(* Policies reach no outbound the allow lists and the region keep from the *)
(* node, not even through a stale status: the engine looks its targets up  *)
(* in what collectInput let through.                                       *)
THEOREM GatesHold == Spec => []OutboundsRespectGates
<1>1. ASSUME TypeOK, NEW n \in DOMAIN cluster.sbn,
             NEW t \in DOMAIN NodeConfig(n).outbounds \ {n}
      PROVE  \/ t \in DOMAIN cluster.sbn /\ Connects(cluster.sbn[n], n, cluster.sbn[t], t)
             \/ t \in DOMAIN cluster.eob /\ Connects(cluster.sbn[n], n, cluster.eob[t], t)
  <2>1. t \in DOMAIN buildOutbounds(NodeInput(n))
    BY <1>1, ComputedParts DEF NodeConfig
  <2>2. hasRole(NodeInput(n).Node, "inbound")
    <3>1. ~hasRole(NodeInput(n).Node, "inbound") => buildOutbounds(NodeInput(n)) = << >>
      BY DEF buildOutbounds
    <3> QED BY <2>1, <3>1
  <2>3. t \in relayPeers(NodeInput(n)) \cup resolveExternalOutbounds(NodeInput(n))
              \cup policyOutboundNames(NodeInput(n)) \cup directSelf(NodeInput(n))
    BY <2>1, <2>2, OutboundTags, Zenon
  <2>4. CASE t \in relayPeers(NodeInput(n))
    <3>1. t \in outboundPeers(cluster, n)
      BY <1>1, <2>4, InputParts, Zenon DEF relayPeers
    <3> QED BY <3>1 DEF outboundPeers
  <2>5. CASE t \in resolveExternalOutbounds(NodeInput(n))
    <3>1. t \in discoveredExternals(cluster, n)
      BY <1>1, <2>5, InputParts, Zenon DEF resolveExternalOutbounds
    <3> QED BY <3>1, Zenon DEF discoveredExternals
  <2>6. CASE t \in policyOutboundNames(NodeInput(n))
    <3>1. \/ t \in DOMAIN NodeInput(n).OutboundNodesByName
          \/ t \in DOMAIN NodeInput(n).ExternalOutboundsByName
      BY <2>6 DEF policyOutboundNames
    <3> QED BY <1>1, <3>1, InputNodes, InputExternals, Zenon
  <2>7. CASE t \in directSelf(NodeInput(n))
    <3>1. t = NodeInput(n).Name
      BY <2>7 DEF directSelf, selfName
    <3> QED BY <1>1, <3>1, InputParts, Zenon
  <2> QED BY <2>3, <2>4, <2>5, <2>6, <2>7
<1>2. TypeOK => OutboundsRespectGates
  BY <1>1 DEF OutboundsRespectGates
<1> QED BY <1>2, TypeCorrect, PTL
-----------------------------------------------------------------------------
(* A user let in by target name is one of authUsers for a named target.    *)
LEMMA RoutedUser ==
  ASSUME NEW input, NEW x \in buildInbounds(input), Len(x.name) = 2
  PROVE  /\ hasRole(input.Node, "inbound")
         /\ \E t \in outboundNames(input), u \in input.Users : x.name = <<u, t>>
<1>1. hasRole(input.Node, "inbound")
  BY DEF buildInbounds
<1>2. x \in buildRouteInbounds(input) \/ x \in buildUserInbounds(input)
  BY DEF buildInbounds
<1>3. x \notin buildUserInbounds(input)
  BY DEF buildUserInbounds, inboundUser
<1>4. PICK v \in UNION {authUsers(input, t) : t \in outboundNames(input)} :
        x.name = virtualUserName(v[1], v[2])
  BY <1>2, <1>3 DEF buildRouteInbounds, inboundUser
<1>5. PICK t \in outboundNames(input) : v \in authUsers(input, t)
  BY <1>4
<1>6. PICK u \in input.Users : v = <<u, t>>
  BY <1>5 DEF authUsers, virtualUserName
<1> QED BY <1>1, <1>4, <1>6 DEF virtualUserName

(* The statistics list every virtual user of every target but the ones an  *)
(* ExternalOutbound shares its name with a SingBoxNode for.                *)
THEOREM UsersAreCounted == Spec => []RoutedUsersAreCounted
<1>1. ASSUME TypeOK, NEW n \in DOMAIN cluster.sbn, hasRole(cluster.sbn[n], "inbound"),
             NEW t \in outboundNames(NodeInput(n)), t \notin DOMAIN cluster.eob \cap DOMAIN cluster.sbn
      PROVE  t \in relayPeers(NodeInput(n)) \cup selfName(NodeInput(n))
                    \cup resolveExternalOutbounds(NodeInput(n))
  <2>1. SUFFICES ASSUME t \in routedNames(NodeInput(n)), policyEgressAvailable(NodeInput(n), t)
                 PROVE  t \in relayPeers(NodeInput(n)) \cup selfName(NodeInput(n))
                              \cup resolveExternalOutbounds(NodeInput(n))
    BY <1>1 DEF outboundNames
  <2>2. /\ NodeInput(n).Name = n /\ NodeInput(n).Node = cluster.sbn[n]
        /\ NodeInput(n).OutboundNodes = outboundPeers(cluster, n)
    BY <1>1, InputParts, Zenon
  <2>3. CASE t \in DOMAIN NodeInput(n).OutboundNodesByName
    <3>1. /\ t \in DOMAIN cluster.sbn /\ hasRole(cluster.sbn[t], "outbound")
          /\ NodeInput(n).OutboundNodesByName[t] = cluster.sbn[t]
          /\ t # n => Connects(cluster.sbn[n], n, cluster.sbn[t], t)
      BY <1>1, <2>3, InputNodes
    <3>2. CASE t = n
      BY <1>1, <2>2, <3>1, <3>2 DEF selfName, isSelfOutbound
    <3>3. CASE t # n
      <4>1. t \in outboundPeers(cluster, n)
        BY <3>1, <3>3 DEF outboundPeers
      <4>2. NodeInput(n).OutboundNodesByName[t].relayPort # 0
        BY <2>1, <2>3 DEF policyEgressAvailable
      <4> QED BY <2>2, <4>1, <4>2 DEF relayPeers
    <3> QED BY <3>2, <3>3
  <2>4. CASE t \notin DOMAIN NodeInput(n).OutboundNodesByName
    <3>1. /\ t \in DOMAIN NodeInput(n).ExternalOutboundsByName
          /\ hasRequiredExternalCreds(NodeInput(n).ExternalOutboundsByName[t],
                                      NodeInput(n).ExternalCreds[t])
      BY <2>1, <2>4 DEF policyEgressAvailable
    <3>2. /\ t \in DOMAIN cluster.eob \ DOMAIN cluster.sbn
          /\ cluster.eob[t].region # "" /\ Connects(cluster.sbn[n], n, cluster.eob[t], t)
          /\ hasRequiredExternalCreds(cluster.eob[t], GetExternalCredentials(cluster, t))
      BY <1>1, <3>1, InputExternals, Zenon
    <3> QED BY <1>1, <3>2, DiscoveredWithKeys, Zenon
  <2> QED BY <2>3, <2>4
<1>2. ASSUME TypeOK, NEW n \in DOMAIN cluster.sbn, NEW x \in NodeConfig(n).inbounds,
             Len(x.name) = 2, x.name[2] \notin DOMAIN cluster.eob \cap DOMAIN cluster.sbn
      PROVE  x.name \in NodeConfig(n).stats
  <2>1. /\ x \in buildInbounds(NodeInput(n))
        /\ NodeConfig(n).stats = buildExperimentalConfig(NodeInput(n))
    BY <1>2, ComputedParts DEF NodeConfig
  <2>2. /\ hasRole(NodeInput(n).Node, "inbound")
        /\ \E t \in outboundNames(NodeInput(n)), u \in NodeInput(n).Users : x.name = <<u, t>>
    BY <1>2, <2>1, RoutedUser
  <2>3. PICK t \in outboundNames(NodeInput(n)), u \in NodeInput(n).Users : x.name = <<u, t>>
    BY <2>2
  <2>4. hasRole(cluster.sbn[n], "inbound")
    BY <1>2, <2>2, InputParts, Zenon
  <2>5. t \notin DOMAIN cluster.eob \cap DOMAIN cluster.sbn
    BY <1>2, <2>3
  <2>6. t \in relayPeers(NodeInput(n)) \cup selfName(NodeInput(n))
               \cup resolveExternalOutbounds(NodeInput(n))
    BY <1>1, <1>2, <2>4, <2>5
  <2> QED BY <2>1, <2>3, <2>6 DEF buildExperimentalConfig, virtualUserName
<1>3. TypeOK => RoutedUsersAreCounted
  BY <1>2 DEF RoutedUsersAreCounted
<1> QED BY <1>3, TypeCorrect, PTL
-----------------------------------------------------------------------------
(* The controller's table of required keys against the engine's.           *)
LEMMA AcceptedHasKeys ==
  ASSUME TypeOK, NEW e \in DOMAIN cluster.eob, acceptedReason(cluster, e) = "Valid"
  PROVE  /\ e \notin DOMAIN cluster.sbn
         /\ hasRequiredExternalCreds(cluster.eob[e], GetExternalCredentials(cluster, e))
<1>1. /\ specViolation(cluster.eob[e]) = "Valid"
      /\ nameConflict(cluster, e) = "Valid"
      /\ credentialViolation(cluster, e) = "Valid"
  BY DEF acceptedReason
<1>2. e \notin DOMAIN cluster.sbn
  BY <1>1 DEF nameConflict
<1>3. cluster.eob[e].protocol \in ExternalProtocols
  <2>1. cluster.eob[e] \in ExternalOutbounds
    BY DEF TypeOK, WellFormed, Objects
  <2> QED BY <2>1 DEF ExternalOutbounds
<1>4. CASE cluster.eob[e].protocol \in OptionalAuth
  BY <1>2, <1>4 DEF OptionalAuth, hasRequiredExternalCreds
<1>5. CASE cluster.eob[e].protocol \notin OptionalAuth
  <2>1. cluster.eob[e].ref # NoName
    BY <1>1, <1>5 DEF specViolation
  <2>2. /\ cluster.eob[e].ref \in DOMAIN cluster.secret
        /\ requiredCredentialKeys(cluster.eob[e]) \subseteq cluster.secret[cluster.eob[e].ref].keys
    BY <1>1, <1>5, <2>1 DEF credentialViolation
  <2>3. requiredCredentialKeys(cluster.eob[e]) \subseteq GetExternalCredentials(cluster, e)
    BY <2>2 DEF GetExternalCredentials
  <2>4. ASSUME NEW eob, eob.protocol \in ExternalProtocols \ OptionalAuth, NEW keys,
               requiredCredentialKeys(eob) \subseteq keys
        PROVE  hasRequiredExternalCreds(eob, keys)
    BY <2>4
       DEF requiredCredentialKeys, hasRequiredExternalCreds, ExternalProtocols, OptionalAuth
  <2> QED BY <1>2, <1>3, <1>5, <2>3, <2>4
<1> QED BY <1>4, <1>5

(* Accepted=True promises the outbound to every inbound node connected to  *)
(* the ExternalOutbound: the controller checks at least what the engine    *)
(* and collectInput ask.                                                   *)
THEOREM AcceptedAreRendered == Spec => []AcceptedIsRendered
<1>1. ASSUME TypeOK, NEW e \in DOMAIN cluster.eob, NEW n \in DOMAIN cluster.sbn,
             acceptedReason(cluster, e) = "Valid", hasRole(cluster.sbn[n], "inbound"),
             cluster.eob[e].region # "", Connects(cluster.sbn[n], n, cluster.eob[e], e)
      PROVE  e \in DOMAIN NodeConfig(n).outbounds
  <2>1. e \in resolveExternalOutbounds(NodeInput(n))
    BY <1>1, AcceptedHasKeys, DiscoveredWithKeys, Zenon
  <2>2. hasRole(NodeInput(n).Node, "inbound")
    BY <1>1, InputParts, Zenon
  <2>3. NodeConfig(n).outbounds = buildOutbounds(NodeInput(n))
    BY ComputedParts DEF NodeConfig
  <2> QED BY <2>1, <2>2, <2>3, OutboundTags, Zenon
<1>2. TypeOK => AcceptedIsRendered
  BY <1>1, Zenon DEF AcceptedIsRendered
<1> QED BY <1>2, TypeCorrect, PTL
-----------------------------------------------------------------------------
(* The user of a target that is not a policy's alone is let in, with the   *)
(* derived credential, and has a rule.                                     *)
LEMMA NamedUserIsServed ==
  ASSUME NEW input, NEW u \in input.Users, hasRole(input.Node, "inbound"),
         findProtocolPort(input.Node),
         NEW t \in relayPeers(input) \cup selfName(input) \cup resolveExternalOutbounds(input),
         mayUse(input, u, t)
  PROVE  /\ [name |-> <<u, t>>,
             auth |-> DeriveAuth(EffectiveInboundProtocol(input.Node), input.UserCreds[u], t)]
               \in Compute(input).inbounds
         /\ \E rule \in Compute(input).userRules : <<u, t>> \in rule.users /\ rule.outbound = t
<1>1. t \in outboundNames(input)
  BY DEF outboundNames
<1>2. hasOutboundPeers(input)
  BY DEF hasOutboundPeers, relayPeers, selfName
<1>3. <<u, t>> \in authUsers(input, t)
  BY DEF authUsers, virtualUserName
<1> DEFINE entry == [name |-> <<u, t>>,
                     auth |-> DeriveAuth(EffectiveInboundProtocol(input.Node),
                                         input.UserCreds[u], t)]
<1>4. entry \in buildRouteInbounds(input)
  <2>1. <<u, t>> \in UNION {authUsers(input, x) : x \in outboundNames(input)}
    BY <1>1, <1>3
  <2>2. entry = inboundUser(input, <<u, t>>[1],
                            virtualUserName(<<u, t>>[1], <<u, t>>[2]), <<u, t>>[2])
    BY DEF inboundUser, virtualUserName
  <2> QED BY <2>1, <2>2 DEF buildRouteInbounds
<1>5. entry \in buildInbounds(input)
  BY <1>2, <1>4 DEF buildInbounds
<1>6. [users |-> authUsers(input, t), outbound |-> t] \in buildRouteRules(input)
  BY <1>1, <1>3 DEF buildRouteRules
<1>7. Compute(input).userRules = buildRouteRules(input)
  BY <1>2, Zenon DEF Compute
<1>8. entry \in Compute(input).inbounds
  BY <1>5, ComputedParts
<1> QED BY <1>3, <1>6, <1>7, <1>8

LEMMA InputUsers ==
  ASSUME NEW i \in DOMAIN cluster.sbn, hasRole(cluster.sbn[i], "inbound"),
         NEW u \in DOMAIN cluster.user
  PROVE  /\ u \in NodeInput(i).Users
         /\ NodeInput(i).UserCreds[u] = GetUserCredential(cluster, u)
         /\ NodeInput(i).UserNodeAllowlist[u] = groupList(cluster, u, "allowed")
         /\ NodeInput(i).UserNodeRestrictions[u] = groupList(cluster, u, "denied")
<1>1. inboundUsers(cluster, i) = DOMAIN cluster.user
  BY DEF inboundUsers
<1> QED BY <1>1, Zenon DEF NodeInput, collectInput

LEMMA InputCreds ==
  ASSUME NEW i \in DOMAIN cluster.sbn,
         NEW m \in DOMAIN NodeInput(i).OutboundNodesByName \cup
                     (IF hasRole(cluster.sbn[i], "outbound") THEN {i} ELSE {})
  PROVE  NodeInput(i).NodeCreds[m] = GetNodeCredential(cluster, m)
BY ZenonT(30) DEF NodeInput, collectInput

(* The relay inbound of a node listens where and as its peers dial it.     *)
LEMMA RelayMeets ==
  ASSUME TypeOK, NEW i \in DOMAIN cluster.sbn,
         NEW t \in DOMAIN NodeInput(i).OutboundNodesByName,
         NodeInput(i).OutboundNodesByName[t].relayPort # 0
  PROVE  [port |-> socksTo(NodeInput(i), t).port, cred |-> socksTo(NodeInput(i), t).cred]
           \in NodeConfig(t).relay
<1>1. /\ t \in DOMAIN cluster.sbn /\ hasRole(cluster.sbn[t], "outbound")
      /\ NodeInput(i).OutboundNodesByName[t] = cluster.sbn[t]
      /\ cluster.sbn[t].relayPort \in Nat
  BY InputNodes
<1>2. EffectiveRelayPort(cluster.sbn[t]) = cluster.sbn[t].relayPort
  <2>1. cluster.sbn[t].relayPort > 0
    BY <1>1
  <2> QED BY <2>1 DEF EffectiveRelayPort
<1>3. /\ NodeInput(i).NodeCreds[t] = GetNodeCredential(cluster, t)
      /\ NodeInput(t).NodeCreds[t] = GetNodeCredential(cluster, t)
  BY <1>1, InputCreds
<1>4. NodeInput(t).Name = t /\ NodeInput(t).Node = cluster.sbn[t]
  BY <1>1, InputParts, Zenon
<1>5. NodeConfig(t).relay = {[port |-> cluster.sbn[t].relayPort,
                              cred |-> GetNodeCredential(cluster, t)]}
  BY <1>1, <1>2, <1>3, <1>4, ComputedParts, Zenon DEF NodeConfig, buildRelayInbound
<1> QED BY <1>1, <1>3, <1>5 DEF socksTo

(* A SOCKS entry of an outbound list is socksTo a node with a relay port.  *)
LEMMA SocksEntries ==
  ASSUME TypeOK, NEW i \in DOMAIN cluster.sbn, NEW t \in DOMAIN NodeConfig(i).outbounds,
         NodeConfig(i).outbounds[t].type = "socks"
  PROVE  /\ t \in DOMAIN NodeInput(i).OutboundNodesByName
         /\ NodeInput(i).OutboundNodesByName[t].relayPort # 0
         /\ NodeConfig(i).outbounds[t] = socksTo(NodeInput(i), t)
<1> DEFINE input == NodeInput(i)
<1>1. NodeConfig(i).outbounds = buildOutbounds(input)
  BY ComputedParts DEF NodeConfig
<1>2. hasRole(input.Node, "inbound")
  <2>1. ~hasRole(input.Node, "inbound") => buildOutbounds(input) = << >>
    BY DEF buildOutbounds
  <2> QED BY <1>1, <2>1
<1>3. buildOutbounds(input)[t] =
        IF t \in relayPeers(input) THEN socksTo(input, t)
        ELSE IF t \in resolveExternalOutbounds(input) THEN buildExternalOutboundEntry(input, t)
        ELSE IF t \in policyOutboundNames(input) THEN buildPolicyOutbound(input, t)
        ELSE [type |-> "direct"]
  BY <1>1, <1>2, ZenonT(30) DEF buildOutbounds
<1>4. buildExternalOutboundEntry(input, t).type # "socks"
  BY DEF buildExternalOutboundEntry
<1>5. CASE t \in relayPeers(input)
  <2>1. /\ t \in input.OutboundNodes
        /\ input.OutboundNodesByName[t].relayPort # 0
    BY <1>5 DEF relayPeers
  <2>2. t \in outboundPeers(cluster, i)
    BY <2>1, InputParts, ZenonT(30)
  <2>3. t \in DOMAIN input.OutboundNodesByName
    BY <2>2, Zenon DEF NodeInput, collectInput
  <2> QED BY <1>1, <1>3, <1>5, <2>1, <2>3
<1>6. CASE t \notin relayPeers(input)
  <2>1. /\ t \in policyOutboundNames(input)
        /\ buildOutbounds(input)[t] = buildPolicyOutbound(input, t)
    BY <1>1, <1>3, <1>4, <1>6
  <2>2. t \in DOMAIN input.OutboundNodesByName
    BY <1>1, <1>4, <2>1 DEF buildPolicyOutbound
  <2>3. input.OutboundNodesByName[t].relayPort # 0
    BY <2>1, <2>2 DEF policyOutboundNames
  <2> QED BY <1>1, <2>1, <2>2, <2>3 DEF buildPolicyOutbound
<1> QED BY <1>5, <1>6

(* Every path a client is given works end to end in the node configs of    *)
(* the same cluster: user, credential, rule and outbound on the entry      *)
(* node, relay port and relay credential on the exit node.                 *)
THEOREM PathsAreServed == Spec => []AdvertisedPathsAreServed
<1>1. ASSUME TypeOK, NEW u \in DOMAIN cluster.user, NEW path \in clientPaths(cluster, u),
             path[2] \in outboundsByName(cluster) \cap DOMAIN cluster.relay \/ Usable(path[2])
      PROVE  Served(u, path)
  <2> DEFINE i     == path[1]
             t     == path[2]
             input == NodeInput(i)
  <2>1. /\ i \in entryNodes(cluster)
        /\ t \in resolveOutboundNodes(cluster, u, i)
    BY <1>1 DEF clientPaths
  <2>2. /\ i \in DOMAIN cluster.sbn /\ hasRole(cluster.sbn[i], "inbound")
        /\ EffectiveInboundProtocol(cluster.sbn[i]) \in cluster.sbn[i].protocols
    BY <2>1 DEF entryNodes, inboundNodes
  <2>3. input.Name = i /\ input.Node = cluster.sbn[i]
    BY <1>1, <2>2, InputParts, ZenonT(30)
  <2>4. IsNodeAllowed(t, groupList(cluster, u, "allowed"), groupList(cluster, u, "denied"))
    BY <2>1, Zenon DEF resolveOutboundNodes, advertisable
  <2>5. /\ u \in input.Users /\ mayUse(input, u, t)
        /\ input.UserCreds[u] = GetUserCredential(cluster, u)
    BY <1>1, <2>2, <2>4, InputUsers DEF mayUse
  <2>6. /\ t \in relayPeers(input) \cup selfName(input) \cup resolveExternalOutbounds(input)
        /\ t \in DOMAIN NodeConfig(i).outbounds
    <3>1. NodeConfig(i).outbounds = buildOutbounds(input)
      BY ComputedParts DEF NodeConfig
    <3>2. CASE t \in outboundsByName(cluster)
      <4>1. /\ t \in DOMAIN cluster.sbn /\ hasRole(cluster.sbn[t], "outbound")
            /\ \/ cluster.sbn[t].relayPort # 0 /\ Connects(cluster.sbn[i], i, cluster.sbn[t], t)
               \/ t = i /\ Permits(cluster.sbn[i].allowedOutbounds, i)
        BY <2>1, <3>2, ZenonT(30) DEF resolveOutboundNodes, outboundsByName
      <4>2. CASE t = i
        <5>1. Permits(cluster.sbn[i].allowedOutbounds, t)
          BY <4>1, <4>2 DEF Connects
        <5>2. t \in selfName(input)
          BY <2>2, <2>3, <4>1, <4>2 DEF selfName, isSelfOutbound
        <5>3. t \in directSelf(input)
          BY <2>3, <5>1, <5>2 DEF directSelf
        <5> QED BY <2>2, <2>3, <3>1, <5>2, <5>3, OutboundTags, ZenonT(30)
      <4>3. CASE t # i
        <5>1. t \in outboundPeers(cluster, i)
          BY <4>1, <4>3 DEF outboundPeers
        <5>2. /\ t \in input.OutboundNodes
              /\ input.OutboundNodesByName[t] = cluster.sbn[t]
          BY <5>1, Zenon DEF NodeInput, collectInput
        <5>3. t \in relayPeers(input)
          BY <4>1, <4>3, <5>2 DEF relayPeers
        <5> QED BY <2>2, <2>3, <3>1, <5>3, OutboundTags, ZenonT(30)
      <4> QED BY <4>2, <4>3
    <3>3. CASE t \notin outboundsByName(cluster)
      <4>1. /\ t \in DOMAIN cluster.eob /\ acceptedReason(cluster, t) = "Valid"
            /\ cluster.eob[t].region # "" /\ Connects(cluster.sbn[i], i, cluster.eob[t], t)
        BY <1>1, <2>1, <3>3, Zenon DEF Usable, resolveOutboundNodes
      <4>2. t \in resolveExternalOutbounds(input)
        BY <1>1, <2>2, <4>1, AcceptedHasKeys, DiscoveredWithKeys, Zenon
      <4> QED BY <2>2, <2>3, <3>1, <4>2, OutboundTags, ZenonT(30)
    <3> QED BY <3>2, <3>3
  <2>7. findProtocolPort(input.Node) /\ hasRole(input.Node, "inbound")
    BY <2>2, <2>3 DEF findProtocolPort
  <2>8. /\ [name |-> <<u, t>>,
            auth |-> DeriveAuth(EffectiveInboundProtocol(input.Node), input.UserCreds[u], t)]
              \in NodeConfig(i).inbounds
        /\ \E rule \in NodeConfig(i).userRules : <<u, t>> \in rule.users /\ rule.outbound = t
    BY <2>5, <2>6, <2>7, NamedUserIsServed DEF NodeConfig
  <2>9. NodeConfig(i).outbounds[t].type = "socks" =>
          [port |-> NodeConfig(i).outbounds[t].port, cred |-> NodeConfig(i).outbounds[t].cred]
            \in NodeConfig(t).relay
    BY <1>1, <2>2, <2>6, SocksEntries, RelayMeets, ZenonT(30)
  <2>10. /\ buildProxyOutbound(cluster, u, path).name = <<u, t>>
         /\ buildProxyOutbound(cluster, u, path).auth =
              DeriveAuth(EffectiveInboundProtocol(input.Node), input.UserCreds[u], t)
    BY <2>3, <2>5, Zenon DEF buildProxyOutbound, virtualUserName
  <2> QED BY <2>6, <2>8, <2>9, <2>10, Zenon DEF Served
<1>2. TypeOK => AdvertisedPathsAreServed
  BY <1>1 DEF AdvertisedPathsAreServed
<1> QED BY <1>2, TypeCorrect, PTL
-----------------------------------------------------------------------------
(* Client configs.                                                         *)

(* The selector MergeClientConfig falls back on is one there is.           *)
LEMMA ProxySelectorThere ==
  ASSUME NEW has
  PROVE  proxySelector(has) = "" \/ proxySelector(has) \in has
BY DEF proxySelector

LEMMA ModesThere ==
  ASSUME NEW has
  PROVE  /\ DOMAIN modeRules(has) \subseteq has
         /\ \A mode \in DOMAIN modeRules(has) : modeRules(has)[mode] \in has
BY DEF modeRules

LEMMA Singly ==
  ASSUME NEW x, NEW y \in {<< x >>, << >>}, NEW i \in DOMAIN y
  PROVE  y = << x >> /\ y[i] = x
<1>1. y # << >>
  OBVIOUS
<1>2. DOMAIN << x >> = {1}
  OBVIOUS
<1> QED BY <1>1, <1>2

(* Where the rules of a client config lead, but for the policies'.         *)
LEMMA MergedRulesLead ==
  ASSUME NEW c, NEW template, NEW has, "direct" \in has,
         NEW block \in DOMAIN mergedRules(c, template, has) \ {"policy"},
         NEW i \in DOMAIN mergedRules(c, template, has)[block]
  PROVE  mergedRules(c, template, has)[block][i] \in has \cup {"template"}
<1> DEFINE r == mergedRules(c, template, has)
<1>1. block \in {"leading", "resolve", "domestic", "auto", "mode", "other"}
  BY Zenon DEF mergedRules
<1>2. CASE block \in {"leading", "domestic", "other"}
  <2> DEFINE rules == template.rules
             rest  == leading(rules) + 1 .. Len(rules)
  <2>1. /\ r.leading = [j \in 1 .. leading(rules) |-> templateRule(rules[j])]
        /\ r.domestic = [j \in {h \in rest : rules[h] = "domestic"} |-> templateRule(rules[j])]
        /\ r.other = [j \in {h \in rest : rules[h] \notin {"domestic", "proxyMode"}} |->
                        templateRule(rules[j])]
    BY Zenon DEF mergedRules
  <2>2. r[block][i] = templateRule(rules[i])
    BY <1>2, <2>1, ZenonT(30)
  <2> QED BY <2>2 DEF templateRule
<1>3. CASE block = "resolve"
  <2>1. r.resolve = IF template.proxyDNS THEN << "template" >> ELSE << >>
    BY Zenon DEF mergedRules
  <2> QED BY <1>3, <2>1, Singly
<1>4. CASE block = "auto"
  <2>1. r.auto = IF proxySelector(has) # "" THEN << proxySelector(has) >> ELSE << >>
    BY Zenon DEF mergedRules
  <2>2. proxySelector(has) # "" /\ r[block][i] = proxySelector(has)
    BY <1>4, <2>1, Singly, Zenon
  <2> QED BY <2>2, ProxySelectorThere, Zenon
<1>5. CASE block = "mode"
  <2>1. r.mode = modeRules(has)
    BY Zenon DEF mergedRules
  <2> QED BY <1>5, <2>1, ModesThere
<1> QED BY <1>1, <1>2, <1>3, <1>4, <1>5

(* Every 200 answer of the client API stands on its own: the Auto rule,    *)
(* the mode rules, rewritten template rules, route.final and the detours   *)
(* of the managed DNS servers name selectors MergeClientConfig has put     *)
(* into it, for every cluster and every template.                          *)
THEOREM ModesHaveSelectors == Spec => []ClientModesHaveSelectors
<1>1. ClientModesHaveSelectors
  <2> SUFFICES ASSUME NEW config \in ClientConfigs, config.status = 200
               PROVE  /\ config.dns \subseteq config.selectors
                      /\ config.final \in config.selectors \cup {"template"}
                      /\ \A block \in DOMAIN config.rules \ {"policy"} :
                           \A i \in DOMAIN config.rules[block] :
                             config.rules[block][i] \in config.selectors \cup {"template"}
    BY DEF ClientModesHaveSelectors
  <2>1. PICK uuid, template : config = handleClientConfig(cluster, uuid, template)
    BY DEF ClientConfigs
  <2>2. PICK u : config = MergeClientConfig(cluster, u, template)
    <3> DEFINE users == matchedUser(cluster, uuid)
               one   == CHOOSE x \in users : \A y \in users : x <= y
    <3>1. \/ config = [status |-> 404] \/ config = [status |-> 500]
          \/ config = MergeClientConfig(cluster, one, template)
      BY <2>1 DEF handleClientConfig
    <3> QED BY <3>1
  <2> DEFINE has == clientSelectors(cluster, u) \cup {"direct"}
  <2>3. /\ config.selectors = has /\ config.rules = mergedRules(cluster, template, has)
        /\ config.final = (IF proxySelector(has) # "" THEN proxySelector(has) ELSE "template")
        /\ config.dns = configureClientDNS(template, has) \ {""}
    BY <2>2, Zenon DEF MergeClientConfig
  <2>4. "direct" \in has
    OBVIOUS
  <2> HIDE DEF has
  <2>5. configureClientDNS(template, has) \ {""} \subseteq has
    BY ProxySelectorThere, ModesThere, Zenon DEF configureClientDNS
  <2>6. (IF proxySelector(has) # "" THEN proxySelector(has) ELSE "template") \in has \cup {"template"}
    BY ProxySelectorThere, Zenon
  <2>7. \A block \in DOMAIN mergedRules(cluster, template, has) \ {"policy"} :
          \A i \in DOMAIN mergedRules(cluster, template, has)[block] :
            mergedRules(cluster, template, has)[block][i] \in has \cup {"template"}
    BY <2>4, MergedRulesLead
  <2> QED BY <2>3, <2>5, <2>6, <2>7, ZenonT(30)
<1> QED BY <1>1, PTL
=============================================================================
