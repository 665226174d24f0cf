------------------------ MODULE ConfigLocalityProofs ------------------------
(***************************************************************************)
(* What a node's config depends on: two clusters that differ only in what  *)
(* the node cannot see ask for the same config, for every cluster.         *)
(***************************************************************************)
EXTENDS ControlPlane, TLAPS

-----------------------------------------------------------------------------
(* What selectors look at.                                                 *)

(* Two maps of nodes or outbounds that agree on the fields in F.           *)
Agree(f, g, F) ==
  DOMAIN f = DOMAIN g /\ \A x \in DOMAIN f : \A h \in F : f[x][h] = g[x][h]

(* A selector looks at labels, and for SingBoxNodes at roles.              *)
LEMMA CandidatesLocal ==
  ASSUME NEW f, NEW g, Agree(f, g, {"roles", "labels"}),
         NEW h, NEW k, Agree(h, k, {"labels"}), NEW s
  PROVE  egressCandidates(s, f, h) = egressCandidates(s, g, k)
<1>1. {x \in DOMAIN f : hasRole(f[x], "outbound") /\ Matches(s, x, f[x])}
      = {x \in DOMAIN g : hasRole(g[x], "outbound") /\ Matches(s, x, g[x])}
  BY DEF hasRole, Matches, Agree
<1>2. {x \in DOMAIN h : Matches(s, x, h[x])} = {x \in DOMAIN k : Matches(s, x, k[x])}
  BY DEF Matches, Agree
<1> QED BY <1>1, <1>2 DEF egressCandidates
-----------------------------------------------------------------------------
(* What Compute looks at.                                                  *)

(* Two inputs that differ at most in fields no config depends on: statuses *)
(* and stamps and, where no policy selects the node, labels.               *)
SameFor(i, j) ==
  /\ i.Name = j.Name /\ \A f \in Editable["sbn"] : i.Node[f] = j.Node[f]
  /\ i.OutboundNodes = j.OutboundNodes /\ i.NodeCreds = j.NodeCreds
  /\ i.OutboundNodes \subseteq DOMAIN i.OutboundNodesByName
  /\ Agree(i.OutboundNodesByName, j.OutboundNodesByName, {"roles", "relayPort"})
  /\ i.ExternalOutbounds = j.ExternalOutbounds /\ i.ExternalCreds = j.ExternalCreds
  /\ i.ExternalOutbounds \subseteq DOMAIN i.ExternalOutboundsByName
  /\ Agree(i.ExternalOutboundsByName, j.ExternalOutboundsByName, {"protocol", "hysteria2"})
  /\ i.Users = j.Users /\ i.UserCreds = j.UserCreds
  /\ i.UserNodeAllowlist = j.UserNodeAllowlist
  /\ i.UserNodeRestrictions = j.UserNodeRestrictions
  /\ i.EgressPolicies = j.EgressPolicies
  /\ DOMAIN i.EgressPolicies # {} =>
       /\ Agree(i.OutboundNodesByName, j.OutboundNodesByName, {"labels"})
       /\ Agree(i.ExternalOutboundsByName, j.ExternalOutboundsByName, {"labels"})

LEMMA ComputeAgrees ==
  ASSUME NEW i, NEW j, SameFor(i, j)
  PROVE  Compute(i) = Compute(j)
<1>1. /\ i.Name = j.Name /\ i.OutboundNodes = j.OutboundNodes /\ i.NodeCreds = j.NodeCreds
      /\ i.ExternalOutbounds = j.ExternalOutbounds /\ i.ExternalCreds = j.ExternalCreds
      /\ i.Users = j.Users /\ i.UserCreds = j.UserCreds
      /\ i.UserNodeAllowlist = j.UserNodeAllowlist
      /\ i.UserNodeRestrictions = j.UserNodeRestrictions
      /\ i.EgressPolicies = j.EgressPolicies
      /\ DOMAIN i.OutboundNodesByName = DOMAIN j.OutboundNodesByName
      /\ DOMAIN i.ExternalOutboundsByName = DOMAIN j.ExternalOutboundsByName
      /\ i.OutboundNodes \subseteq DOMAIN i.OutboundNodesByName
      /\ i.ExternalOutbounds \subseteq DOMAIN i.ExternalOutboundsByName
  BY DEF SameFor, Agree
<1>2. /\ i.Node.roles = j.Node.roles /\ i.Node.relayPort = j.Node.relayPort
      /\ i.Node.allowedOutbounds = j.Node.allowedOutbounds
      /\ i.Node.protocols = j.Node.protocols
      /\ i.Node.inboundProtocol = j.Node.inboundProtocol
  BY DEF SameFor, Editable
<1>3. \A m \in DOMAIN i.OutboundNodesByName :
        /\ i.OutboundNodesByName[m].roles = j.OutboundNodesByName[m].roles
        /\ i.OutboundNodesByName[m].relayPort = j.OutboundNodesByName[m].relayPort
  BY DEF SameFor, Agree
<1>4. \A e \in DOMAIN i.ExternalOutboundsByName :
        /\ i.ExternalOutboundsByName[e].protocol = j.ExternalOutboundsByName[e].protocol
        /\ i.ExternalOutboundsByName[e].hysteria2 = j.ExternalOutboundsByName[e].hysteria2
  BY DEF SameFor, Agree
<1>5. /\ \A r : hasRole(i.Node, r) = hasRole(j.Node, r)
      /\ selfName(i) = selfName(j) /\ isSelfOutbound(i) = isSelfOutbound(j)
      /\ EffectiveInboundProtocol(i.Node) = EffectiveInboundProtocol(j.Node)
      /\ findProtocolPort(i.Node) = findProtocolPort(j.Node)
      /\ EffectiveRelayPort(i.Node) = EffectiveRelayPort(j.Node)
      /\ directSelf(i) = directSelf(j)
  BY <1>1, <1>2 DEF hasRole, selfName, isSelfOutbound, EffectiveInboundProtocol,
                    findProtocolPort, EffectiveRelayPort, directSelf, Permits
<1>6. \A x : authUsers(i, x) = authUsers(j, x)
  BY <1>1 DEF authUsers, mayUse
<1>7. \A e \in DOMAIN i.ExternalOutboundsByName :
        hasRequiredExternalCreds(i.ExternalOutboundsByName[e], i.ExternalCreds[e])
        = hasRequiredExternalCreds(j.ExternalOutboundsByName[e], j.ExternalCreds[e])
  BY <1>1, <1>4, Zenon DEF hasRequiredExternalCreds
<1>8. relayPeers(i) = relayPeers(j)
  BY <1>1, <1>3 DEF relayPeers
<1>9. resolveExternalOutbounds(i) = resolveExternalOutbounds(j)
  BY <1>1, <1>7 DEF resolveExternalOutbounds, externalNameCollidesWithNode
<1>10. \A x : policyEgressAvailable(i, x) = policyEgressAvailable(j, x)
  BY <1>1, <1>3, <1>7 DEF policyEgressAvailable, hasRole
<1>11. \A p \in DOMAIN i.EgressPolicies :
         policyEgress(i, i.EgressPolicies[p]) = policyEgress(j, j.EgressPolicies[p])
  <2> SUFFICES ASSUME NEW p \in DOMAIN i.EgressPolicies, NEW policy
               PROVE  resolvePolicyEgressName(i, policy) = resolvePolicyEgressName(j, policy)
    BY <1>1 DEF policyEgress
  <2>1. /\ Agree(i.OutboundNodesByName, j.OutboundNodesByName, {"roles", "labels"})
        /\ Agree(i.ExternalOutboundsByName, j.ExternalOutboundsByName, {"labels"})
    BY DEF SameFor, Agree
  <2>2. egressCandidates(policy.egress, i.OutboundNodesByName, i.ExternalOutboundsByName)
        = egressCandidates(policy.egress, j.OutboundNodesByName, j.ExternalOutboundsByName)
    BY <2>1, CandidatesLocal
  <2> QED BY <2>2 DEF resolvePolicyEgressName
<1>12. routedNames(i) = routedNames(j)
  BY <1>1, <1>11 DEF routedNames
<1>13. outboundNames(i) = outboundNames(j)
  BY <1>5, <1>8, <1>9, <1>10, <1>12 DEF outboundNames
<1>14. buildPolicyRules(i) = buildPolicyRules(j)
  <2>1. \A p \in DOMAIN i.EgressPolicies : policyRules(i, p) = policyRules(j, p)
    BY <1>1, <1>6, <1>10, <1>11, Zenon DEF policyRules
  <2> QED BY <1>1, <2>1 DEF buildPolicyRules
<1>15. buildRouteRules(i) = buildRouteRules(j)
  BY <1>6, <1>13 DEF buildRouteRules
<1>16. buildInbounds(i) = buildInbounds(j)
  <2>1. \A u, name, target : inboundUser(i, u, name, target) = inboundUser(j, u, name, target)
    BY <1>1, <1>5 DEF inboundUser
  <2>2. buildRouteInbounds(i) = buildRouteInbounds(j)
    <3>1. UNION {authUsers(i, t) : t \in outboundNames(i)}
          = UNION {authUsers(j, t) : t \in outboundNames(j)}
      BY <1>6, <1>13
    <3> DEFINE V == UNION {authUsers(i, t) : t \in outboundNames(i)}
    <3>2. {inboundUser(i, v[1], virtualUserName(v[1], v[2]), v[2]) : v \in V}
          = {inboundUser(j, v[1], virtualUserName(v[1], v[2]), v[2]) : v \in V}
      <4> HIDE DEF V
      <4> QED BY <2>1
    <3> QED BY <1>5, <3>1, <3>2, Zenon DEF buildRouteInbounds
  <2>3. buildUserInbounds(i) = buildUserInbounds(j)
    <3>1. {inboundUser(i, u, <<u>>, i.Name) : u \in i.Users}
          = {inboundUser(j, u, <<u>>, i.Name) : u \in i.Users}
      BY <2>1
    <3> QED BY <1>1, <1>5, <3>1, Zenon DEF buildUserInbounds
  <2>4. hasOutboundPeers(i) = hasOutboundPeers(j)
    BY <1>1, <1>5, <1>9 DEF hasOutboundPeers
  <2> QED BY <1>1, <1>5, <2>2, <2>3, <2>4 DEF buildInbounds
<1>17. hasOutboundPeers(i) = hasOutboundPeers(j)
  BY <1>1, <1>5, <1>9 DEF hasOutboundPeers
<1>18. buildRelayInbound(i) = buildRelayInbound(j)
  BY <1>1, <1>5 DEF buildRelayInbound
<1>19. buildOutbounds(i) = buildOutbounds(j)
  <2>1. policyOutboundNames(i) = policyOutboundNames(j)
    BY <1>1, <1>3, <1>7, <1>12 DEF policyOutboundNames
  <2>2. /\ \A t \in DOMAIN i.OutboundNodesByName : socksTo(i, t) = socksTo(j, t)
        /\ \A t \in DOMAIN i.ExternalOutboundsByName :
             buildExternalOutboundEntry(i, t) = buildExternalOutboundEntry(j, t)
    BY <1>1, <1>3, <1>4 DEF socksTo, buildExternalOutboundEntry
  <2>3. \A t \in relayPeers(i) : socksTo(i, t) = socksTo(j, t)
    BY <1>1, <2>2 DEF relayPeers
  <2>4. \A t \in resolveExternalOutbounds(i) :
          buildExternalOutboundEntry(i, t) = buildExternalOutboundEntry(j, t)
    BY <1>1, <2>2 DEF resolveExternalOutbounds
  <2>5. \A t \in policyOutboundNames(i) : buildPolicyOutbound(i, t) = buildPolicyOutbound(j, t)
    BY <1>1, <2>2 DEF buildPolicyOutbound, policyOutboundNames
  <2> QED BY <1>5, <1>8, <1>9, <2>1, <2>3, <2>4, <2>5 DEF buildOutbounds
<1>20. routeFinal(i) = routeFinal(j)
  BY <1>1, <1>8, <1>9, <1>19 DEF routeFinal
<1>21. buildExperimentalConfig(i) = buildExperimentalConfig(j)
  BY <1>1, <1>5, <1>8, <1>9 DEF buildExperimentalConfig
<1>22. policiesForNode(i.EgressPolicies) = policiesForNode(j.EgressPolicies)
  BY <1>1
<1> QED BY <1>1, <1>5, <1>14, <1>15, <1>16, <1>17, <1>18, <1>19, <1>20, <1>21, <1>22, Zenon
        DEF Compute

(* The config of a node without the inbound role is its relay.             *)
LEMMA ComputeWithoutInbound ==
  ASSUME NEW i, NEW j, i.Name = j.Name, \A f \in Editable["sbn"] : i.Node[f] = j.Node[f],
         ~hasRole(i.Node, "inbound"), i.Users = {}, j.Users = {},
         i.EgressPolicies = j.EgressPolicies, DOMAIN i.EgressPolicies = {},
         hasRole(i.Node, "outbound") => i.NodeCreds[i.Name] = j.NodeCreds[j.Name]
  PROVE  Compute(i) = Compute(j)
<1>1. i.Node.roles = j.Node.roles /\ i.Node.relayPort = j.Node.relayPort
  BY DEF Editable
<1>2. /\ \A r : hasRole(i.Node, r) = hasRole(j.Node, r)
      /\ EffectiveRelayPort(i.Node) = EffectiveRelayPort(j.Node)
  BY <1>1 DEF hasRole, EffectiveRelayPort
<1>3. buildInbounds(i) = buildInbounds(j) /\ buildOutbounds(i) = buildOutbounds(j)
  BY <1>2 DEF buildInbounds, buildOutbounds
<1>4. buildRelayInbound(i) = buildRelayInbound(j)
  BY <1>2 DEF buildRelayInbound
<1>5. buildPolicyRules(i) = buildPolicyRules(j) /\ DOMAIN buildPolicyRules(i) = {}
  BY DEF buildPolicyRules
<1>6. routeFinal(i) = Direct /\ routeFinal(j) = Direct
  <2>1. DOMAIN buildOutbounds(i) = {} /\ DOMAIN buildOutbounds(j) = {}
    BY <1>2 DEF buildOutbounds
  <2> QED BY <2>1 DEF routeFinal
<1>7. buildExperimentalConfig(i) = {} /\ buildExperimentalConfig(j) = {}
  BY DEF buildExperimentalConfig
<1>8. policiesForNode(i.EgressPolicies) = policiesForNode(j.EgressPolicies)
  OBVIOUS
<1> QED BY <1>2, <1>3, <1>4, <1>5, <1>6, <1>7, <1>8, Zenon DEF Compute
-----------------------------------------------------------------------------
(* The inputs of a node.                                                   *)

(* ExternalOutbounds are discovered beside the SingBoxNodes in names.      *)
externalsBeside(c, n, names) ==
  {e \in DOMAIN c.eob \ names : c.eob[e].region # "" /\ Connects(c.sbn[n], n, c.eob[e], e)}

externalTargets(c, n) == {t \in policyTargets(c, n) : ~findOutboundNode(c, t)}

InputBeside(c, n, names) ==
  LET exts  == externalsBeside(c, n, names)
      extBy == exts \cup externalTargets(c, n)
  IN  [collectInput(c, n) EXCEPT
         !.ExternalOutbounds = exts,
         !.ExternalOutboundsByName = [e \in extBy |-> c.eob[e]],
         !.ExternalCreds = [e \in extBy |-> GetExternalCredentials(c, e)]]

nodeTargets(c, n) == {t \in policyTargets(c, n) : findOutboundNode(c, t)}

ownName(c, n) == IF hasRole(c.sbn[n], "outbound") THEN {n} ELSE {}

HasInputs(i, c, n, names) ==
  /\ i.Name = n /\ i.Node = c.sbn[n]
  /\ i.OutboundNodes = outboundPeers(c, n)
  /\ i.OutboundNodesByName = [m \in outboundPeers(c, n) \cup nodeTargets(c, n) |-> c.sbn[m]]
  /\ i.NodeCreds = [m \in outboundPeers(c, n) \cup nodeTargets(c, n) \cup ownName(c, n) |->
                     GetNodeCredential(c, m)]
  /\ i.ExternalOutbounds = externalsBeside(c, n, names)
  /\ i.ExternalOutboundsByName =
       [e \in externalsBeside(c, n, names) \cup externalTargets(c, n) |-> c.eob[e]]
  /\ i.ExternalCreds = [e \in externalsBeside(c, n, names) \cup externalTargets(c, n) |->
                         GetExternalCredentials(c, e)]
  /\ i.Users = inboundUsers(c, n)
  /\ i.UserCreds = [u \in inboundUsers(c, n) |-> GetUserCredential(c, u)]
  /\ i.UserNodeAllowlist = [u \in inboundUsers(c, n) |-> groupList(c, u, "allowed")]
  /\ i.UserNodeRestrictions = [u \in inboundUsers(c, n) |-> groupList(c, u, "denied")]
  /\ i.EgressPolicies = [p \in activePolicies(c, n) |-> c.policy[p]]

LEMMA InputFields ==
  ASSUME NEW c, NEW n, NEW names
  PROVE  HasInputs(InputBeside(c, n, names), c, n, names)
BY DEF HasInputs, InputBeside, collectInput, nodeTargets, ownName

(* With no ExternalOutbound of a SingBoxNode's name it is collectInput's.  *)
LEMMA InputBesideAll ==
  ASSUME NEW c, NEW n, NEW names, DOMAIN c.eob \ names = DOMAIN c.eob \ DOMAIN c.sbn
  PROVE  InputBeside(c, n, names) = collectInput(c, n)
<1>1. externalsBeside(c, n, names) = discoveredExternals(c, n)
  BY Zenon DEF externalsBeside, discoveredExternals
<1> DEFINE r    == collectInput(c, n)
           exts == externalsBeside(c, n, names)
           outs == [e \in exts \cup externalTargets(c, n) |-> c.eob[e]]
           keys == [e \in exts \cup externalTargets(c, n) |-> GetExternalCredentials(c, e)]
<1>2. r.ExternalOutbounds = exts /\ r.ExternalOutboundsByName = outs /\ r.ExternalCreds = keys
  BY <1>1 DEF collectInput, externalTargets
<1>3. r = [f \in DOMAIN r |-> r[f]]
  BY DEF collectInput
<1>4. InputBeside(c, n, names) = [r EXCEPT !.ExternalOutbounds = exts,
                                           !.ExternalOutboundsByName = outs,
                                           !.ExternalCreds = keys]
  BY DEF InputBeside
<1> HIDE DEF r, exts, outs, keys
<1> QED BY <1>2, <1>3, <1>4, Zenon DEF r
-----------------------------------------------------------------------------
(* When two clusters ask for the same config.                              *)

(* An object node n cannot be connected to, for its region's sake.         *)
Far(kind, o, region) == o.region # region \/ (kind = "eob" /\ o.region = "")

NearAlike(kind, f, g, region) ==
  \A x \in DOMAIN f \cup DOMAIN g :
    \/ x \in DOMAIN f \cap DOMAIN g /\ \A h \in Editable[kind] \ {"labels"} : f[x][h] = g[x][h]
    \/ /\ x \in DOMAIN f => Far(kind, f[x], region)
       /\ x \in DOMAIN g => Far(kind, g[x], region)

selecting(c, n) == {p \in DOMAIN c.policy : Matches(c.policy[p].ingress, n, c.sbn[n])}

AlikeInbound(c, d, n) ==
  /\ DOMAIN c.user = DOMAIN d.user
  /\ \A u \in DOMAIN c.user : /\ groupList(c, u, "allowed") = groupList(d, u, "allowed")
                              /\ groupList(c, u, "denied") = groupList(d, u, "denied")
  /\ NearAlike("sbn", c.sbn, d.sbn, c.sbn[n].region)
  /\ NearAlike("eob", c.eob, d.eob, c.sbn[n].region)
  /\ \A e \in DOMAIN c.eob \cap DOMAIN d.eob :
       \/ Far("eob", c.eob[e], c.sbn[n].region)
       \/ GetExternalCredentials(c, e) = GetExternalCredentials(d, e)
  /\ selecting(c, n) = selecting(d, n)
  /\ \A p \in selecting(c, n) : c.policy[p] = d.policy[p]
  /\ selecting(c, n) # {} => /\ Agree(c.sbn, d.sbn, Editable["sbn"])
                             /\ Agree(c.eob, d.eob, Editable["eob"])

Alike(c, d, n) ==
  /\ n \in DOMAIN c.sbn /\ n \in DOMAIN d.sbn
  /\ \A f \in Editable["sbn"] : c.sbn[n][f] = d.sbn[n][f]
  /\ c.relay = d.relay /\ c.auth = d.auth
  /\ hasRole(c.sbn[n], "inbound") => AlikeInbound(c, d, n)

LEMMA AlikePeers ==
  ASSUME NEW c, NEW d, NEW n, Alike(c, d, n), AlikeInbound(c, d, n)
  PROVE  /\ outboundPeers(c, n) = outboundPeers(d, n)
         /\ \A m \in outboundPeers(c, n) :
              c.sbn[m].roles = d.sbn[m].roles /\ c.sbn[m].relayPort = d.sbn[m].relayPort
<1>1. /\ c.sbn[n].region = d.sbn[n].region
      /\ c.sbn[n].allowedOutbounds = d.sbn[n].allowedOutbounds
  BY DEF Alike, Editable
<1>2. \A x \in DOMAIN c.sbn \cup DOMAIN d.sbn :
        \/ /\ x \in DOMAIN c.sbn /\ x \in DOMAIN d.sbn
           /\ c.sbn[x].roles = d.sbn[x].roles /\ c.sbn[x].relayPort = d.sbn[x].relayPort
           /\ c.sbn[x].region = d.sbn[x].region
           /\ c.sbn[x].allowedInbounds = d.sbn[x].allowedInbounds
        \/ /\ x \in DOMAIN c.sbn => c.sbn[x].region # c.sbn[n].region
           /\ x \in DOMAIN d.sbn => d.sbn[x].region # c.sbn[n].region
  BY Zenon DEF AlikeInbound, NearAlike, Far, Editable
<1> QED BY <1>1, <1>2 DEF outboundPeers, Connects, hasRole

LEMMA AlikeExternals ==
  ASSUME NEW c, NEW d, NEW n, NEW names, Alike(c, d, n), AlikeInbound(c, d, n)
  PROVE  /\ externalsBeside(c, n, names) = externalsBeside(d, n, names)
         /\ \A e \in externalsBeside(c, n, names) :
              /\ c.eob[e].protocol = d.eob[e].protocol /\ c.eob[e].hysteria2 = d.eob[e].hysteria2
              /\ GetExternalCredentials(c, e) = GetExternalCredentials(d, e)
<1>1. /\ c.sbn[n].region = d.sbn[n].region
      /\ c.sbn[n].allowedOutbounds = d.sbn[n].allowedOutbounds
  BY DEF Alike, Editable
<1>2. \A x \in DOMAIN c.eob \cup DOMAIN d.eob :
        \/ /\ x \in DOMAIN c.eob /\ x \in DOMAIN d.eob
           /\ c.eob[x].protocol = d.eob[x].protocol /\ c.eob[x].hysteria2 = d.eob[x].hysteria2
           /\ c.eob[x].region = d.eob[x].region
           /\ c.eob[x].allowedInbounds = d.eob[x].allowedInbounds
        \/ /\ x \in DOMAIN c.eob => Far("eob", c.eob[x], c.sbn[n].region)
           /\ x \in DOMAIN d.eob => Far("eob", d.eob[x], c.sbn[n].region)
  BY DEF AlikeInbound, NearAlike, Editable
<1>3. externalsBeside(c, n, names) = externalsBeside(d, n, names)
  BY <1>1, <1>2, Zenon DEF externalsBeside, Connects, Far
<1>4. ASSUME NEW e \in externalsBeside(c, n, names)
      PROVE  /\ e \in DOMAIN c.eob /\ e \in DOMAIN d.eob
             /\ ~Far("eob", c.eob[e], c.sbn[n].region)
  BY <1>2, Zenon DEF externalsBeside, Connects, Far
<1> QED BY <1>2, <1>3, <1>4 DEF AlikeInbound

LEMMA AlikePolicies ==
  ASSUME NEW c, NEW d, NEW n, Alike(c, d, n), AlikeInbound(c, d, n)
  PROVE  /\ activePolicies(c, n) = activePolicies(d, n)
         /\ \A p \in activePolicies(c, n) : c.policy[p] = d.policy[p]
         /\ policyTargets(c, n) = policyTargets(d, n)
         /\ \A t \in policyTargets(c, n) :
              /\ findOutboundNode(c, t) = findOutboundNode(d, t)
              /\ findOutboundNode(c, t) => /\ c.sbn[t].roles = d.sbn[t].roles
                                           /\ c.sbn[t].relayPort = d.sbn[t].relayPort
              /\ ~findOutboundNode(c, t) =>
                   /\ c.eob[t].protocol = d.eob[t].protocol
                   /\ c.eob[t].hysteria2 = d.eob[t].hysteria2
                   /\ GetExternalCredentials(c, t) = GetExternalCredentials(d, t)
         /\ activePolicies(c, n) # {} => selecting(c, n) # {}
<1>0. /\ activePolicies(c, n) \subseteq selecting(c, n)
      /\ activePolicies(d, n) \subseteq selecting(d, n)
      /\ selecting(c, n) = selecting(d, n)
      /\ \A p \in selecting(c, n) : c.policy[p] = d.policy[p]
  BY DEF activePolicies, selecting, AlikeInbound
<1>1. CASE selecting(c, n) = {}
  <2>1. activePolicies(c, n) = {} /\ activePolicies(d, n) = {}
    BY <1>0, <1>1
  <2>2. policyTargets(c, n) = {} /\ policyTargets(d, n) = {}
    BY <2>1 DEF policyTargets
  <2> QED BY <2>1, <2>2
<1>2. CASE selecting(c, n) # {}
  <2>1. Agree(c.sbn, d.sbn, Editable["sbn"]) /\ Agree(c.eob, d.eob, Editable["eob"])
    BY <1>2 DEF AlikeInbound
  <2>2. /\ DOMAIN c.sbn = DOMAIN d.sbn /\ DOMAIN c.eob = DOMAIN d.eob
        /\ \A m \in DOMAIN c.sbn :
             /\ c.sbn[m].roles = d.sbn[m].roles /\ c.sbn[m].relayPort = d.sbn[m].relayPort
             /\ c.sbn[m].region = d.sbn[m].region /\ c.sbn[m].labels = d.sbn[m].labels
             /\ c.sbn[m].allowedInbounds = d.sbn[m].allowedInbounds
             /\ c.sbn[m].allowedOutbounds = d.sbn[m].allowedOutbounds
        /\ \A e \in DOMAIN c.eob :
             /\ c.eob[e].protocol = d.eob[e].protocol /\ c.eob[e].hysteria2 = d.eob[e].hysteria2
             /\ c.eob[e].region = d.eob[e].region /\ c.eob[e].labels = d.eob[e].labels
             /\ c.eob[e].allowedInbounds = d.eob[e].allowedInbounds
    BY <2>1 DEF Agree, Editable
  <2>3. \A q : resolveEgressPolicy(q, c.sbn, c.eob) = resolveEgressPolicy(q, d.sbn, d.eob)
    <3>1. Agree(c.sbn, d.sbn, {"roles", "labels"}) /\ Agree(c.eob, d.eob, {"labels"})
      BY <2>2 DEF Agree
    <3>2. \A s : egressCandidates(s, c.sbn, c.eob) = egressCandidates(s, d.sbn, d.eob)
      BY <3>1, CandidatesLocal
    <3> QED BY <3>2 DEF resolveEgressPolicy
  <2>4. n \in DOMAIN c.sbn /\ n \in DOMAIN d.sbn
    BY DEF Alike
  <2>5. \A t : findOutboundNode(c, t) = findOutboundNode(d, t)
    BY <2>2 DEF findOutboundNode, hasRole
  <2>6. \A t : egressConnectedToInbound(c, n, t) = egressConnectedToInbound(d, n, t)
    BY <2>2, <2>4, <2>5, ZenonT(30) DEF egressConnectedToInbound, findOutboundNode, Connects
  <2>7. activePolicies(c, n) = activePolicies(d, n)
    <3>1. ASSUME NEW p \in selecting(c, n)
          PROVE  p \in activePolicies(c, n) <=> p \in activePolicies(d, n)
      <4> DEFINE q == c.policy[p]
                 t == resolveEgressPolicy(q, c.sbn, c.eob)
      <4>1. /\ p \in DOMAIN c.policy /\ p \in DOMAIN d.policy /\ d.policy[p] = q
            /\ resolveEgressPolicy(q, d.sbn, d.eob) = t
        BY <1>0, <2>3 DEF selecting
      <4>2. /\ hasRole(c.sbn[n], "inbound") <=> hasRole(d.sbn[n], "inbound")
            /\ Matches(q.ingress, n, c.sbn[n]) /\ Matches(q.ingress, n, d.sbn[n])
        BY <1>0, <2>2, <2>4, <4>1 DEF selecting, hasRole
      <4> HIDE DEF q, t
      <4>3. p \in activePolicies(c, n) <=>
              /\ hasRole(c.sbn[n], "inbound") /\ t.ok
              /\ \/ q.action = "reject"
                 \/ t.egress # NoName /\ egressConnectedToInbound(c, n, t.egress)
        BY <4>1, <4>2 DEF activePolicies, q, t
      <4>4. p \in activePolicies(d, n) <=>
              /\ hasRole(d.sbn[n], "inbound") /\ t.ok
              /\ \/ q.action = "reject"
                 \/ t.egress # NoName /\ egressConnectedToInbound(d, n, t.egress)
        BY <4>1, <4>2 DEF activePolicies
      <4> QED BY <2>6, <4>2, <4>3, <4>4
    <3> QED BY <1>0, <3>1
  <2>8. policyTargets(c, n) = policyTargets(d, n)
    <3>1. \A p \in activePolicies(c, n) : c.policy[p] = d.policy[p]
      BY <1>0
    <3>2. {q \in activePolicies(c, n) : c.policy[q].action = "route"}
          = {q \in activePolicies(d, n) : d.policy[q].action = "route"}
      BY <2>7, <3>1
    <3> QED BY <2>3, <3>1, <3>2 DEF policyTargets
  <2>9. ASSUME NEW t \in policyTargets(c, n), ~findOutboundNode(c, t)
        PROVE  /\ t \in DOMAIN c.eob /\ ~Far("eob", c.eob[t], c.sbn[n].region)
    <3>1. PICK p \in activePolicies(c, n) :
            /\ c.policy[p].action = "route"
            /\ t = resolveEgressPolicy(c.policy[p], c.sbn, c.eob).egress
      BY <2>9 DEF policyTargets
    <3>2. egressConnectedToInbound(c, n, t)
      BY <3>1 DEF activePolicies
    <3> QED BY <2>9, <3>2, Zenon DEF egressConnectedToInbound, Connects, Far
  <2>10. ASSUME NEW t \in policyTargets(c, n), ~findOutboundNode(c, t)
         PROVE  GetExternalCredentials(c, t) = GetExternalCredentials(d, t)
    BY <2>2, <2>9, <2>10 DEF AlikeInbound
  <2>11. \A t \in policyTargets(c, n) : findOutboundNode(c, t) => t \in DOMAIN c.sbn
    BY DEF findOutboundNode
  <2> QED BY <1>0, <1>2, <2>2, <2>5, <2>7, <2>8, <2>9, <2>10, <2>11
<1> QED BY <1>1, <1>2

LEMMA AlikeComputes ==
  ASSUME NEW c, NEW d, NEW n, NEW names, Alike(c, d, n)
  PROVE  Compute(InputBeside(c, n, names)) = Compute(InputBeside(d, n, names))
<1> DEFINE i == InputBeside(c, n, names)
           j == InputBeside(d, n, names)
<1>1. /\ \A r : hasRole(c.sbn[n], r) = hasRole(d.sbn[n], r)
      /\ \A m : GetNodeCredential(c, m) = GetNodeCredential(d, m)
      /\ \A u : GetUserCredential(c, u) = GetUserCredential(d, u)
  BY DEF Alike, Editable, hasRole, GetNodeCredential, GetUserCredential
<1>2. CASE ~hasRole(c.sbn[n], "inbound")
  <2>0. HasInputs(i, c, n, names) /\ HasInputs(j, d, n, names)
    BY InputFields
  <2> HIDE DEF i, j
  <2>1. i.Name = n /\ j.Name = n /\ i.Node = c.sbn[n] /\ j.Node = d.sbn[n]
    BY <2>0 DEF HasInputs
  <2>2. i.Users = {} /\ j.Users = {}
    BY <1>1, <1>2, <2>0 DEF inboundUsers, HasInputs
  <2>3. i.EgressPolicies = j.EgressPolicies /\ DOMAIN i.EgressPolicies = {}
    <3>1. activePolicies(c, n) = {} /\ activePolicies(d, n) = {}
      BY <1>1, <1>2 DEF activePolicies
    <3>2. /\ i.EgressPolicies = [p \in activePolicies(c, n) |-> c.policy[p]]
          /\ j.EgressPolicies = [p \in activePolicies(d, n) |-> d.policy[p]]
      BY <2>0 DEF HasInputs
    <3> QED BY <3>1, <3>2
  <2>4. hasRole(c.sbn[n], "outbound") => i.NodeCreds[n] = j.NodeCreds[n]
    <3>1. /\ i.NodeCreds = [m \in outboundPeers(c, n) \cup nodeTargets(c, n) \cup ownName(c, n) |->
                              GetNodeCredential(c, m)]
          /\ j.NodeCreds = [m \in outboundPeers(d, n) \cup nodeTargets(d, n) \cup ownName(d, n) |->
                              GetNodeCredential(d, m)]
      BY <2>0 DEF HasInputs
    <3> QED BY <1>1, <3>1 DEF ownName
  <2>5. \A f \in Editable["sbn"] : i.Node[f] = j.Node[f]
    BY <2>1 DEF Alike
  <2> QED BY <1>2, <2>1, <2>2, <2>3, <2>4, <2>5, ComputeWithoutInbound DEF i, j
<1>3. CASE hasRole(c.sbn[n], "inbound")
  <2>0. AlikeInbound(c, d, n) /\ HasInputs(i, c, n, names) /\ HasInputs(j, d, n, names)
    BY <1>3, InputFields DEF Alike
  <2> DEFINE peers == outboundPeers(c, n)
             exts  == externalsBeside(c, n, names)
             nodeT == nodeTargets(c, n)
             extT  == externalTargets(c, n)
             self  == ownName(c, n)
             users == DOMAIN c.user
             act   == activePolicies(c, n)
  <2>1. /\ outboundPeers(d, n) = peers /\ externalsBeside(d, n, names) = exts
        /\ activePolicies(d, n) = act /\ ownName(d, n) = self
        /\ externalTargets(d, n) = extT /\ nodeTargets(d, n) = nodeT
        /\ inboundUsers(c, n) = users /\ inboundUsers(d, n) = users
    <3>1. outboundPeers(d, n) = peers /\ externalsBeside(d, n, names) = exts
      BY <2>0, AlikePeers, AlikeExternals
    <3>2. /\ activePolicies(d, n) = act /\ policyTargets(c, n) = policyTargets(d, n)
          /\ \A t \in policyTargets(c, n) : findOutboundNode(c, t) = findOutboundNode(d, t)
      BY <2>0, AlikePolicies
    <3>3. externalTargets(d, n) = extT /\ nodeTargets(d, n) = nodeT
      BY <3>2 DEF externalTargets, nodeTargets
    <3>4. ownName(d, n) = self /\ inboundUsers(c, n) = users /\ inboundUsers(d, n) = users
      BY <1>1, <1>3, <2>0 DEF ownName, inboundUsers, AlikeInbound
    <3> QED BY <3>1, <3>2, <3>3, <3>4
  <2> HIDE DEF i, j
  <2>2. /\ i.Name = n /\ i.Node = c.sbn[n] /\ i.OutboundNodes = peers
        /\ i.OutboundNodesByName = [m \in peers \cup nodeT |-> c.sbn[m]]
        /\ i.NodeCreds = [m \in peers \cup nodeT \cup self |-> GetNodeCredential(c, m)]
        /\ i.ExternalOutbounds = exts
        /\ i.ExternalOutboundsByName = [e \in exts \cup extT |-> c.eob[e]]
        /\ i.ExternalCreds = [e \in exts \cup extT |-> GetExternalCredentials(c, e)]
        /\ i.Users = users
        /\ i.UserCreds = [u \in users |-> GetUserCredential(c, u)]
        /\ i.UserNodeAllowlist = [u \in users |-> groupList(c, u, "allowed")]
        /\ i.UserNodeRestrictions = [u \in users |-> groupList(c, u, "denied")]
        /\ i.EgressPolicies = [p \in act |-> c.policy[p]]
    BY <2>0, <2>1, ZenonT(30) DEF HasInputs
  <2>3. /\ j.Name = n /\ j.Node = d.sbn[n] /\ j.OutboundNodes = peers
        /\ j.OutboundNodesByName = [m \in peers \cup nodeT |-> d.sbn[m]]
        /\ j.NodeCreds = [m \in peers \cup nodeT \cup self |-> GetNodeCredential(d, m)]
        /\ j.ExternalOutbounds = exts
        /\ j.ExternalOutboundsByName = [e \in exts \cup extT |-> d.eob[e]]
        /\ j.ExternalCreds = [e \in exts \cup extT |-> GetExternalCredentials(d, e)]
        /\ j.Users = users
        /\ j.UserCreds = [u \in users |-> GetUserCredential(d, u)]
        /\ j.UserNodeAllowlist = [u \in users |-> groupList(d, u, "allowed")]
        /\ j.UserNodeRestrictions = [u \in users |-> groupList(d, u, "denied")]
        /\ j.EgressPolicies = [p \in act |-> d.policy[p]]
    BY <2>0, <2>1, ZenonT(30) DEF HasInputs
  <2>4. \A m \in peers \cup nodeT :
          c.sbn[m].roles = d.sbn[m].roles /\ c.sbn[m].relayPort = d.sbn[m].relayPort
    BY <2>0, AlikePeers, AlikePolicies DEF nodeTargets
  <2>5. \A e \in exts \cup extT :
          /\ c.eob[e].protocol = d.eob[e].protocol /\ c.eob[e].hysteria2 = d.eob[e].hysteria2
          /\ GetExternalCredentials(c, e) = GetExternalCredentials(d, e)
    BY <2>0, AlikeExternals, AlikePolicies DEF externalTargets
  <2>6. \A p \in act : c.policy[p] = d.policy[p]
    BY <2>0, AlikePolicies
  <2>7. \A u \in users : /\ groupList(c, u, "allowed") = groupList(d, u, "allowed")
                         /\ groupList(c, u, "denied") = groupList(d, u, "denied")
    BY <2>0 DEF AlikeInbound
  <2>8. act # {} => /\ \A m \in peers \cup nodeT : c.sbn[m].labels = d.sbn[m].labels
                    /\ \A e \in exts \cup extT : c.eob[e].labels = d.eob[e].labels
    <3> SUFFICES ASSUME act # {}
                 PROVE  /\ \A m \in peers \cup nodeT : c.sbn[m].labels = d.sbn[m].labels
                        /\ \A e \in exts \cup extT : c.eob[e].labels = d.eob[e].labels
      OBVIOUS
    <3>1. Agree(c.sbn, d.sbn, Editable["sbn"]) /\ Agree(c.eob, d.eob, Editable["eob"])
      BY <2>0, AlikePolicies, Zenon DEF AlikeInbound
    <3>2. /\ \A m \in DOMAIN c.sbn : c.sbn[m].labels = d.sbn[m].labels
          /\ \A e \in DOMAIN c.eob : c.eob[e].labels = d.eob[e].labels
      BY <3>1 DEF Agree, Editable
    <3>3. /\ peers \subseteq DOMAIN c.sbn /\ nodeT \subseteq DOMAIN c.sbn
          /\ exts \subseteq DOMAIN c.eob
      BY ZenonT(30) DEF outboundPeers, nodeTargets, findOutboundNode, externalsBeside
    <3>4. extT \subseteq DOMAIN c.eob
      BY ZenonT(30)
         DEF externalTargets, policyTargets, activePolicies, egressConnectedToInbound
    <3> QED BY <3>2, <3>3, <3>4
  <2> HIDE DEF peers, exts, nodeT, extT, self, users, act
  <2>9. /\ i.NodeCreds = j.NodeCreds /\ i.ExternalCreds = j.ExternalCreds
        /\ i.UserCreds = j.UserCreds /\ i.UserNodeAllowlist = j.UserNodeAllowlist
        /\ i.UserNodeRestrictions = j.UserNodeRestrictions
        /\ i.EgressPolicies = j.EgressPolicies /\ DOMAIN i.EgressPolicies = act
    BY <1>1, <2>2, <2>3, <2>5, <2>6, <2>7
  <2>10. /\ Agree(i.OutboundNodesByName, j.OutboundNodesByName, {"roles", "relayPort"})
         /\ Agree(i.ExternalOutboundsByName, j.ExternalOutboundsByName, {"protocol", "hysteria2"})
         /\ act # {} =>
              /\ Agree(i.OutboundNodesByName, j.OutboundNodesByName, {"labels"})
              /\ Agree(i.ExternalOutboundsByName, j.ExternalOutboundsByName, {"labels"})
    <3>1. /\ DOMAIN i.OutboundNodesByName = DOMAIN j.OutboundNodesByName
          /\ DOMAIN i.OutboundNodesByName = peers \cup nodeT
          /\ \A m \in peers \cup nodeT :
               i.OutboundNodesByName[m] = c.sbn[m] /\ j.OutboundNodesByName[m] = d.sbn[m]
      <4>1. /\ i.OutboundNodesByName = [m \in peers \cup nodeT |-> c.sbn[m]]
            /\ j.OutboundNodesByName = [m \in peers \cup nodeT |-> d.sbn[m]]
        BY <2>2, <2>3, Zenon
      <4> QED BY <4>1, Zenon
    <3>2. /\ DOMAIN i.ExternalOutboundsByName = DOMAIN j.ExternalOutboundsByName
          /\ DOMAIN i.ExternalOutboundsByName = exts \cup extT
          /\ \A e \in exts \cup extT :
               i.ExternalOutboundsByName[e] = c.eob[e] /\ j.ExternalOutboundsByName[e] = d.eob[e]
      <4>1. /\ i.ExternalOutboundsByName = [e \in exts \cup extT |-> c.eob[e]]
            /\ j.ExternalOutboundsByName = [e \in exts \cup extT |-> d.eob[e]]
        BY <2>2, <2>3, Zenon
      <4> QED BY <4>1, Zenon
    <3>3. /\ Agree(i.OutboundNodesByName, j.OutboundNodesByName, {"roles", "relayPort"})
          /\ act # {} => Agree(i.OutboundNodesByName, j.OutboundNodesByName, {"labels"})
      BY <2>4, <2>8, <3>1 DEF Agree
    <3>4. /\ Agree(i.ExternalOutboundsByName, j.ExternalOutboundsByName,
                   {"protocol", "hysteria2"})
          /\ act # {} => Agree(i.ExternalOutboundsByName, j.ExternalOutboundsByName, {"labels"})
      BY <2>5, <2>8, <3>2 DEF Agree
    <3> QED BY <3>3, <3>4
  <2>11. \A f \in Editable["sbn"] : i.Node[f] = j.Node[f]
    BY <2>2, <2>3 DEF Alike
  <2>12. /\ i.Name = j.Name /\ i.OutboundNodes = j.OutboundNodes
         /\ i.ExternalOutbounds = j.ExternalOutbounds /\ i.Users = j.Users
         /\ i.OutboundNodes \subseteq DOMAIN i.OutboundNodesByName
         /\ i.ExternalOutbounds \subseteq DOMAIN i.ExternalOutboundsByName
    BY <2>2, <2>3
  <2>13. SameFor(i, j)
    BY <2>9, <2>10, <2>11, <2>12 DEF SameFor
  <2> QED BY <2>13, ComputeAgrees DEF i, j
<1> QED BY <1>2, <1>3
-----------------------------------------------------------------------------
(* The same cluster asks for the same config.                              *)

LEMMA NearItself == \A k, f, r : NearAlike(k, f, f, r)
BY DEF NearAlike

LEMMA AgreeItself == \A f, F : Agree(f, f, F)
BY DEF Agree

(* A step that leaves nodes, ExternalOutbounds and the policies that       *)
(* select the node alone.                                                  *)
LEMMA InboundItself ==
  ASSUME NEW c, NEW d, NEW n, c.sbn = d.sbn, c.eob = d.eob, DOMAIN c.user = DOMAIN d.user,
         selecting(c, n) = selecting(d, n),
         \A p \in selecting(c, n) : c.policy[p] = d.policy[p],
         \A u \in DOMAIN c.user : /\ groupList(c, u, "allowed") = groupList(d, u, "allowed")
                                  /\ groupList(c, u, "denied") = groupList(d, u, "denied"),
         \A e \in DOMAIN c.eob : \/ Far("eob", c.eob[e], c.sbn[n].region)
                                 \/ GetExternalCredentials(c, e) = GetExternalCredentials(d, e)
  PROVE  AlikeInbound(c, d, n)
<1>1. /\ NearAlike("sbn", c.sbn, d.sbn, c.sbn[n].region)
      /\ NearAlike("eob", c.eob, d.eob, c.sbn[n].region)
  BY NearItself, Zenon
<1>2. \A F : Agree(c.sbn, d.sbn, F) /\ Agree(c.eob, d.eob, F)
  BY AgreeItself, Zenon
<1> QED BY <1>1, <1>2, ZenonT(30) DEF AlikeInbound

LEMMA CredentialsLocal ==
  ASSUME NEW c, NEW d, c.secret = d.secret
  PROVE  \A e : c.eob[e].ref = d.eob[e].ref
                  => GetExternalCredentials(c, e) = GetExternalCredentials(d, e)
BY DEF GetExternalCredentials

LEMMA GroupsItself ==
  ASSUME NEW c, NEW d, c.user = d.user, c.group = d.group
  PROVE  \A u, list : groupList(c, u, list) = groupList(d, u, list)
BY DEF groupList

LEMMA SelectingItself ==
  ASSUME NEW c, NEW d, c.sbn = d.sbn, c.policy = d.policy
  PROVE  \A n : selecting(c, n) = selecting(d, n)
BY DEF selecting

LEMMA GroupListLocal ==
  ASSUME NEW c, NEW d, NEW u, c.user[u] = d.user[u], Same(c.group, d.group, c.user[u].group)
  PROVE  /\ groupList(c, u, "allowed") = groupList(d, u, "allowed")
         /\ groupList(c, u, "denied") = groupList(d, u, "denied")
BY DEF groupList, Same
=============================================================================
