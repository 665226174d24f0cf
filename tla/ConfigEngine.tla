---------------------------- MODULE ConfigEngine ----------------------------
(***************************************************************************)
(* What a SingBoxNode's sing-box config is: collectInput, which gathers    *)
(* the node's inputs from the cluster, and configengine.Compute.           *)
(*                                                                         *)
(* The tag outbound-<name> is identified with the name, and the tag        *)
(* "direct" with Direct.  A list whose order sing-box does not see is a    *)
(* set: outbounds is a function from tags, the auth_user rules, whose      *)
(* users are disjoint, are a set; the policy rules, of which the first     *)
(* match wins, are one block per policy and the order of the policies, as  *)
(* the set of its pairs.                                                   *)
(* Input.Routes is not modelled: the controller leaves it empty.           *)
(***************************************************************************)
EXTENDS Cluster

Direct == 0

-----------------------------------------------------------------------------
(* SingBoxNodeReconciler.collectInput, for node n of cluster c.            *)

(* Outbound peers: same region, both allow lists agreeing.                 *)
outboundPeers(c, n) ==
  {m \in DOMAIN c.sbn \ {n} :
     hasRole(c.sbn[m], "outbound") /\ Connects(c.sbn[n], n, c.sbn[m], m)}

(* Auto-discovered ExternalOutbounds: never one with a SingBoxNode's name. *)
discoveredExternals(c, n) ==
  {e \in DOMAIN c.eob \ DOMAIN c.sbn :
     c.eob[e].region # "" /\ Connects(c.sbn[n], n, c.eob[e], e)}

(* Policies selecting the node that are valid and, unless they reject,     *)
(* have a target the node is connected to.                                 *)
activePolicies(c, n) ==
  {p \in DOMAIN c.policy :
     LET policy   == c.policy[p]
         resolved == resolveEgressPolicy(policy, c.sbn, c.eob)
     IN  /\ hasRole(c.sbn[n], "inbound")
         /\ Matches(policy.ingress, n, c.sbn[n])
         /\ resolved.ok
         /\ \/ policy.action = "reject"
            \/ /\ resolved.egress # NoName
               /\ egressConnectedToInbound(c, n, resolved.egress)}

policyTargets(c, n) ==
  {resolveEgressPolicy(c.policy[p], c.sbn, c.eob).egress :
     p \in {q \in activePolicies(c, n) : c.policy[q].action = "route"}}

(* The lists of a user's group; no group, or one that does not exist, is   *)
(* no restriction.                                                         *)
groupList(c, u, list) ==
  LET g == c.user[u].group
  IN  IF g \in DOMAIN c.group THEN c.group[g][list] ELSE {}

inboundUsers(c, n) == IF hasRole(c.sbn[n], "inbound") THEN DOMAIN c.user ELSE {}

(* A target that is also an outbound SingBoxNode is entered as that node.  *)
collectInput(c, n) ==
  LET peers   == outboundPeers(c, n)
      targets == policyTargets(c, n)
      byName  == peers \cup {t \in targets : findOutboundNode(c, t)}
      exts    == discoveredExternals(c, n)
      extBy   == exts \cup {t \in targets : ~findOutboundNode(c, t)}
      self    == IF hasRole(c.sbn[n], "outbound") THEN {n} ELSE {}
      users   == inboundUsers(c, n)
  IN  [Name                    |-> n,
       Node                    |-> c.sbn[n],
       OutboundNodes           |-> peers,
       OutboundNodesByName     |-> [m \in byName |-> c.sbn[m]],
       NodeCreds               |-> [m \in byName \cup self |-> GetNodeCredential(c, m)],
       ExternalOutbounds       |-> exts,
       ExternalOutboundsByName |-> [e \in extBy |-> c.eob[e]],
       ExternalCreds           |-> [e \in extBy |-> GetExternalCredentials(c, e)],
       Users                   |-> users,
       UserCreds               |-> [u \in users |-> GetUserCredential(c, u)],
       UserNodeAllowlist       |-> [u \in users |-> groupList(c, u, "allowed")],
       UserNodeRestrictions    |-> [u \in users |-> groupList(c, u, "denied")],
       EgressPolicies          |-> [p \in activePolicies(c, n) |-> c.policy[p]]]
-----------------------------------------------------------------------------
(* configengine: users and the targets they may reach.                     *)

isSelfOutbound(input) == hasRole(input.Node, "inbound") /\ hasRole(input.Node, "outbound")

mayUse(input, u, name) ==
  IsNodeAllowed(name, input.UserNodeAllowlist[u], input.UserNodeRestrictions[u])

virtualUserName(u, name) == <<u, name>>

authUsers(input, name) ==
  {virtualUserName(u, name) : u \in {v \in input.Users : mayUse(input, v, name)}}

(* One derivation for every protocol: a password or uuid made of the       *)
(* user's UUID and the target's name.                                      *)
DeriveAuth(protocol, uuid, name) == <<protocol, uuid, name>>

resolvePolicyEgressName(input, policy) ==
  uniqueTarget(egressCandidates(policy.egress, input.OutboundNodesByName,
                                input.ExternalOutboundsByName))

(* The status field goes first.                                            *)
policyEgress(input, policy) ==
  IF policy.resolved # NoName THEN policy.resolved
                              ELSE resolvePolicyEgressName(input, policy)

(* Mutant: a node is available whether or not it has a relay port.         *)
availableWithoutRelay(input, name) ==
  \/ name \in DOMAIN input.OutboundNodesByName
  \/ /\ name \in DOMAIN input.ExternalOutboundsByName
     /\ hasRequiredExternalCreds(input.ExternalOutboundsByName[name],
                                 input.ExternalCreds[name])

policyEgressAvailable(input, name) ==
  IF name \in DOMAIN input.OutboundNodesByName
  THEN /\ hasRole(input.OutboundNodesByName[name], "outbound")
       /\ input.OutboundNodesByName[name].relayPort > 0
  ELSE /\ name \in DOMAIN input.ExternalOutboundsByName
       /\ hasRequiredExternalCreds(input.ExternalOutboundsByName[name],
                                   input.ExternalCreds[name])

(* The targets of the policies that route.                                 *)
routedNames(input) ==
  {policyEgress(input, input.EgressPolicies[p]) :
     p \in {q \in DOMAIN input.EgressPolicies : input.EgressPolicies[q].action = "route"}}

externalNameCollidesWithNode(input, name) ==
  name = input.Name \/ name \in DOMAIN input.OutboundNodesByName \cup input.OutboundNodes

resolveExternalOutbounds(input) ==
  {e \in input.ExternalOutbounds :
     /\ ~externalNameCollidesWithNode(input, e)
     /\ hasRequiredExternalCreds(input.ExternalOutboundsByName[e], input.ExternalCreds[e])}

relayPeers(input) ==
  {m \in input.OutboundNodes : input.OutboundNodesByName[m].relayPort # 0}

selfName(input) == IF isSelfOutbound(input) THEN {input.Name} ELSE {}
-----------------------------------------------------------------------------
(* configengine: rules and inbounds.                                       *)

(* A reject policy is one rule.  A route policy whose target is not        *)
(* available is none; otherwise it is a rule and, with a fallback, a       *)
(* second one that rejects what the target's own users did not match.      *)
policyRules(input, p) ==
  LET policy == input.EgressPolicies[p]
      name   == policyEgress(input, policy)
      users  == authUsers(input, name)
      route  == [policy |-> p, users |-> {}, to |-> "outbound", outbound |-> name]
      reject == [policy |-> p, users |-> {}, to |-> "reject", outbound |-> NoName]
      fallback == [policy |-> NoName, users |-> users, to |-> "reject", outbound |-> NoName]
  IN  IF policy.action = "reject" THEN << reject >>
      ELSE IF name = NoName \/ ~policyEgressAvailable(input, name) THEN << >>
      ELSE IF policy.fallback /\ users # {} THEN << route, fallback >>
      ELSE << route >>

(* Lowest priority number first, ties by name.                             *)
policyBefore(policies, p, q) ==
  LET a == policies[p].priority
      b == policies[q].priority
  IN  a < b \/ (a = b /\ p < q)

policiesForNode(policies) ==
  {pair \in (DOMAIN policies) \X (DOMAIN policies) : policyBefore(policies, pair[1], pair[2])}

buildPolicyRules(input) ==
  [p \in DOMAIN input.EgressPolicies |-> policyRules(input, p)]

(* Every target a user of this node may ask for by name.                   *)
outboundNames(input) ==
  relayPeers(input)
  \cup {t \in routedNames(input) : t # NoName /\ policyEgressAvailable(input, t)}
  \cup selfName(input)
  \cup resolveExternalOutbounds(input)

buildRouteRules(input) ==
  {[users |-> authUsers(input, t), outbound |-> t] :
     t \in {x \in outboundNames(input) : authUsers(input, x) # {}}}

(* The protocol of the node is one it has a port for.                      *)
findProtocolPort(node) == EffectiveInboundProtocol(node) \in node.protocols

inboundUser(input, u, name, target) ==
  [name |-> name,
   auth |-> DeriveAuth(EffectiveInboundProtocol(input.Node), input.UserCreds[u], target)]

(* One inbound user for each user and target; no port or no user, no entry.*)
buildRouteInbounds(input) ==
  IF ~findProtocolPort(input.Node) THEN {}
  ELSE {inboundUser(input, v[1], virtualUserName(v[1], v[2]), v[2]) :
          v \in UNION {authUsers(input, t) : t \in outboundNames(input)}}

(* Without a target, one inbound user for each user, in no group's way.    *)
buildUserInbounds(input) ==
  IF ~findProtocolPort(input.Node) THEN {}
  ELSE {inboundUser(input, u, <<u>>, input.Name) : u \in input.Users}

hasOutboundPeers(input) ==
  input.OutboundNodes # {} \/ isSelfOutbound(input) \/ resolveExternalOutbounds(input) # {}

buildInbounds(input) ==
  LET routed == buildRouteInbounds(input)
  IN  IF ~hasRole(input.Node, "inbound") THEN {}
      ELSE IF DOMAIN input.EgressPolicies # {}
      THEN (IF routed # {} THEN routed ELSE buildUserInbounds(input))
      ELSE IF hasOutboundPeers(input) THEN routed ELSE buildUserInbounds(input)

(* Mutant: the relay listens on the default port whatever the spec says.   *)
defaultRelayPort(node) == 1080

EffectiveRelayPort(node) == IF node.relayPort > 0 THEN node.relayPort ELSE 1080

buildRelayInbound(input) ==
  IF hasRole(input.Node, "outbound")
  THEN {[port |-> EffectiveRelayPort(input.Node), cred |-> input.NodeCreds[input.Name]]}
  ELSE {}
-----------------------------------------------------------------------------
(* configengine: outbounds, statistics and the config.                     *)

(* A SOCKS5 hop to another node, an external proxy, or this node itself.   *)
socksTo(input, m) ==
  [type |-> "socks", server |-> m, port |-> input.OutboundNodesByName[m].relayPort,
   cred |-> input.NodeCreds[m]]

buildExternalOutboundEntry(input, e) ==
  [type |-> "external", server |-> e, protocol |-> input.ExternalOutboundsByName[e].protocol,
   keys |-> input.ExternalCreds[e]]

buildPolicyOutbound(input, t) ==
  IF t \in DOMAIN input.OutboundNodesByName THEN socksTo(input, t)
                                            ELSE buildExternalOutboundEntry(input, t)

(* A relayPort of zero, or a missing credential, means no entry.           *)
policyOutboundNames(input) ==
  {t \in routedNames(input) :
     /\ t # NoName
     /\ IF t \in DOMAIN input.OutboundNodesByName
        THEN input.OutboundNodesByName[t].relayPort # 0
        ELSE /\ t \in DOMAIN input.ExternalOutboundsByName
             /\ hasRequiredExternalCreds(input.ExternalOutboundsByName[t],
                                         input.ExternalCreds[t])}

(* The node itself is a target unless its own list leaves it out.          *)
directSelf(input) ==
  {t \in selfName(input) : Permits(input.Node.allowedOutbounds, t)}

(* The tag of a list entry is kept the first time it appears: peers, then  *)
(* externals, then policy targets, then the node itself.                   *)
buildOutbounds(input) ==
  LET peers == relayPeers(input)
      exts  == resolveExternalOutbounds(input)
      pols  == policyOutboundNames(input)
  IN  IF ~hasRole(input.Node, "inbound") THEN << >>
      ELSE [t \in peers \cup exts \cup pols \cup directSelf(input) |->
              IF t \in peers     THEN socksTo(input, t)
              ELSE IF t \in exts THEN buildExternalOutboundEntry(input, t)
              ELSE IF t \in pols THEN buildPolicyOutbound(input, t)
              ELSE [type |-> "direct"]]

(* The first tag of that list.  It is asked for only when there is no rule,*)
(* and a policy target comes with one.                                     *)
routeFinal(input) ==
  LET least(S) == CHOOSE x \in S : \A y \in S : x <= y
      peers == relayPeers(input)
      exts  == resolveExternalOutbounds(input)
  IN  IF DOMAIN buildOutbounds(input) = {} THEN Direct
      ELSE IF peers # {} THEN least(peers)
      ELSE IF exts # {}  THEN least(exts)
      ELSE input.Name

(* Mutant: ExternalOutbounds are left out of the statistics.               *)
statsOfNodes(input) ==
  {virtualUserName(u, t) : u \in input.Users, t \in relayPeers(input) \cup selfName(input)}

(* The users whose traffic sing-box counts: every user for every target    *)
(* but the ones only a policy names.                                       *)
buildExperimentalConfig(input) ==
  {virtualUserName(u, t) :
     u \in input.Users,
     t \in relayPeers(input) \cup selfName(input) \cup resolveExternalOutbounds(input)}

Compute(input) ==
  LET blocks == buildPolicyRules(input)
      users  == IF /\ hasRole(input.Node, "inbound")
                   /\ DOMAIN input.EgressPolicies # {} \/ hasOutboundPeers(input)
                THEN buildRouteRules(input) ELSE {}
      ruled  == users # {} \/ \E p \in DOMAIN blocks : blocks[p] # << >>
  IN  [inbounds    |-> buildInbounds(input),
       relay       |-> buildRelayInbound(input),
       outbounds   |-> buildOutbounds(input),
       policyOrder |-> policiesForNode(input.EgressPolicies),
       policyRules |-> blocks,
       userRules   |-> users,
       final       |-> IF ruled THEN Direct ELSE routeFinal(input),
       stats       |-> buildExperimentalConfig(input)]
=============================================================================
