---------------------------- MODULE ClientConfig ----------------------------
(***************************************************************************)
(* The client-config API: what handleClientConfig answers to the user      *)
(* whose UUID is in the URL, from the cluster its cache shows.  A SingBox- *)
(* Node carries the two status fields the handler reads: the NodeReady     *)
(* condition (ready) and the protocols of status.EntryEndpoints (entry).   *)
(*                                                                         *)
(* A proxy outbound is the pair <<inbound node, target>> its tag is made   *)
(* of.  A template is a record: the kinds of its route rules in order, its *)
(* rule sets, and which of the DNS servers the merge knows it declares.    *)
(* The route rules of a client config, each by where it leads, are blocks  *)
(* in the order of mergedRules' fields.  Within a block template rules     *)
(* come by their position, and policy rules by policyOrder.                *)
(***************************************************************************)
EXTENDS ConfigEngine

Regional     == {"hk", "jp", "us"}    \* clientRegionModes
ClientGroups == {"hk", "jp", "us", "ai"}

inboundNodes(c)     == {n \in DOMAIN c.sbn : hasRole(c.sbn[n], "inbound")}
outboundsByName(c)  == {n \in DOMAIN c.sbn : hasRole(c.sbn[n], "outbound")}

(* No NodeReady condition counts as ready.                                 *)
isSingBoxNodeReady(node) == node.ready # "false"

offlineNodeNames(c) == {n \in DOMAIN c.sbn : ~isSingBoxNodeReady(c.sbn[n])}

targetHasClientGroup(c, name, group) ==
  IF name \in outboundsByName(c) THEN group \in c.sbn[name].groups
  ELSE name \in DOMAIN c.eob /\ group \in c.eob[name].groups
-----------------------------------------------------------------------------
(* EgressPolicies as the client sees them.  The targets buildClientPolicies*)
(* adds to the policy-only names are among them already.                   *)

clientCandidates(c, p) == egressCandidates(c.policy[p].egress, c.sbn, c.eob)

routePolicies(c) == {p \in DOMAIN c.policy : c.policy[p].action = "route"}

policyOnlyEgresses(c) ==
  {uniqueTarget(clientCandidates(c, p)) : p \in routePolicies(c)} \ {NoName}

(* A policy that cannot be read, or is ambiguous, fails the request.       *)
policyError(c) ==
  \E p \in DOMAIN c.policy :
    \/ ~MatchValid(c.policy[p])
    \/ /\ p \in routePolicies(c)
       /\ clientCandidates(c, p) # {}
       /\ uniqueTarget(clientCandidates(c, p)) = NoName

(* A route policy without a target is inactive.                            *)
clientPolicies(c) == {p \in DOMAIN c.policy : p \in routePolicies(c) => clientCandidates(c, p) # {}}

clientPolicyRule(c, p) ==
  IF p \in routePolicies(c) /\ targetHasClientGroup(c, uniqueTarget(clientCandidates(c, p)), "ai")
  THEN "ai" ELSE "reject"

buildClientPolicies(c) == [p \in clientPolicies(c) |-> clientPolicyRule(c, p)]

clientPolicyOrder(c) ==
  {pair \in clientPolicies(c) \X clientPolicies(c) : policyBefore(c.policy, pair[1], pair[2])}
-----------------------------------------------------------------------------
(* The paths of user u.                                                    *)

(* Advertised at all: not reserved for policies, and allowed by the        *)
(* user's group.                                                           *)
advertisable(c, u, name) ==
  /\ name \notin policyOnlyEgresses(c) \/ targetHasClientGroup(c, name, "ai")
  /\ IsNodeAllowed(name, groupList(c, u, "allowed"), groupList(c, u, "denied"))

(* The targets of inbound node i: relay peers, the node itself, and        *)
(* ExternalOutbounds whose name no outbound SingBoxNode has.               *)
resolveOutboundNodes(c, u, i) ==
  {m \in outboundsByName(c) \ offlineNodeNames(c) :
     /\ advertisable(c, u, m)
     /\ \/ c.sbn[m].relayPort # 0 /\ Connects(c.sbn[i], i, c.sbn[m], m)
        \/ m = i /\ Permits(c.sbn[i].allowedOutbounds, i)}
  \cup
  {e \in DOMAIN c.eob \ outboundsByName(c) :
     /\ advertisable(c, u, e)
     /\ c.eob[e].region # ""
     /\ Connects(c.sbn[i], i, c.eob[e], e)}

(* An inbound node clients can enter: online, with an endpoint in its      *)
(* status for the protocol it speaks.                                      *)
entryNodes(c) ==
  {i \in inboundNodes(c) \ offlineNodeNames(c) :
     LET protocol == EffectiveInboundProtocol(c.sbn[i])
     IN  protocol \in c.sbn[i].protocols /\ protocol \in c.sbn[i].entry}

(* The selectors a target appears in; a policy's target in "ai" alone.     *)
selectorsOf(c, t) ==
  {g \in ClientGroups :
     /\ targetHasClientGroup(c, t, g)
     /\ g = "ai" \/ t \notin policyOnlyEgresses(c)}

clientPaths(c, u) ==
  {path \in entryNodes(c) \X (DOMAIN c.sbn \cup DOMAIN c.eob) :
     path[2] \in resolveOutboundNodes(c, u, path[1]) /\ selectorsOf(c, path[2]) # {}}

buildProxyOutbound(c, u, path) ==
  [server |-> path[1],
   name   |-> virtualUserName(u, path[2]),
   auth   |-> DeriveAuth(EffectiveInboundProtocol(c.sbn[path[1]]),
                         GetUserCredential(c, u), path[2])]

(* The non-empty selectors; "direct" is always there.                      *)
clientSelectors(c, u) == UNION {selectorsOf(c, path[2]) : path \in clientPaths(c, u)}
-----------------------------------------------------------------------------
(* The template and the merged config.                                     *)

leading(rules) ==
  CHOOSE k \in 0 .. Len(rules) :
    /\ \A i \in 1 .. k : rules[i] \in {"sniff", "hijack-dns"}
    /\ k < Len(rules) => rules[k + 1] \notin {"sniff", "hijack-dns"}

ruleSetsDefined(c, template) ==
  \A p \in DOMAIN c.policy :
    \/ p \in routePolicies(c) /\ clientCandidates(c, p) = {}
    \/ c.policy[p].ruleSets \subseteq template.sets

(* Mutant: hk is taken to be there always.                                 *)
hkAlways(has) == "hk"

(* The first regional selector there is: hk, then jp, then us.             *)
proxySelector(has) ==
  IF "hk" \in has THEN "hk" ELSE IF "jp" \in has THEN "jp" ELSE IF "us" \in has THEN "us" ELSE ""

(* One mode, and one managed DNS server, for each regional selector.       *)
modeRules(has) == [mode \in Regional \cap has |-> mode]

(* What is left of the template: a rule for the old "proxy" outbound goes  *)
(* to direct, one for the old Proxy mode is dropped.                       *)
templateRule(kind) == IF kind \in {"domestic", "proxy"} THEN "direct" ELSE "template"

mergedRules(c, template, has) ==
  LET rules   == template.rules
      k       == leading(rules)
      rest    == k + 1 .. Len(rules)
      keep(S) == [i \in S |-> templateRule(rules[i])]
  IN  [leading  |-> keep(1 .. k),
       policy   |-> buildClientPolicies(c),
       resolve  |-> IF template.proxyDNS THEN << "template" >> ELSE << >>,
       domestic |-> keep({i \in rest : rules[i] = "domestic"}),
       auto     |-> IF proxySelector(has) # "" THEN << proxySelector(has) >> ELSE << >>,
       mode     |-> modeRules(has),
       other    |-> keep({i \in rest : rules[i] \notin {"domestic", "proxyMode"}})]

(* The outbounds the managed DNS servers dial through: proxy-dns itself    *)
(* and one server per regional selector.                                   *)
configureClientDNS(template, has) ==
  IF template.proxyDNS THEN {proxySelector(has)} \cup DOMAIN modeRules(has) ELSE {}

MergeClientConfig(c, u, template) ==
  LET has == clientSelectors(c, u) \cup {"direct"}
  IN  [status    |-> 200,
       outbounds |-> {buildProxyOutbound(c, u, p) : p \in clientPaths(c, u)},
       selectors |-> has,
       rules     |-> mergedRules(c, template, has),
       policyOrder |-> clientPolicyOrder(c),
       final     |-> IF proxySelector(has) # "" THEN proxySelector(has) ELSE "template",
       dns       |-> configureClientDNS(template, has) \ {""}]

(* The user whose Secret holds the UUID; the first of the list if several. *)
matchedUser(c, uuid) == {u \in DOMAIN c.user : GetUserCredential(c, u) = uuid}

handleClientConfig(c, uuid, template) ==
  LET users == matchedUser(c, uuid)
      u     == CHOOSE x \in users : \A y \in users : x <= y
  IN  IF users = {} THEN [status |-> 404]
      ELSE IF \/ policyError(c)
              \/ ~ruleSetsDefined(c, template)
              \/ template.proxyDNS /\ template.reserved \cap clientSelectors(c, u) # {}
      THEN [status |-> 500]
      ELSE MergeClientConfig(c, u, template)
=============================================================================
