------------------------------- MODULE Cluster -------------------------------
(***************************************************************************)
(* The resources the generated configurations are computed from, and the   *)
(* rules the node controller, the EgressPolicy controller and the client   *)
(* API share: roles, allow lists, selectors, the resolution of an          *)
(* EgressPolicy and the credentials a protocol needs.                      *)
(*                                                                         *)
(* A cluster is a record of functions, one per kind, whose domains are the *)
(* names of the objects that exist:                                        *)
(*   sbn    SingBoxNodes            user   Users                           *)
(*   eob    ExternalOutbounds       group  UserGroups                      *)
(*   policy EgressPolicies          relay  relay-credential Secrets        *)
(*   secret Secrets of ExternalOutbounds (their non-empty keys)            *)
(*   auth   auth Secrets of Users (their uuid)                             *)
(* Names are positive naturals, ordered as Go orders strings; NoName is    *)
(* the empty string, NoCred a credential that could not be read.           *)
(***************************************************************************)
EXTENDS Naturals, Sequences

NoName == 0
NoCred == 0

(* The objects of one kind after one of them was stored, or deleted.       *)
With(f, x, v) == [y \in DOMAIN f \cup {x} |-> IF y = x THEN v ELSE f[y]]
Without(f, x) == [y \in DOMAIN f \ {x} |-> f[y]]

Roles == {"inbound", "outbound"}
ExternalProtocols ==
  {"socks5", "http", "shadowsocks", "trojan", "hysteria2", "tuic", "anytls"}

hasRole(node, role) == role \in node.roles

(* slices.Contains on a list that, when empty, restricts nothing.          *)
Permits(list, name) == list = {} \/ name \in list

(* May inbound node i use outbound o, which lists the inbounds it accepts? *)
Connects(i, iname, o, oname) ==
  /\ o.region = i.region
  /\ Permits(o.allowedInbounds, iname)
  /\ Permits(i.allowedOutbounds, oname)

EffectiveInboundProtocol(node) ==
  IF node.inboundProtocol # "" THEN node.inboundProtocol ELSE "hysteria2"

IsNodeAllowed(name, allowed, denied) == name \notin denied /\ Permits(allowed, name)
-----------------------------------------------------------------------------
(* Credentials.                                                            *)

(* A Secret is the set of its non-empty keys; an ExternalOutbound without  *)
(* a reference, or with a dangling one, has no keys.                       *)
GetExternalCredentials(c, e) ==
  LET ref == c.eob[e].ref
  IN  IF ref \in DOMAIN c.secret THEN c.secret[ref].keys ELSE {}

GetNodeCredential(c, n) == IF n \in DOMAIN c.relay THEN c.relay[n] ELSE NoCred

GetUserCredential(c, u) == IF u \in DOMAIN c.auth THEN c.auth[u] ELSE NoCred

requiredCredentialKeys(eob) ==
  CASE eob.protocol = "shadowsocks"            -> {"method", "password"}
    [] eob.protocol \in {"trojan", "anytls"}   -> {"password"}
    [] eob.protocol = "hysteria2"              ->
         {"password"} \cup (IF eob.hysteria2 = "obfs" THEN {"obfsPassword"} ELSE {})
    [] eob.protocol = "tuic"                   -> {"uuid", "password"}
    [] OTHER                                   -> {}

(* Mutant: every hysteria2 outbound is taken to need an obfs password.     *)
obfsAlwaysRequired(eob, keys) ==
  /\ requiredCredentialKeys(eob) \subseteq keys
  /\ eob.protocol = "hysteria2" => "obfsPassword" \in keys

(* The engine's own copy of that table.                                    *)
hasRequiredExternalCreds(eob, keys) ==
  CASE eob.protocol = "shadowsocks" -> {"method", "password"} \subseteq keys
    [] eob.protocol = "tuic"        -> {"uuid", "password"} \subseteq keys
    [] eob.protocol \in {"trojan", "hysteria2", "anytls"} ->
         /\ "password" \in keys
         /\ eob.protocol = "hysteria2" /\ eob.hysteria2 = "obfs"
              => "obfsPassword" \in keys
    [] OTHER -> TRUE
-----------------------------------------------------------------------------
(* EgressPolicies.                                                         *)

Matches(selector, name, obj) ==
  /\ Permits(selector.names, name)
  /\ selector.labels \subseteq obj.labels

(* The match fields of a policy: some that parse, some that do not, none.  *)
MatchValid(policy) ==
  policy.match = "fields" \/ (policy.match = "empty" /\ policy.fallback)

(* A resource of either kind an egress selector picks.                     *)
egressCandidates(selector, nodes, outbounds) ==
  {<<"SingBoxNode", n>> : n \in
     {x \in DOMAIN nodes : hasRole(nodes[x], "outbound") /\ Matches(selector, x, nodes[x])}}
  \cup
  {<<"ExternalOutbound", e>> : e \in
     {x \in DOMAIN outbounds : Matches(selector, x, outbounds[x])}}

(* The one target selected, the empty name when there is none or several.  *)
uniqueTarget(candidates) ==
  IF \E x \in candidates : candidates = {x}
  THEN (CHOOSE x \in candidates : candidates = {x})[2]
  ELSE NoName

(* names, egress and whether the message is empty.  The CRD admits no      *)
(* action but route and reject.                                            *)
resolveEgressPolicy(policy, nodes, outbounds) ==
  LET found == egressCandidates(policy.egress, nodes, outbounds)
  IN  IF ~MatchValid(policy) \/ policy.action = "reject"
      THEN [names |-> {}, egress |-> NoName, ok |-> MatchValid(policy)]
      ELSE [names  |-> {x[2] : x \in found},
            egress |-> uniqueTarget(found),
            ok     |-> found = {} \/ uniqueTarget(found) # NoName]

findOutboundNode(c, name) == name \in DOMAIN c.sbn /\ hasRole(c.sbn[name], "outbound")

(* Mutant: a policy's target need only be in the node's region.            *)
sameRegionOnly(c, i, name) ==
  IF findOutboundNode(c, name)
  THEN name = i \/ c.sbn[name].region = c.sbn[i].region
  ELSE name \in DOMAIN c.eob /\ c.eob[name].region = c.sbn[i].region

egressConnectedToInbound(c, i, name) ==
  IF findOutboundNode(c, name)
  THEN name = i \/ Connects(c.sbn[i], i, c.sbn[name], name)
  ELSE /\ name \in DOMAIN c.eob
       /\ c.eob[name].region # ""
       /\ Connects(c.sbn[i], i, c.eob[name], name)
=============================================================================
