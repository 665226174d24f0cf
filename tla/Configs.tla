------------------------------- MODULE Configs -------------------------------
(***************************************************************************)
(* The generated configurations of a cluster that users, and the           *)
(* controllers writing statuses and Secrets, change one object at a time.  *)
(* Every node's config and every client's config is recomputed from each   *)
(* state: what must agree between them, whatever sequence of admitted      *)
(* changes led here.                                                       *)
(***************************************************************************)
EXTENDS ClientConfig, Admission

CONSTANTS
  Start,            \* the cluster at first
  NodeFields,       \* for each field of a SingBoxNode spec, the values edits give it
  ExternalFields,   \* the same for ExternalOutbounds,
  PolicyFields,     \* EgressPolicies
  GroupFields,      \* and UserGroups
  NewExternals,     \* names and specs of the ExternalOutbounds users may create
  Secrets,          \* contents of a credentials Secret
  Templates,        \* client templates
  MaxEdits          \* how many changes are followed

VARIABLES
  cluster,          \* the stored objects
  edits             \* changes so far

vars == <<cluster, edits>>

Kinds == {"sbn", "eob", "policy", "user", "group", "relay", "secret", "auth"}
Names == Nat \ {NoName}

SingBoxNodes ==
  [roles : SUBSET Roles, region : STRING, relayPort : Nat, allowedInbounds : SUBSET Nat,
   allowedOutbounds : SUBSET Nat, protocols : SUBSET STRING, inboundProtocol : STRING,
   groups : SUBSET STRING, labels : SUBSET STRING, ready : {"true", "false", "absent"},
   entry : SUBSET STRING]

ExternalOutbounds ==
  [region : STRING, allowedInbounds : SUBSET Nat, protocol : ExternalProtocols, tls : STRING,
   hysteria2 : STRING, ref : Nat, groups : SUBSET STRING, labels : SUBSET STRING]

Selectors == [names : SUBSET Nat, labels : SUBSET STRING]

EgressPolicies ==
  [ingress : Selectors, egress : Selectors, action : {"route", "reject"}, priority : Nat,
   fallback : BOOLEAN, match : {"fields", "empty", "broken"}, ruleSets : SUBSET STRING,
   resolved : Nat]

Objects(f, S) == DOMAIN f \subseteq Names /\ \A x \in DOMAIN f : f[x] \in S

WellFormed(c) ==
  /\ c = [kind \in Kinds |-> c[kind]]
  /\ Objects(c.sbn, SingBoxNodes)
  /\ Objects(c.eob, ExternalOutbounds)
  /\ Objects(c.policy, EgressPolicies)
  /\ Objects(c.relay, Nat \ {NoCred})

ASSUME FieldsAssumption ==
  /\ MaxEdits \in Nat
  /\ NodeFields \in
       [roles : SUBSET SUBSET Roles, region : SUBSET STRING, relayPort : SUBSET Nat,
        allowedInbounds : SUBSET SUBSET Nat, allowedOutbounds : SUBSET SUBSET Nat,
        protocols : SUBSET SUBSET STRING, inboundProtocol : SUBSET STRING,
        groups : SUBSET SUBSET STRING, labels : SUBSET SUBSET STRING]
  /\ ExternalFields \in
       [region : SUBSET STRING, allowedInbounds : SUBSET SUBSET Nat,
        protocol : SUBSET ExternalProtocols, tls : SUBSET STRING, hysteria2 : SUBSET STRING,
        ref : SUBSET Nat, groups : SUBSET SUBSET STRING, labels : SUBSET SUBSET STRING]
  /\ PolicyFields \in
       [ingress : SUBSET Selectors, egress : SUBSET Selectors,
        action : SUBSET {"route", "reject"}, priority : SUBSET Nat,
        fallback : SUBSET BOOLEAN, match : SUBSET {"fields", "empty", "broken"},
        ruleSets : SUBSET SUBSET STRING]
  /\ Objects(NewExternals, ExternalOutbounds)

ASSUME StartAssumption ==
  WellFormed(Start) /\ \A e \in DOMAIN Start.eob : validateExternalOutbound(Start.eob[e])

TypeOK == edits \in 0 .. MaxEdits /\ WellFormed(cluster)

Init == cluster = Start /\ edits = 0
-----------------------------------------------------------------------------
Store(kind, objects) ==
  /\ objects # cluster[kind]
  /\ edits < MaxEdits
  /\ cluster' = [cluster EXCEPT ![kind] = objects]
  /\ edits' = edits + 1

Put(kind, name, object) == Store(kind, With(cluster[kind], name, object))
Drop(kind, name)        == Store(kind, Without(cluster[kind], name))

(* A change of one field that the webhook of the kind admits.              *)
EditNode ==
  \E n \in DOMAIN cluster.sbn, f \in DOMAIN NodeFields : \E v \in NodeFields[f] :
    LET node == [cluster.sbn[n] EXCEPT ![f] = v]
    IN  validateSingBoxNode(node) /\ Put("sbn", n, node)

EditExternal ==
  \E e \in DOMAIN cluster.eob, f \in DOMAIN ExternalFields : \E v \in ExternalFields[f] :
    LET eob == [cluster.eob[e] EXCEPT ![f] = v]
    IN  validateExternalOutbound(eob) /\ Put("eob", e, eob)

CreateExternal ==
  \E e \in DOMAIN NewExternals \ DOMAIN cluster.eob :
    validateExternalOutbound(NewExternals[e]) /\ Put("eob", e, NewExternals[e])

EditPolicy ==
  \E p \in DOMAIN cluster.policy, f \in DOMAIN PolicyFields : \E v \in PolicyFields[f] :
    LET policy == [cluster.policy[p] EXCEPT ![f] = v]
    IN  validateEgressPolicy(policy) /\ Put("policy", p, policy)

EditGroup ==
  \E g \in DOMAIN cluster.group, f \in DOMAIN GroupFields : \E v \in GroupFields[f] :
    Put("group", g, [cluster.group[g] EXCEPT ![f] = v])

EditSecret == \E s \in DOMAIN cluster.secret, v \in Secrets : Put("secret", s, v)

(* Nothing guards a deletion.                                              *)
Delete ==
  \E kind \in {"sbn", "eob", "policy", "user", "group", "secret", "auth"} :
    \E x \in DOMAIN cluster[kind] : Drop(kind, x)

(* The node controller reports the Kubernetes Node's health and the        *)
(* endpoints of the spec, and sees to the relay credential.                *)
nodeStatus ==
  \E n \in DOMAIN cluster.sbn, r \in {"true", "false"} :
    Put("sbn", n, [cluster.sbn[n] EXCEPT !.ready = r, !.entry = cluster.sbn[n].protocols])

(* Mutant: the Secret is written before its password is generated.         *)
emptyCredential ==
  \E n \in DOMAIN cluster.sbn \ DOMAIN cluster.relay :
    hasRole(cluster.sbn[n], "outbound") /\ Put("relay", n, NoCred)

EnsureNodeCredential ==
  \E n \in DOMAIN cluster.sbn \ DOMAIN cluster.relay :
    hasRole(cluster.sbn[n], "outbound") /\ Put("relay", n, n)

(* The EgressPolicy controller reports the one target it found, if any;    *)
(* until it does, the status is the one of an earlier cluster.             *)
policyStatus ==
  \E p \in DOMAIN cluster.policy :
    LET found == egressCandidates(cluster.policy[p].egress, cluster.sbn, cluster.eob)
    IN  Put("policy", p, [cluster.policy[p] EXCEPT !.resolved = uniqueTarget(found)])

Next ==
  \/ EditNode \/ EditExternal \/ CreateExternal \/ EditPolicy \/ EditGroup
  \/ EditSecret \/ Delete \/ nodeStatus \/ EnsureNodeCredential \/ policyStatus

Spec == Init /\ [][Next]_vars
-----------------------------------------------------------------------------
(* Properties.                                                             *)

NodeInput(n)  == collectInput(cluster, n)
NodeConfig(n) == Compute(NodeInput(n))

(* A dual-role node whose allowedOutbounds leaves itself out.              *)
SelfGated(n) ==
  isSelfOutbound(NodeInput(n)) /\ ~Permits(cluster.sbn[n].allowedOutbounds, n)

RuleTargets(config) ==
  {rule.outbound : rule \in config.userRules}
  \cup UNION {{config.policyRules[p][i].outbound :
                 i \in {j \in DOMAIN config.policyRules[p] :
                          config.policyRules[p][j].to = "outbound"}} :
              p \in DOMAIN config.policyRules}

(* A route rule of a node's config names an outbound the config has ("a    *)
(* route rule pointing at a nonexistent outbound is invalid"), and so does *)
(* route.final.  The one exception is the node itself, if its own list     *)
(* leaves it out: its users get a rule for an outbound that is not built.  *)
RulesHaveOutbounds ==
  \A n \in DOMAIN cluster.sbn :
    LET config == NodeConfig(n)
    IN  /\ RuleTargets(config)
             \subseteq DOMAIN config.outbounds \cup (IF SelfGated(n) THEN {n} ELSE {})
        /\ config.final # Direct => config.final \in DOMAIN config.outbounds

(* Every outbound of a node's config is allowed by both lists and in the   *)
(* node's region, the ones a policy adds and the ones a stale policy       *)
(* status names included.                                                  *)
OutboundsRespectGates ==
  \A n \in DOMAIN cluster.sbn :
    \A t \in DOMAIN NodeConfig(n).outbounds \ {n} :
      \/ t \in DOMAIN cluster.sbn /\ Connects(cluster.sbn[n], n, cluster.sbn[t], t)
      \/ t \in DOMAIN cluster.eob /\ Connects(cluster.sbn[n], n, cluster.eob[t], t)

(* Traffic of every user a node lets in by a target is counted.  The       *)
(* exception is a policy whose target is an ExternalOutbound with the name *)
(* of a SingBoxNode: its users are let in and not counted.                 *)
RoutedUsersAreCounted ==
  \A n \in DOMAIN cluster.sbn :
    LET config == NodeConfig(n)
    IN  \A x \in config.inbounds :
          Len(x.name) = 2 =>
            \/ x.name \in config.stats
            \/ x.name[2] \in DOMAIN cluster.eob \cap DOMAIN cluster.sbn

(* An ExternalOutbound the controller accepts is an outbound of every      *)
(* inbound node connected to it.                                           *)
AcceptedIsRendered ==
  \A e \in DOMAIN cluster.eob, n \in DOMAIN cluster.sbn :
    /\ acceptedReason(cluster, e) = "Valid"
    /\ hasRole(cluster.sbn[n], "inbound")
    /\ cluster.eob[e].region # "" /\ Connects(cluster.sbn[n], n, cluster.eob[e], e)
    => e \in DOMAIN NodeConfig(n).outbounds

(* What the webhook lets in, the controller's own copy of the rules does   *)
(* not call an invalid spec, however the object was edited into its state. *)
AdmittedSpecsAreValid ==
  \A e \in DOMAIN cluster.eob : specViolation(cluster.eob[e]) = "Valid"

Usable(e) == e \in DOMAIN cluster.eob /\ acceptedReason(cluster, e) = "Valid"

(* What a client path needs: the entry node lets the user in with exactly  *)
(* the credentials the client was given, has a rule taking that user to    *)
(* the target, and has the target as an outbound; and a SOCKS hop meets    *)
(* the relay inbound of the target's own config, port and credential.      *)
Served(u, path) ==
  LET i == path[1]
      t == path[2]
      client == buildProxyOutbound(cluster, u, path)
      entry  == NodeConfig(i)
  IN  /\ [name |-> client.name, auth |-> client.auth] \in entry.inbounds
      /\ \E rule \in entry.userRules : client.name \in rule.users /\ rule.outbound = t
      /\ t \in DOMAIN entry.outbounds
      /\ entry.outbounds[t].type = "socks" =>
           [port |-> entry.outbounds[t].port, cred |-> entry.outbounds[t].cred]
             \in NodeConfig(t).relay

(* Every path the client API advertises to a SingBoxNode that has its      *)
(* relay credential, or to an ExternalOutbound the controller accepts, is  *)
(* served by the node configs of the same cluster ("advertising them would *)
(* give clients broken paths").                                            *)
AdvertisedPathsAreServed ==
  \A u \in DOMAIN cluster.user : \A path \in clientPaths(cluster, u) :
    path[2] \in outboundsByName(cluster) \cap DOMAIN cluster.relay \/ Usable(path[2])
      => Served(u, path)

ClientConfigs ==
  {handleClientConfig(cluster, GetUserCredential(cluster, u), template) :
     u \in DOMAIN cluster.auth, template \in Templates}

(* Mode rules, rewritten template rules, route.final and the DNS detours   *)
(* of a client config name outbounds it has ("never leave a dangling       *)
(* tag"), whatever selectors the cluster leaves empty.                     *)
ClientModesHaveSelectors ==
  \A config \in ClientConfigs :
    config.status = 200 =>
      /\ config.dns \subseteq config.selectors
      /\ config.final \in config.selectors \cup {"template"}
      /\ \A block \in DOMAIN config.rules \ {"policy"} :
           \A i \in DOMAIN config.rules[block] :
             config.rules[block][i] \in config.selectors \cup {"template"}

(* "All active route policies share the single ai selector; unavailable    *)
(* paths reject traffic": a policy rule of a client config rejects, or     *)
(* names a selector the config has.                                        *)
UnavailablePathsReject ==
  \A config \in ClientConfigs :
    config.status = 200 =>
      \A p \in DOMAIN config.rules.policy :
        config.rules.policy[p] \in config.selectors \cup {"reject"}
=============================================================================
