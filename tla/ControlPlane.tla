---------------------------- MODULE ControlPlane ----------------------------
(***************************************************************************)
(* The five controllers together: SingBoxNode, EgressPolicy, External-     *)
(* Outbound, User and UserGroup, each with its workqueue and one worker,   *)
(* over one informer per kind.  The informers run independently, so a pass *)
(* may see a new SingBoxNode beside an old EgressPolicy.  Controllers wake *)
(* each other through watches, through the statuses they write and through *)
(* the reconcile-trigger annotation, a time stamp of one-second resolution.*)
(*                                                                         *)
(* A version of an informer object is the map of all objects of the kind.  *)
(* A resource carries its metadata.generation (gen, moved by spec edits    *)
(* only), the trigger annotation (stamp) and the status its controller     *)
(* writes.  The roll-out a node pass starts with its config is module      *)
(* NodeReconciler's; here the pass ends with the config and the status.    *)
(***************************************************************************)
EXTENDS ConfigEngine, Admission, Informer

CONSTANTS
  Start,       \* the objects of each kind at first
  Scripts,     \* what may happen together: sets of edits [kind, name, field, value]
  MaxClock     \* how many seconds are told apart

Kinds       == {"sbn", "eob", "policy", "user", "group", "secrets"}
Controllers == {"node", "policy", "external", "user", "group"}

(* The part of a script by which the operator is restarted once.           *)
Restarts == [kind |-> "operator", name |-> NoName, field |-> "none", value |-> None]

(* Names of objects, and the fields of an object of each kind: the ones    *)
(* users edit, and the ones the API server and the controllers keep.       *)
Names == Nat \ {NoName}

Editable ==
  [sbn    |-> {"roles", "region", "relayPort", "allowedInbounds", "allowedOutbounds",
               "protocols", "inboundProtocol", "labels"},
   eob    |-> {"region", "allowedInbounds", "protocol", "tls", "hysteria2", "ref", "labels"},
   policy |-> {"ingress", "egress", "action", "priority", "fallback", "match"},
   user   |-> {"group"},
   group  |-> {"allowed", "denied"},
   secret |-> {"keys"}]

Kept ==
  [sbn    |-> {"gen", "observed", "stamp", "hash"},
   eob    |-> {"gen", "observed", "accepted"},
   policy |-> {"gen", "observed", "resolved", "ingresses", "reason"},
   user   |-> {"gen", "observed", "stamp", "active", "groupReady"},
   group  |-> {"gen"},
   secret |-> {"goodMethod"}]

SecretKinds == {"relay", "secret", "auth"}

(* The objects of one kind.  A credential is opaque.                       *)
Objects(kind, f) ==
  /\ f = [x \in DOMAIN f |-> f[x]] /\ DOMAIN f \subseteq Names
  /\ \A x \in DOMAIN f : kind \in DOMAIN Kept =>
       /\ DOMAIN f[x] = Editable[kind] \cup Kept[kind]
       /\ "gen" \in Kept[kind] => f[x].gen \in Nat
       /\ "stamp" \in Kept[kind] => f[x].stamp \in Nat

(* No trigger was pulled in the second the story begins in.                *)
Untriggered(kind, o) ==
  kind \in {"sbn", "user"} => o.stamp = 0

ASSUME StartAssumption ==
  /\ DOMAIN Start.secrets = SecretKinds
  /\ \A kind \in SecretKinds : Objects(kind, Start.secrets[kind])
  /\ \A kind \in Kinds \ {"secrets"} :
       /\ Objects(kind, Start[kind])
       /\ \A x \in DOMAIN Start[kind] : Untriggered(kind, Start[kind][x])

(* Users create and delete objects and edit the fields that are theirs.    *)
ASSUME ScriptsAssumption ==
  \A all \in Scripts : \A edit \in all \ {Restarts} :
    /\ edit.kind \in SecretKinds \cup (Kinds \ {"secrets"})
    /\ edit.name \in Names
    /\ \/ edit.field = "none"
       \/ /\ edit.field = "object" /\ Untriggered(edit.kind, edit.value)
          /\ Objects(edit.kind, [x \in {edit.name} |-> edit.value])
       \/ edit.kind \in DOMAIN Editable /\ edit.field \in Editable[edit.kind]

ASSUME ClockAssumption == MaxClock \in Nat \ {0}

VARIABLES
  obj,         \* the informer object of each kind
  queue,       \* the workqueue of each controller
  pass,        \* the EgressPolicy and User passes in progress
  config,      \* the ConfigMap of each node
  clock,       \* seconds
  script,      \* what has still to happen
  seen,        \* ghost: inputs of each node's config that wake nobody, as it saw them
  missed       \* ghost: nodes and users with a change since their last pass no event told of

vars == <<obj, queue, pass, config, clock, script, seen, missed>>

(* What the controllers' cached client shows, and what is stored.          *)
View ==
  [sbn |-> obj.sbn.cache, eob |-> obj.eob.cache, policy |-> obj.policy.cache,
   user |-> obj.user.cache, group |-> obj.group.cache,
   relay |-> obj.secrets.cache.relay, secret |-> obj.secrets.cache.secret,
   auth |-> obj.secrets.cache.auth]

Stored(kind) == Current(obj[kind])

Now ==
  [sbn |-> Stored("sbn"), eob |-> Stored("eob"), policy |-> Stored("policy"),
   user |-> Stored("user"), group |-> Stored("group"),
   relay |-> Stored("secrets").relay, secret |-> Stored("secrets").secret,
   auth |-> Stored("secrets").auth]

Idle == [key |-> NoName, at |-> "idle", todo |-> {}, nodes |-> {}, resolved |-> NoName,
         reason |-> "none"]

TypeOK ==
  /\ DOMAIN obj = Kinds
  /\ queue \in [Controllers -> SUBSET Nat]
  /\ DOMAIN pass = {"policy", "user"}
  /\ \A w \in DOMAIN pass :
       /\ pass[w].at = "idle" <=> pass[w] = Idle
       /\ pass[w].todo \subseteq pass[w].nodes
  /\ clock \in 1 .. MaxClock
  /\ \E all \in Scripts : script \subseteq all
  /\ DOMAIN config = DOMAIN seen
  /\ missed \subseteq {"node", "user"} \X Nat
  /\ \A n \in DOMAIN Now.sbn : Now.sbn[n].stamp <= clock

(* What Compute makes of the node's inputs (the singleton sets have TLC    *)
(* compute each once).                                                     *)
Wanted(c, n) ==
  CHOOSE config1 \in {Compute(input) : input \in {collectInput(d, n) : d \in {c}}} : TRUE

(* The ghost part of a cluster: inputs of the configs that wake no node.   *)
SeenBy(c) ==
  [relay |-> c.relay, auth |-> c.auth, names |-> DOMAIN c.sbn]

(* A cluster at rest.                                                      *)
StartCluster ==
  [sbn |-> Start.sbn, eob |-> Start.eob, policy |-> Start.policy, user |-> Start.user,
   group |-> Start.group, relay |-> Start.secrets.relay, secret |-> Start.secrets.secret,
   auth |-> Start.secrets.auth]

Init ==
  /\ obj = [kind \in Kinds |->
       Listed(IF kind = "sbn" THEN [n \in DOMAIN Start.sbn |->
                [Start.sbn[n] EXCEPT !.hash = Wanted(StartCluster, n)]]
              ELSE Start[kind])]
  /\ queue = [c \in Controllers |-> {}]
  /\ pass = [w \in {"policy", "user"} |-> Idle]
  /\ config = [n \in DOMAIN Start.sbn |-> Wanted(StartCluster, n)]
  /\ seen = [n \in DOMAIN Start.sbn |-> SeenBy(StartCluster)]
  /\ missed = {} /\ clock = 1 /\ script \in Scripts
-----------------------------------------------------------------------------
(* Writes.  The cached copy of x is the stored one if no event of x is     *)
(* outstanding; otherwise an update made from it is refused.               *)

Same(f, g, x) ==
  (x \in DOMAIN f <=> x \in DOMAIN g) /\ (x \in DOMAIN f => f[x] = g[x])

UpToDate(o, x) == \A i \in DOMAIN o.watch : Same(o.watch[i], o.cache, x)

FreshFor(kind, x) == UpToDate(obj[kind], x)

(* An update that changes nothing makes no event.                          *)
Store(kind, objects) ==
  IF objects = Stored(kind) THEN obj
  ELSE [obj EXCEPT ![kind] = Commit(@, objects)]

Update(kind, x, o) == Store(kind, With(Stored(kind), x, o))
-----------------------------------------------------------------------------
(* Watch handlers: what an event of x, from old to new, puts into which    *)
(* queue.  V is the cluster the caches show when the mappers run.          *)

(* Creations and deletions pass every predicate.                           *)
GenerationChanged(x, old, new) ==
  x \in DOMAIN old \cap DOMAIN new => old[x].gen # new[x].gen

LabelChanged(x, old, new) ==
  x \in DOMAIN old \cap DOMAIN new => old[x].labels # new[x].labels

(* The old and the new object are both mapped.                             *)
Versions(x, old, new) ==
  {f[x] : f \in {g \in {old, new} : x \in DOMAIN g}}

inbounds(V) == {n \in DOMAIN V.sbn : hasRole(V.sbn[n], "inbound")}

findMatchingInboundNodes(c, u) ==
  {n \in inbounds(c) : IsNodeAllowed(n, groupList(c, u, "allowed"), groupList(c, u, "denied"))}

sameRegionNodeMapper(V, x, o) == {n \in DOMAIN V.sbn \ {x} : V.sbn[n].region = o.region}

matchingProtocolNodeMapper(V) == inbounds(V)

usersInGroupToNodesMapper(V, g) ==
  IF \E u \in DOMAIN V.user : V.user[u].group = g THEN inbounds(V) ELSE {}

egressPolicyMapper(V, o) == {n \in inbounds(V) : Matches(o.ingress, n, V.sbn[n])}

inboundsAffectedByExternalOutbound(V, e, region) ==
  {n \in inbounds(V) :
     \/ region # "" /\ V.sbn[n].region = region
     \/ /\ e \in DOMAIN V.eob
        /\ \E p \in DOMAIN V.policy :
             /\ V.policy[p].action = "route"
             /\ Matches(V.policy[p].ingress, n, V.sbn[n])
             /\ Matches(V.policy[p].egress, e, V.eob[e])}

externalOutboundMapper(V, e, o) == inboundsAffectedByExternalOutbound(V, e, o.region)

credentialsSecretMapper(V, s) == {e \in DOMAIN V.eob : V.eob[e].ref = s}

externalCredentialSecretMapper(V, s) ==
  UNION {inboundsAffectedByExternalOutbound(V, e, V.eob[e].region) :
           e \in credentialsSecretMapper(V, s)}

policyMapper(V) == DOMAIN V.policy

Enqueue(requests) ==
  queue' = [c \in Controllers |-> IF c \in DOMAIN requests THEN queue[c] \cup requests[c]
                                                           ELSE queue[c]]

(* The oldest event of a kind: the cache moves on, then the handlers run.  *)
Receive(kind) ==
  /\ ~Fresh(obj[kind])
  /\ obj' = [obj EXCEPT ![kind] = Deliver(@)]
  /\ UNCHANGED <<pass, config, clock, script, seen>>

Changed(old, new) == {x \in DOMAIN old \cup DOMAIN new : ~Same(old, new, x)}

(* The User controller does not watch SingBoxNodes: for these users an     *)
(* inbound node came or went.                                              *)
UsersMiss ==
  missed' = missed \cup
    {<<"user", u>> : u \in {v \in DOMAIN View.user :
       findMatchingInboundNodes(View', v) # findMatchingInboundNodes(View, v)}}

(* Mutant: a changed label of a node wakes no policy.                      *)
labelsIgnored ==
  LET old  == obj.sbn.cache
      new  == Head(obj.sbn.watch)
      all  == Changed(old, new)
      spec == {x \in all : GenerationChanged(x, old, new)}
  IN  /\ Receive("sbn") /\ UsersMiss
      /\ Enqueue([node   |-> all \cup UNION {UNION {sameRegionNodeMapper(View', x, o) :
                                                      o \in Versions(x, old, new)} : x \in spec},
                  policy |-> IF spec # {} THEN policyMapper(View') ELSE {}])

singBoxNodeEvent ==
  LET old  == obj.sbn.cache
      new  == Head(obj.sbn.watch)
      all  == Changed(old, new)
      spec == {x \in all : GenerationChanged(x, old, new)}
  IN  /\ Receive("sbn") /\ UsersMiss
      /\ Enqueue([node   |-> all \cup UNION {UNION {sameRegionNodeMapper(View', x, o) :
                                                      o \in Versions(x, old, new)} : x \in spec},
                  policy |-> IF \E x \in all : x \in spec \/ LabelChanged(x, old, new)
                             THEN policyMapper(View') ELSE {}])

externalOutboundEvent ==
  LET old  == obj.eob.cache
      new  == Head(obj.eob.watch)
      all  == Changed(old, new)
      spec == {x \in all : GenerationChanged(x, old, new)}
  IN  /\ Receive("eob") /\ UNCHANGED missed
      /\ Enqueue([external |-> all,
                  node     |-> UNION {UNION {externalOutboundMapper(View', x, o) :
                                               o \in Versions(x, old, new)} : x \in spec},
                  policy   |-> IF \E x \in all : x \in spec \/ LabelChanged(x, old, new)
                               THEN policyMapper(View') ELSE {}])

egressPolicyEvent ==
  LET old  == obj.policy.cache
      new  == Head(obj.policy.watch)
      all  == Changed(old, new)
      spec == {x \in all : GenerationChanged(x, old, new)}
  IN  /\ Receive("policy") /\ UNCHANGED missed
      /\ Enqueue([policy |-> all,
                  node   |-> UNION {UNION {egressPolicyMapper(View', o) :
                                             o \in Versions(x, old, new)} : x \in spec}])

userEvent ==
  /\ Receive("user") /\ UNCHANGED missed
  /\ Enqueue([user |-> Changed(obj.user.cache, Head(obj.user.watch)),
              node |-> matchingProtocolNodeMapper(View')])

userGroupEvent ==
  LET all == Changed(obj.group.cache, Head(obj.group.watch))
  IN  /\ Receive("group") /\ UNCHANGED missed
      /\ Enqueue([group |-> all,
                  node  |-> UNION {usersInGroupToNodesMapper(View', x) : x \in all}])

(* Mutant: the ExternalOutbound controller does not watch Secrets.         *)
secretsForNodesOnly ==
  LET changed == Changed(obj.secrets.cache.secret, Head(obj.secrets.watch).secret)
  IN  /\ Receive("secrets") /\ UNCHANGED missed
      /\ Enqueue([node |-> UNION {externalCredentialSecretMapper(View', s) : s \in changed}])

(* Relay-credential and user Secrets are no ExternalOutbound's.            *)
secretEvent ==
  LET changed == Changed(obj.secrets.cache.secret, Head(obj.secrets.watch).secret)
  IN  /\ Receive("secrets") /\ UNCHANGED missed
      /\ Enqueue([external |-> UNION {credentialsSecretMapper(View', s) : s \in changed},
                  node     |-> UNION {externalCredentialSecretMapper(View', s) : s \in changed}])
-----------------------------------------------------------------------------
(* The SingBoxNode controller, up to the ConfigMap, and its status.        *)

needsCredential(c, n) == hasRole(c.sbn[n], "outbound") /\ n \notin DOMAIN c.relay

(* The Secret of a node without one.  If the cache merely does not show it *)
(* yet, Create fails and the pass is retried.                              *)
ensureCredential(c, n) ==
  LET secrets == Stored("secrets")
  IN  IF needsCredential(c, n)
      THEN [obj EXCEPT !.secrets =
              Commit(@, [secrets EXCEPT !.relay = With(secrets.relay, n, n)])]
      ELSE obj

nodeReport(n, rendered) == [View.sbn[n] EXCEPT !.hash = rendered, !.observed = View.sbn[n].gen]

(* Mutant: a node whose generation was observed is left alone.             *)
skipObserved(n) ==
  LET known    == n \in DOMAIN config /\ View.sbn[n].observed = View.sbn[n].gen
      rendered == IF known THEN config[n] ELSE Wanted(View, n)
  IN  /\ n \in queue.node \cap DOMAIN View.sbn
      /\ queue' = [queue EXCEPT !.node = @ \ {n}]
      /\ config' = With(config, n, rendered)
      /\ obj' = IF FreshFor("sbn", n) THEN Update("sbn", n, nodeReport(n, rendered)) ELSE obj
      /\ seen' = With(seen, n, SeenBy(View))
      /\ UNCHANGED <<pass, clock, script, missed>>

(* A status update from an outdated copy fails, and the pass is retried.   *)
nodePass(n) ==
  LET accepted == FreshFor("sbn", n)
  IN  /\ n \in queue.node \cap DOMAIN View.sbn
      /\ needsCredential(View, n) => n \notin DOMAIN Now.relay
      /\ UNCHANGED <<pass, clock, script>>
      /\ queue' = IF accepted THEN [queue EXCEPT !.node = @ \ {n}] ELSE queue
      /\ seen' = With(seen, n, SeenBy(View))
      /\ missed' = missed \ {<<"node", n>>}
      /\ \E rendered \in {Wanted(View, n)} :
           LET stored == ensureCredential(View, n)
               nodes  == With(Stored("sbn"), n, nodeReport(n, rendered))
           IN  /\ config' = With(config, n, rendered)
               /\ obj' = IF accepted /\ nodes # Stored("sbn")
                         THEN [stored EXCEPT !.sbn = Commit(@, nodes)] ELSE stored

(* The node is gone, and its ConfigMap with it.                            *)
nodeGone(n) ==
  /\ n \in queue.node \ DOMAIN View.sbn
  /\ queue' = [queue EXCEPT !.node = @ \ {n}]
  /\ config' = Without(config, n) /\ seen' = Without(seen, n)
  /\ missed' = missed \ {<<"node", n>>}
  /\ UNCHANGED <<obj, pass, clock, script>>
-----------------------------------------------------------------------------
(* The trigger both the EgressPolicy and the User controller pull: the     *)
(* cached node, with the second as annotation, is written back.  An update *)
(* of an outdated copy fails; a second trigger in the same second changes  *)
(* nothing and so wakes nobody.                                            *)

(* Mutant: the annotation is forced onto the node, whatever is stored.     *)
neverRefused(n) == n \notin DOMAIN View.sbn

triggerFails(n) == n \notin DOMAIN View.sbn \/ ~FreshFor("sbn", n)

(* Mutant: the stamp is rounded up to the next second.                     *)
roundedUp(n) ==
  IF triggerFails(n) THEN UNCHANGED <<obj, missed>>
  ELSE /\ obj' = Update("sbn", n, [View.sbn[n] EXCEPT !.stamp = clock + 1])
       /\ UNCHANGED missed

triggerNodeReconcile(n) ==
  IF triggerFails(n) THEN UNCHANGED <<obj, missed>>
  ELSE /\ obj' = Update("sbn", n, [View.sbn[n] EXCEPT !.stamp = clock])
       /\ missed' = IF View.sbn[n].stamp = clock /\ n \notin queue.node
                    THEN missed \cup {<<"node", n>>} ELSE missed

(* EgressPolicyReconciler.Reconcile: resolve, write the status, trigger.   *)

validatePolicyResolution(policy, ingresses, found) ==
  IF ~MatchValid(policy)                                   THEN "InvalidMatch"
  ELSE IF ingresses = {}                                   THEN "IngressNotFound"
  ELSE IF policy.action = "route" /\ found = {}            THEN "EgressNotFound"
  ELSE IF policy.action = "route" /\ uniqueTarget(found) = NoName THEN "EgressNotUnique"
  ELSE "Resolved"

policyResolution(c, p) ==
  LET policy    == c.policy[p]
      ingresses == egressPolicyMapper(c, policy)
      found     == egressCandidates(policy.egress, c.sbn, c.eob)
  IN  [key |-> p, at |-> "status", todo |-> ingresses, nodes |-> ingresses,
       resolved |-> uniqueTarget(found),
       reason |-> validatePolicyResolution(policy, ingresses, found)]

policyPass(p) ==
  /\ p \in queue.policy /\ pass.policy = Idle
  /\ queue' = [queue EXCEPT !.policy = @ \ {p}]
  /\ pass' = [pass EXCEPT !.policy =
       IF p \in DOMAIN View.policy THEN policyResolution(View, p) ELSE Idle]
  /\ UNCHANGED <<obj, config, clock, script, seen, missed>>

(* The pass ends, with an error the key is retried.                        *)
EndPolicyPass(err) ==
  /\ pass' = [pass EXCEPT !.policy = Idle]
  /\ queue' = IF err THEN [queue EXCEPT !.policy = @ \cup {pass.policy.key}] ELSE queue

policyReport(p) ==
  [View.policy[p] EXCEPT
     !.resolved = pass.policy.resolved, !.ingresses = pass.policy.nodes,
     !.reason   = pass.policy.reason,   !.observed  = View.policy[p].gen]

(* Mutant: with the status as it was, nothing is triggered.                *)
unchangedEndsPass ==
  LET p     == pass.policy.key
      equal == policyReport(p) = View.policy[p]
  IN  /\ pass.policy.at = "status"
      /\ IF p \notin DOMAIN View.policy \/ ~FreshFor("policy", p)
         THEN EndPolicyPass(TRUE) /\ UNCHANGED obj
         ELSE /\ obj' = Update("policy", p, policyReport(p))
              /\ IF equal \/ pass.policy.todo = {} THEN EndPolicyPass(FALSE)
                 ELSE pass' = [pass EXCEPT !.policy.at = "trigger"] /\ UNCHANGED queue
      /\ UNCHANGED <<config, clock, script, seen, missed>>

(* The status is written into the copy the cache holds now.                *)
policyUpdateStatus ==
  LET p     == pass.policy.key
      equal == policyReport(p) = View.policy[p]
  IN  /\ pass.policy.at = "status"
      /\ IF p \notin DOMAIN View.policy \/ (~equal /\ ~FreshFor("policy", p))
         THEN EndPolicyPass(TRUE) /\ UNCHANGED obj
         ELSE /\ obj' = IF equal THEN obj ELSE Update("policy", p, policyReport(p))
              /\ IF pass.policy.todo = {} THEN EndPolicyPass(FALSE)
                 ELSE pass' = [pass EXCEPT !.policy.at = "trigger"] /\ UNCHANGED queue
      /\ UNCHANGED <<config, clock, script, seen, missed>>

(* Ingress nodes in name order; the first failure ends the loop.           *)
policyTrigger ==
  /\ pass.policy.at = "trigger"
  /\ \E n \in pass.policy.todo :
       /\ \A m \in pass.policy.todo : n <= m
       /\ triggerNodeReconcile(n)
       /\ IF triggerFails(n) THEN EndPolicyPass(TRUE)
          ELSE IF pass.policy.todo = {n} THEN EndPolicyPass(FALSE)
          ELSE pass' = [pass EXCEPT !.policy.todo = @ \ {n}] /\ UNCHANGED queue
  /\ UNCHANGED <<config, clock, script, seen>>
-----------------------------------------------------------------------------
(* UserReconciler.Reconcile: trigger the nodes, write the status.          *)

userPass(u) ==
  LET nodes == findMatchingInboundNodes(View, u)
  IN  /\ u \in queue.user /\ pass.user = Idle
      /\ queue' = [queue EXCEPT !.user = @ \ {u}]
      /\ pass' = [pass EXCEPT !.user =
           IF u \in DOMAIN View.user
           THEN [Idle EXCEPT !.key = u, !.at = "trigger", !.todo = nodes, !.nodes = nodes]
           ELSE Idle]
      /\ missed' = missed \ {<<"user", u>>}
      /\ UNCHANGED <<obj, config, clock, script, seen>>

(* A failed trigger is logged.                                             *)
userTrigger ==
  /\ pass.user.at = "trigger"
  /\ \E n \in pass.user.todo :
       /\ triggerNodeReconcile(n)
       /\ pass' = [pass EXCEPT !.user.todo = @ \ {n}]
  /\ UNCHANGED <<queue, config, clock, script, seen>>

userReport(u) ==
  [View.user[u] EXCEPT
     !.active     = pass.user.nodes,
     !.observed   = View.user[u].gen,
     !.groupReady = IF View.user[u].group = NoName THEN @
                    ELSE IF View.user[u].group \in DOMAIN View.group THEN "true" ELSE "false"]

userUpdateStatus ==
  LET u    == pass.user.key
      fail == u \notin DOMAIN View.user \/ ~FreshFor("user", u)
  IN  /\ pass.user.at = "trigger" /\ pass.user.todo = {}
      /\ pass' = [pass EXCEPT !.user = Idle]
      /\ obj' = IF fail THEN obj ELSE Update("user", u, userReport(u))
      /\ queue' = IF fail THEN [queue EXCEPT !.user = @ \cup {u}] ELSE queue
      /\ UNCHANGED <<config, clock, script, seen, missed>>

Members(g) == {u \in DOMAIN View.user : View.user[u].group = g}

(* Mutant: a group that is gone tells nobody.                              *)
existingGroupsOnly(g) ==
  LET stored  == Stored("user")
      members == IF g \in DOMAIN View.group THEN Members(g) ELSE {}
  IN  /\ g \in queue.group
      /\ queue' = [queue EXCEPT !.group = @ \ {g}]
      /\ obj' = Store("user", [u \in DOMAIN stored |->
                  IF u \in members THEN [stored[u] EXCEPT !.stamp = clock] ELSE stored[u]])
      /\ UNCHANGED <<pass, config, clock, script, seen, missed>>

(* UserGroupReconciler.Reconcile: the users of the group, existing or not, *)
(* are patched with the second; a patch needs no current copy.             *)
userGroupPass(g) ==
  LET members == Members(g)
      stored  == Stored("user")
  IN  /\ g \in queue.group
      /\ queue' = [queue EXCEPT !.group = @ \ {g}]
      /\ obj' = Store("user", [u \in DOMAIN stored |->
                  IF u \in members THEN [stored[u] EXCEPT !.stamp = clock] ELSE stored[u]])
      /\ missed' = missed \cup {<<"user", u>> :
                     u \in {m \in members \cap DOMAIN stored : stored[m].stamp = clock}}
      /\ UNCHANGED <<pass, config, clock, script, seen>>

setAccepted(e, reason) ==
  [View.eob[e] EXCEPT !.accepted = reason, !.observed = View.eob[e].gen]

(* ExternalOutboundReconciler.Reconcile: the verdict, requeued on conflict.*)
externalPass(e) ==
  LET fail == ~FreshFor("eob", e)
  IN  /\ e \in queue.external
      /\ IF e \notin DOMAIN View.eob
         THEN queue' = [queue EXCEPT !.external = @ \ {e}] /\ UNCHANGED obj
         ELSE /\ obj' = IF fail THEN obj
                        ELSE Update("eob", e, setAccepted(e, acceptedReason(View, e)))
              /\ queue' = IF fail THEN queue ELSE [queue EXCEPT !.external = @ \ {e}]
      /\ UNCHANGED <<pass, config, clock, script, seen, missed>>
-----------------------------------------------------------------------------
(* Users, time and the informers' resync.                                  *)

Quiet ==
  /\ \A kind \in Kinds : Fresh(obj[kind])
  /\ \A c \in Controllers : queue[c] = {}
  /\ \A w \in DOMAIN pass : pass[w] = Idle

(* A spec edit moves the generation, an edit of labels or a Secret has     *)
(* none.  field "object" creates, "none" deletes.                          *)
Edited(objects, edit) ==
  CASE edit.field = "object" -> With(objects, edit.name, edit.value)
    [] edit.field = "none"   -> Without(objects, edit.name)
    [] edit.field = "labels" -> [objects EXCEPT ![edit.name].labels = edit.value]
    [] edit.field = "keys"   -> [objects EXCEPT ![edit.name].keys = edit.value]
    [] OTHER -> With(objects, edit.name, [objects[edit.name] EXCEPT ![edit.field] = edit.value,
                                                                    !.gen = @ + 1])

UserEdit ==
  \E edit \in script \ {Restarts} :
    LET kind == IF edit.kind \in Kinds THEN edit.kind ELSE "secrets"
        objs == Stored(kind)
        new  == IF kind = "secrets"
                THEN [objs EXCEPT ![edit.kind] = Edited(@, edit)] ELSE Edited(objs, edit)
        names == IF kind = "secrets" THEN DOMAIN objs[edit.kind] ELSE DOMAIN objs
    IN  /\ edit.field # "object" <=> edit.name \in names
        /\ obj' = Store(kind, new) /\ obj' # obj
        /\ script' = script \ {edit}
        /\ UNCHANGED <<queue, pass, config, clock, seen, missed>>

Tick ==
  /\ clock < MaxClock
  /\ clock' = clock + 1
  /\ UNCHANGED <<obj, queue, pass, config, script, seen, missed>>

(* Every ten hours an informer hands out its objects again, to the         *)
(* handlers without a predicate.  Only the SingBoxNodes' is modelled: no   *)
(* property counts on another.                                             *)
Resync ==
  /\ Quiet
  /\ Enqueue([node |-> DOMAIN View.sbn])
  /\ UNCHANGED <<obj, pass, config, clock, script, seen, missed>>

(* The operator stops in the midst of its passes and is started again: all *)
(* kinds are listed anew and every object is queued for its controller.    *)
(* ConfigMaps of nodes that went meanwhile are collected.  Restarts while  *)
(* no pass of several steps is under way are not followed: they only add   *)
(* keys to the queues.                                                     *)
Restart ==
  LET kept(f) == [n \in DOMAIN f \cap DOMAIN Now.sbn |-> f[n]]
  IN  /\ Restarts \in script /\ \E w \in DOMAIN pass : pass[w] # Idle
      /\ script' = script \ {Restarts}
      /\ obj' = [kind \in Kinds |-> Relist(obj[kind])]
      /\ queue' = [node |-> DOMAIN Now.sbn, policy |-> DOMAIN Now.policy,
                   external |-> DOMAIN Now.eob, user |-> DOMAIN Now.user,
                   group |-> DOMAIN Now.group]
      /\ pass' = [w \in DOMAIN pass |-> Idle]
      /\ config' = kept(config) /\ seen' = kept(seen)
      /\ UNCHANGED <<clock, missed>>

Watch == \/ singBoxNodeEvent \/ externalOutboundEvent \/ egressPolicyEvent
         \/ userEvent \/ userGroupEvent \/ secretEvent

NodeController   == \E n \in queue.node : nodePass(n) \/ nodeGone(n)
PolicyController == (\E p \in queue.policy : policyPass(p)) \/ policyUpdateStatus \/ policyTrigger
UserController   == (\E u \in queue.user : userPass(u)) \/ userTrigger \/ userUpdateStatus
GroupController  == \E g \in queue.group : userGroupPass(g)
ExternalController == \E e \in queue.external : externalPass(e)

Controller ==
  \/ PolicyController \/ UserController \/ GroupController \/ ExternalController
  \/ NodeController

Next == Watch \/ Controller \/ UserEdit \/ Tick \/ Resync \/ Restart

Spec == Init /\ [][Next]_vars

(* Informers deliver, some controller goes on if one can, and resyncs come.*)
Fairness == WF_vars(Watch) /\ WF_vars(Controller) /\ WF_vars(Resync)

FairSpec == Spec /\ Fairness
-----------------------------------------------------------------------------
(* The statuses a cluster calls for.                                       *)

PolicyStatusHolds(c, p) ==
  LET policy == c.policy[p]
      wanted == policyResolution(c, p)
  IN  /\ policy.resolved = wanted.resolved /\ policy.ingresses = wanted.nodes
      /\ policy.reason = wanted.reason /\ policy.observed = policy.gen

UserStatusHolds(c, u) ==
  LET user == c.user[u]
  IN  /\ user.active = findMatchingInboundNodes(c, u)
      /\ user.group # NoName =>
           user.groupReady = (IF user.group \in DOMAIN c.group THEN "true" ELSE "false")

(* The controllers have done their work when the story begins.             *)
ASSUME StartAtRest ==
  /\ \A p \in DOMAIN Start.policy : PolicyStatusHolds(StartCluster, p)
  /\ \A e \in DOMAIN Start.eob :
       Start.eob[e].accepted = acceptedReason(StartCluster, e)
  /\ \A u \in DOMAIN Start.user :
       UserStatusHolds(StartCluster, u) /\ Start.user[u].observed = Start.user[u].gen
-----------------------------------------------------------------------------
(* Properties.                                                             *)

(* The stored cluster, with the inputs that wake no node as n last saw     *)
(* them.                                                                   *)
AsSeen(n) == [Now EXCEPT !.relay = seen[n].relay, !.auth = seen[n].auth]

(* Users' part of the objects: names, specs, labels, and the generation    *)
(* that counts its edits.                                                  *)
SameSpecs(kind, old, new) ==
  /\ DOMAIN old = DOMAIN new
  /\ \A x \in DOMAIN old : \A f \in Editable[kind] \cup {"gen"} : old[x][f] = new[x][f]

KeepsEdits ==
  /\ \A kind \in Kinds \ {"secrets"} : SameSpecs(kind, Stored(kind), Stored(kind)')
  /\ \A n \in DOMAIN Now.relay : n \in DOMAIN Now'.relay /\ Now'.relay[n] = Now.relay[n]
  /\ Now'.secret = Now.secret /\ Now'.auth = Now.auth

(* No step but a user's own (those of script) undoes an edit: triggers and *)
(* status updates write whole cached copies back, which may be as old as   *)
(* the informer is behind, yet no spec, label or deletion is reverted; a   *)
(* group's patch of its users changes no more than the annotation; and a   *)
(* relay credential the cache does not show yet is not replaced.           *)
NoEditIsUndone == [][script' = script => KeepsEdits]_vars

(* At rest every node's config is the one its watched inputs ask for:      *)
(* whatever was edited, in whatever order the five informers told of it,   *)
(* some watch, mapper or trigger led to a pass that saw it, and the status *)
(* the policy's own pass wrote meanwhile.  Left out are the inputs no      *)
(* watch follows (relay credentials, user Secrets, a SingBoxNode elsewhere *)
(* taking an ExternalOutbound's name) and nodes one of whose triggers fell *)
(* into the second of an earlier one.                                      *)
ConfigsFollowTheirInputs ==
  Quiet =>
    \A n \in {m \in DOMAIN Now.sbn : <<"node", m>> \notin missed} :
      (DOMAIN Now.sbn \cup seen[n].names) \cap DOMAIN Now.eob = {}
        => config[n] = Wanted(AsSeen(n), n)

(* At rest the status of every EgressPolicy is its resolution against the  *)
(* stored nodes and outbounds, conflicts, retries and selectors emptied or *)
(* filled by a label notwithstanding.                                      *)
PolicyStatusesAreCurrent ==
  Quiet => \A p \in DOMAIN Now.policy : PolicyStatusHolds(Now, p)

(* At rest the Accepted condition is the verdict on the stored object and  *)
(* its Secret.  SingBoxNodes are not watched, so a name taken or given up  *)
(* since goes unnoticed.                                                   *)
VerdictsAreCurrent ==
  Quiet =>
    \A e \in DOMAIN Now.eob :
      \/ Now.eob[e].accepted = acceptedReason(Now, e)
      \/ "NameConflict" \in {Now.eob[e].accepted, acceptedReason(Now, e)}

(* At rest every User's status is about its current spec, and activeNodes  *)
(* and the UserGroupReady condition are the ones its group has now, also   *)
(* after the group's deletion, through the chain of UserGroup, User and    *)
(* status passes.  Left out are Users patched for the second time in one   *)
(* second, and Users for whom an inbound node came or went, since the User *)
(* controller does not watch SingBoxNodes.                                 *)
UserStatusesFollowGroups ==
  Quiet =>
    \A u \in DOMAIN Now.user :
      /\ Now.user[u].observed = Now.user[u].gen
      /\ <<"user", u>> \notin missed => UserStatusHolds(Now, u)

(* "Resolve against current resources, not potentially stale policy        *)
(* status": at rest, a policy's rule in a node's config leads to the       *)
(* target the policy has among the stored resources.                       *)
PolicyRulesFollowResources ==
  Quiet =>
    \A n \in DOMAIN Now.sbn : \A p \in DOMAIN config[n].policyRules :
      \A i \in DOMAIN config[n].policyRules[p] :
        config[n].policyRules[p][i].to = "outbound" =>
          config[n].policyRules[p][i].outbound
            = resolveEgressPolicy(Now.policy[p], Now.sbn, Now.eob).egress

(* The controllers, which wake each other, come to rest again and again,   *)
(* and with every node's config the one the stored cluster asks for: what  *)
(* a watch or a trigger missed, the resync makes good.                     *)
RestsWithCurrentConfigs ==
  []<>(Quiet /\ \A n \in DOMAIN Now.sbn : config[n] = Wanted(Now, n))
=============================================================================
