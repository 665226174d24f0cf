-------------------------- MODULE ConfigFlowProofs --------------------------
(***************************************************************************)
(* That at rest every node's config is the one its watched inputs ask for: *)
(* a proof about ControlPlane, for any number of objects of every kind,    *)
(* any edits in any order and any number of seconds.                       *)
(***************************************************************************)
EXTENDS ControlPlaneProofs, ConfigLocalityProofs

-----------------------------------------------------------------------------
LEMMA WantedIs ==
  ASSUME NEW c, NEW n
  PROVE  Wanted(c, n) = Compute(collectInput(c, n))
BY DEF Wanted

(* The inductive invariant.                                                *)

(* A pass of the policy p is still to trigger node n, which it selects.    *)
OwedByPolicy(n, p) ==
  /\ p \in DOMAIN View.policy /\ n \in egressPolicyMapper(View, View.policy[p])
  /\ p \in queue.policy \/ (pass.policy.key = p /\ n \in pass.policy.todo)

Owed(n) ==
  \/ ~FreshFor("sbn", n) \/ n \in queue.node \/ <<"node", n>> \in missed
  \/ \E p : OwedByPolicy(n, p)

(* What the caches show, but for the inputs that wake nobody.              *)
Known(n) == [View EXCEPT !.relay = seen[n].relay, !.auth = seen[n].auth]

(* A node with nothing to come has the config its inputs ask for.          *)
ConfigInv ==
  \A n \in DOMAIN View.sbn :
    \/ Owed(n)
    \/ /\ n \in DOMAIN config
       /\ config[n] = Compute(InputBeside(Known(n), n, seen[n].names))

LEMMA KnownFields ==
  ASSUME NEW n
  PROVE  /\ Known(n).sbn = View.sbn /\ Known(n).eob = View.eob
         /\ Known(n).policy = View.policy /\ Known(n).user = View.user
         /\ Known(n).group = View.group /\ Known(n).secret = View.secret
         /\ Known(n).relay = seen[n].relay /\ Known(n).auth = seen[n].auth
BY DEF Known, View

LEMMA KnownNext ==
  ASSUME NEW n
  PROVE  /\ Known(n)'.sbn = View'.sbn /\ Known(n)'.eob = View'.eob
         /\ Known(n)'.policy = View'.policy /\ Known(n)'.user = View'.user
         /\ Known(n)'.group = View'.group /\ Known(n)'.secret = View'.secret
         /\ Known(n)'.relay = seen'[n].relay /\ Known(n)'.auth = seen'[n].auth
BY DEF Known, View

(* A step that leaves the node itself and the ghosts alone.                *)
LEMMA AlikeKnown ==
  ASSUME NEW n \in DOMAIN View'.sbn, n \in DOMAIN View.sbn, View'.sbn[n] = View.sbn[n],
         seen' = seen,
         hasRole(View.sbn[n], "inbound") => AlikeInbound(Known(n), Known(n)', n)
  PROVE  Alike(Known(n), Known(n)', n)
BY KnownFields, KnownNext DEF Alike

LEMMA NodeEventAlike ==
  ASSUME Histories, singBoxNodeEvent, NEW n \in DOMAIN View'.sbn, ~Owed(n)'
  PROVE  Alike(Known(n), Known(n)', n)
<1> DEFINE old   == obj.sbn.cache
           new   == Head(obj.sbn.watch)
           all   == Changed(old, new)
           spec  == {x \in all : GenerationChanged(x, old, new)}
           loud  == \E x \in all : x \in spec \/ LabelChanged(x, old, new)
           woken == all \cup UNION {UNION {sameRegionNodeMapper(View', x, o) :
                                             o \in Versions(x, old, new)} : x \in spec}
<1>0. {"node", "policy"} \subseteq Controllers /\ "sbn" \in Kinds
  BY DEF Controllers, Kinds
<1>1. /\ Receive("sbn") /\ woken \subseteq queue'.node
      /\ loud => DOMAIN View'.policy \subseteq queue'.policy
  BY <1>0, Enqueued DEF singBoxNodeEvent, policyMapper
<1>2. /\ View.sbn = old /\ View'.sbn = new /\ Follows("sbn", old, new) /\ seen' = seen
  BY <1>0, <1>1, ReceiveDelivers, Zenon DEF View, Receive
<1>3. /\ View'.eob = View.eob /\ View'.policy = View.policy /\ View'.user = View.user
      /\ View'.group = View.group /\ View'.secret = View.secret
  BY <1>0, <1>1, ReceiveView
<1>4. n \notin woken
  BY <1>1 DEF Owed
<1>5. n \in DOMAIN old /\ new[n] = old[n]
  BY <1>2, <1>4 DEF Changed, Same
<1>6. ASSUME hasRole(old[n], "inbound") PROVE AlikeInbound(Known(n), Known(n)', n)
  <2>1. NearAlike("sbn", old, new, old[n].region)
    <3> SUFFICES ASSUME NEW x \in DOMAIN old \cup DOMAIN new
                 PROVE  \/ /\ x \in DOMAIN old \cap DOMAIN new
                           /\ \A h \in SpecOf("sbn") : old[x][h] = new[x][h]
                        \/ /\ x \in DOMAIN old => old[x].region # old[n].region
                           /\ x \in DOMAIN new => new[x].region # old[n].region
      BY DEF NearAlike, Far, SpecOf
    <3>1. CASE x \notin all
      BY <3>1 DEF Changed, Same
    <3>2. CASE x \in all /\ x \notin spec
      BY <1>2, <3>2 DEF GenerationChanged, Follows, Watched
    <3>3. CASE x \in spec
      <4>1. x # n
        BY <1>4, <3>3
      <4>2. \A o \in Versions(x, old, new) : n \notin sameRegionNodeMapper(View', x, o)
        BY <1>4, <3>3
      <4>3. \A o \in Versions(x, old, new) : o.region # old[n].region
        BY <1>2, <1>5, <4>1, <4>2 DEF sameRegionNodeMapper
      <4>4. /\ x \in DOMAIN old => old[x] \in Versions(x, old, new)
            /\ x \in DOMAIN new => new[x] \in Versions(x, old, new)
        BY DEF Versions
      <4> QED BY <4>3, <4>4
    <3> QED BY <3>1, <3>2, <3>3
  <2>2. /\ selecting(Known(n), n) = selecting(Known(n)', n)
        /\ \A p \in selecting(Known(n), n) : p \in DOMAIN View'.policy /\
             n \in egressPolicyMapper(View', View'.policy[p])
    BY <1>2, <1>3, <1>5, <1>6, KnownFields, KnownNext
       DEF selecting, egressPolicyMapper, inbounds
  <2>3. selecting(Known(n), n) # {} => Agree(old, new, Editable["sbn"])
    <3> SUFFICES ASSUME NEW p \in selecting(Known(n), n) PROVE Agree(old, new, Editable["sbn"])
      OBVIOUS
    <3>1. p \notin queue'.policy
      BY <2>2 DEF Owed, OwedByPolicy
    <3>2. ~loud
      BY <1>1, <2>2, <3>1
    <3>3. Agree(obj["sbn"].cache, obj'["sbn"].cache, Editable["sbn"])
      BY <1>1, <3>2, StatusEventKeepsSpecs DEF Agree
    <3> QED BY <1>0, <1>1, <3>3, ReceiveDelivers
  <2> HIDE DEF old, new
  <2>4. /\ \A u : /\ groupList(Known(n), u, "allowed") = groupList(Known(n)', u, "allowed")
                  /\ groupList(Known(n), u, "denied") = groupList(Known(n)', u, "denied")
        /\ \A e : GetExternalCredentials(Known(n), e) = GetExternalCredentials(Known(n)', e)
    <3>1. /\ Known(n).eob = Known(n)'.eob /\ Known(n).secret = Known(n)'.secret
          /\ Known(n).user = Known(n)'.user /\ Known(n).group = Known(n)'.group
      BY <1>3, KnownFields, KnownNext, Zenon
    <3> QED BY <3>1, GroupsItself, CredentialsLocal
  <2>5. /\ Known(n).sbn = old /\ Known(n)'.sbn = new /\ Known(n).eob = Known(n)'.eob
        /\ Known(n).policy = Known(n)'.policy /\ Known(n).user = Known(n)'.user
    BY <1>2, <1>3, KnownFields, KnownNext, Zenon
  <2>6. /\ \A r : NearAlike("eob", Known(n).eob, Known(n)'.eob, r)
        /\ \A F : Agree(Known(n).eob, Known(n)'.eob, F)
    BY <2>5, NearItself, AgreeItself, Zenon
  <2> QED BY <2>1, <2>2, <2>3, <2>4, <2>5, <2>6 DEF AlikeInbound
<1> QED BY <1>2, <1>5, <1>6, AlikeKnown

LEMMA ExternalEventAlike ==
  ASSUME Histories, externalOutboundEvent, NEW n \in DOMAIN View'.sbn, ~Owed(n)'
  PROVE  Alike(Known(n), Known(n)', n)
<1> DEFINE old   == obj.eob.cache
           new   == Head(obj.eob.watch)
           all   == Changed(old, new)
           spec  == {x \in all : GenerationChanged(x, old, new)}
           loud  == \E x \in all : x \in spec \/ LabelChanged(x, old, new)
           woken == UNION {UNION {externalOutboundMapper(View', x, o) :
                                    o \in Versions(x, old, new)} : x \in spec}
<1>0. {"external", "node", "policy"} \subseteq Controllers /\ "eob" \in Kinds
  BY DEF Controllers, Kinds
<1>1. /\ Receive("eob") /\ woken \subseteq queue'.node
      /\ loud => DOMAIN View'.policy \subseteq queue'.policy
  BY <1>0, Enqueued DEF externalOutboundEvent, policyMapper
<1>2. /\ View.eob = old /\ View'.eob = new /\ Follows("eob", old, new) /\ seen' = seen
  BY <1>0, <1>1, ReceiveDelivers, ZenonT(30) DEF View, Receive
<1>3. /\ View'.sbn = View.sbn /\ View'.policy = View.policy /\ View'.user = View.user
      /\ View'.group = View.group /\ View'.secret = View.secret
  BY <1>0, <1>1, ReceiveView
<1>4. n \notin woken
  BY <1>1 DEF Owed
<1>5. ASSUME hasRole(View.sbn[n], "inbound") PROVE AlikeInbound(Known(n), Known(n)', n)
  <2> DEFINE region == View.sbn[n].region
  <2>1. NearAlike("eob", old, new, region)
    <3> SUFFICES ASSUME NEW x \in DOMAIN old \cup DOMAIN new
                 PROVE  \/ /\ x \in DOMAIN old \cap DOMAIN new
                           /\ \A h \in SpecOf("eob") : old[x][h] = new[x][h]
                        \/ /\ x \in DOMAIN old => Far("eob", old[x], region)
                           /\ x \in DOMAIN new => Far("eob", new[x], region)
      BY DEF NearAlike, SpecOf
    <3>1. CASE x \notin all
      BY <3>1 DEF Changed, Same
    <3>2. CASE x \in all /\ x \notin spec
      BY <1>2, <3>2 DEF GenerationChanged, Follows, Watched
    <3>3. CASE x \in spec
      <4>1. \A o \in Versions(x, old, new) : n \notin externalOutboundMapper(View', x, o)
        BY <1>4, <3>3
      <4>2. \A o \in Versions(x, old, new) : Far("eob", o, region)
        BY <1>3, <1>5, <4>1, Zenon
           DEF externalOutboundMapper, inboundsAffectedByExternalOutbound,
                                inbounds, Far
      <4>3. /\ x \in DOMAIN old => old[x] \in Versions(x, old, new)
            /\ x \in DOMAIN new => new[x] \in Versions(x, old, new)
        BY DEF Versions
      <4> QED BY <4>2, <4>3
    <3> QED BY <3>1, <3>2, <3>3
  <2>2. /\ selecting(Known(n), n) = selecting(Known(n)', n)
        /\ \A p \in selecting(Known(n), n) : p \in DOMAIN View'.policy /\
             n \in egressPolicyMapper(View', View'.policy[p])
    BY <1>3, <1>5, KnownFields, KnownNext
       DEF selecting, egressPolicyMapper, inbounds
  <2>3. selecting(Known(n), n) # {} => Agree(old, new, Editable["eob"])
    <3> SUFFICES ASSUME NEW p \in selecting(Known(n), n) PROVE Agree(old, new, Editable["eob"])
      OBVIOUS
    <3>1. p \notin queue'.policy
      BY <2>2 DEF Owed, OwedByPolicy
    <3>2. ~loud
      BY <1>1, <2>2, <3>1
    <3>3. Agree(obj["eob"].cache, obj'["eob"].cache, Editable["eob"])
      BY <1>1, <3>2, StatusEventKeepsSpecs DEF Agree
    <3> QED BY <1>0, <1>1, <3>3, ReceiveDelivers
  <2>4. \A e \in DOMAIN old \cap DOMAIN new :
          \/ Far("eob", old[e], region)
          \/ GetExternalCredentials(Known(n), e) = GetExternalCredentials(Known(n)', e)
    <3>1. "ref" \in Editable["eob"] \ {"labels"}
      BY DEF Editable
    <3>2. \A e \in DOMAIN old \cap DOMAIN new :
            Far("eob", old[e], region) \/ old[e].ref = new[e].ref
      BY <2>1, <3>1 DEF NearAlike
    <3>3. /\ Known(n).secret = Known(n)'.secret
          /\ Known(n).eob = old /\ Known(n)'.eob = new
      BY <1>2, <1>3, KnownFields, KnownNext
    <3>4. \A e : old[e].ref = new[e].ref
                   => GetExternalCredentials(Known(n), e) = GetExternalCredentials(Known(n)', e)
      BY <3>3, CredentialsLocal
    <3> HIDE DEF old, new
    <3> QED BY <3>2, <3>4, Zenon
  <2> HIDE DEF old, new
  <2>5. \A u : /\ groupList(Known(n), u, "allowed") = groupList(Known(n)', u, "allowed")
               /\ groupList(Known(n), u, "denied") = groupList(Known(n)', u, "denied")
    <3>1. Known(n).user = Known(n)'.user /\ Known(n).group = Known(n)'.group
      BY <1>3, KnownFields, KnownNext, Zenon
    <3> QED BY <3>1, GroupsItself
  <2>6. /\ Known(n).eob = old /\ Known(n)'.eob = new /\ Known(n).sbn = Known(n)'.sbn
        /\ Known(n).policy = Known(n)'.policy /\ Known(n).user = Known(n)'.user
        /\ Known(n).sbn = View.sbn
    BY <1>2, <1>3, KnownFields, KnownNext, Zenon
  <2>7. /\ \A r : NearAlike("sbn", Known(n).sbn, Known(n)'.sbn, r)
        /\ \A F : Agree(Known(n).sbn, Known(n)'.sbn, F)
    BY <2>6, NearItself, AgreeItself, Zenon
  <2> QED BY <2>1, <2>2, <2>3, <2>4, <2>5, <2>6, <2>7 DEF AlikeInbound
<1> QED BY <1>2, <1>3, <1>5, AlikeKnown

LEMMA PolicyEventAlike ==
  ASSUME Histories, egressPolicyEvent, NEW n \in DOMAIN View'.sbn, ~Owed(n)'
  PROVE  Alike(Known(n), Known(n)', n)
<1> DEFINE old   == obj.policy.cache
           new   == Head(obj.policy.watch)
           all   == Changed(old, new)
           spec  == {x \in all : GenerationChanged(x, old, new)}
           woken == UNION {UNION {egressPolicyMapper(View', o) :
                                    o \in Versions(x, old, new)} : x \in spec}
<1>0. {"node", "policy"} \subseteq Controllers /\ "policy" \in Kinds
  BY DEF Controllers, Kinds
<1>1. Receive("policy") /\ woken \subseteq queue'.node /\ all \subseteq queue'.policy
  BY <1>0, Enqueued DEF egressPolicyEvent
<1>2. /\ View.policy = old /\ View'.policy = new /\ Follows("policy", old, new) /\ seen' = seen
  BY <1>0, <1>1, ReceiveDelivers, ZenonT(30) DEF View, Receive
<1>3. /\ View'.sbn = View.sbn /\ View'.eob = View.eob /\ View'.user = View.user
      /\ View'.group = View.group /\ View'.secret = View.secret
  BY <1>0, <1>1, ReceiveView
<1>4. n \notin woken
  BY <1>1 DEF Owed
<1>5. ASSUME hasRole(View.sbn[n], "inbound") PROVE AlikeInbound(Known(n), Known(n)', n)
  <2>1. ASSUME NEW p \in all
        PROVE  p \notin selecting(Known(n), n) /\ p \notin selecting(Known(n)', n)
    <3> DEFINE hit(o) == Matches(o.ingress, n, View.sbn[n])
    <3>1. /\ p \in DOMAIN old => old[p] \in Versions(p, old, new)
          /\ p \in DOMAIN new => new[p] \in Versions(p, old, new)
      BY DEF Versions
    <3>2. CASE p \in spec
      <4>1. \A o \in Versions(p, old, new) : ~hit(o)
        BY <1>3, <1>4, <1>5, <3>2 DEF egressPolicyMapper, inbounds
      <4> QED BY <1>2, <1>3, <3>1, <4>1, KnownFields, KnownNext DEF selecting
    <3>3. CASE p \notin spec
      <4>1. p \in DOMAIN old /\ p \in DOMAIN new /\ old[p].gen = new[p].gen
        BY <3>3 DEF GenerationChanged
      <4>2. "ingress" \in SpecOf("policy") /\ "policy" \in Watched
        BY DEF SpecOf, Editable, Watched
      <4>3. old[p].ingress = new[p].ingress
        BY <1>2, <4>1, <4>2 DEF Follows
      <4>4. n \notin egressPolicyMapper(View', View'.policy[p])
        BY <1>1, <1>2, <4>1 DEF Owed, OwedByPolicy
      <4>5. ~hit(new[p])
        BY <1>2, <1>3, <1>5, <4>4 DEF egressPolicyMapper, inbounds
      <4> QED BY <1>2, <1>3, <4>3, <4>5, KnownFields, KnownNext DEF selecting
    <3> QED BY <3>2, <3>3
  <2>2. /\ selecting(Known(n), n) = selecting(Known(n)', n)
        /\ \A p \in selecting(Known(n), n) : View.policy[p] = View'.policy[p]
    BY <1>2, <1>3, <2>1, KnownFields, KnownNext DEF selecting, Changed, Same
  <2>3. /\ \A u : /\ groupList(Known(n), u, "allowed") = groupList(Known(n)', u, "allowed")
                  /\ groupList(Known(n), u, "denied") = groupList(Known(n)', u, "denied")
        /\ \A e : GetExternalCredentials(Known(n), e) = GetExternalCredentials(Known(n)', e)
    <3>1. /\ Known(n).eob = Known(n)'.eob /\ Known(n).secret = Known(n)'.secret
          /\ Known(n).user = Known(n)'.user /\ Known(n).group = Known(n)'.group
      BY <1>3, KnownFields, KnownNext, Zenon
    <3> QED BY <3>1, GroupsItself, CredentialsLocal
  <2>4. /\ Known(n).sbn = Known(n)'.sbn /\ Known(n).eob = Known(n)'.eob
        /\ Known(n).user = Known(n)'.user
        /\ Known(n).policy = View.policy /\ Known(n)'.policy = View'.policy
    BY <1>3, KnownFields, KnownNext, Zenon
  <2> QED BY <2>2, <2>3, <2>4, InboundItself
<1> QED BY <1>2, <1>3, <1>5, AlikeKnown

LEMMA UserEventAlike ==
  ASSUME Histories, userEvent, NEW n \in DOMAIN View'.sbn, ~Owed(n)'
  PROVE  Alike(Known(n), Known(n)', n)
<1>0. {"node", "user"} \subseteq Controllers /\ "user" \in Kinds
  BY DEF Controllers, Kinds
<1>1. Receive("user") /\ inbounds(View') \subseteq queue'.node
  BY <1>0, Enqueued DEF userEvent, matchingProtocolNodeMapper
<1>2. View'.sbn = View.sbn /\ seen' = seen
  BY <1>0, <1>1, ReceiveView, Zenon DEF Receive
<1>3. ~hasRole(View.sbn[n], "inbound")
  BY <1>1, <1>2 DEF Owed, inbounds
<1> QED BY <1>2, <1>3, AlikeKnown

LEMMA GroupEventAlike ==
  ASSUME Histories, userGroupEvent, NEW n \in DOMAIN View'.sbn, ~Owed(n)'
  PROVE  Alike(Known(n), Known(n)', n)
<1> DEFINE all   == Changed(obj.group.cache, Head(obj.group.watch))
           woken == UNION {usersInGroupToNodesMapper(View', x) : x \in all}
<1>0. {"node", "group"} \subseteq Controllers /\ "group" \in Kinds
  BY DEF Controllers, Kinds
<1>1. Receive("group") /\ woken \subseteq queue'.node
  BY <1>0, Enqueued DEF userGroupEvent
<1>2. View.group = obj.group.cache /\ View'.group = Head(obj.group.watch) /\ seen' = seen
  BY <1>0, <1>1, ReceiveDelivers, ZenonT(30) DEF View, Receive
<1>3. /\ View'.sbn = View.sbn /\ View'.eob = View.eob /\ View'.user = View.user
      /\ View'.policy = View.policy /\ View'.secret = View.secret
  BY <1>0, <1>1, ReceiveView
<1>4. n \notin woken
  BY <1>1 DEF Owed
<1>5. ASSUME hasRole(View.sbn[n], "inbound") PROVE AlikeInbound(Known(n), Known(n)', n)
  <2>1. \A u \in DOMAIN View.user : View.user[u].group \notin all
    BY <1>3, <1>4, <1>5 DEF usersInGroupToNodesMapper, inbounds
  <2>2. \A u \in DOMAIN View.user : Same(View.group, View'.group, View.user[u].group)
    <3>1. \A g : g \notin all => Same(View.group, View'.group, g)
      BY <1>2 DEF Changed, Same
    <3> HIDE DEF all
    <3> QED BY <2>1, <3>1
  <2>3. \A u \in DOMAIN View.user :
          /\ groupList(Known(n), u, "allowed") = groupList(Known(n)', u, "allowed")
          /\ groupList(Known(n), u, "denied") = groupList(Known(n)', u, "denied")
    BY <1>3, <2>2, GroupListLocal, KnownFields, KnownNext
  <2>4. /\ \A e : GetExternalCredentials(Known(n), e) = GetExternalCredentials(Known(n)', e)
        /\ selecting(Known(n), n) = selecting(Known(n)', n)
    <3>1. /\ Known(n).eob = Known(n)'.eob /\ Known(n).secret = Known(n)'.secret
          /\ Known(n).sbn = Known(n)'.sbn /\ Known(n).policy = Known(n)'.policy
      BY <1>3, KnownFields, KnownNext, Zenon
    <3> QED BY <3>1, CredentialsLocal, SelectingItself
  <2>5. /\ Known(n).sbn = Known(n)'.sbn /\ Known(n).eob = Known(n)'.eob
        /\ Known(n).policy = Known(n)'.policy /\ Known(n).user = Known(n)'.user
        /\ Known(n).user = View.user
    BY <1>3, KnownFields, KnownNext, Zenon
  <2> QED BY <2>3, <2>4, <2>5, InboundItself
<1> QED BY <1>2, <1>3, <1>5, AlikeKnown

LEMMA SecretEventAlike ==
  ASSUME Histories, secretEvent, NEW n \in DOMAIN View'.sbn, ~Owed(n)'
  PROVE  Alike(Known(n), Known(n)', n)
<1> DEFINE old   == obj.secrets.cache.secret
           new   == Head(obj.secrets.watch).secret
           woken == UNION {externalCredentialSecretMapper(View', s) : s \in Changed(old, new)}
<1>0. {"node", "external"} \subseteq Controllers /\ "secrets" \in Kinds
  BY DEF Controllers, Kinds
<1>1. Receive("secrets") /\ woken \subseteq queue'.node
  BY <1>0, Enqueued DEF secretEvent
<1>2. View.secret = old /\ View'.secret = new /\ seen' = seen
  BY <1>0, <1>1, ReceiveDelivers, ZenonT(30) DEF View, Receive
<1>3. /\ View'.sbn = View.sbn /\ View'.eob = View.eob /\ View'.user = View.user
      /\ View'.policy = View.policy /\ View'.group = View.group
  BY <1>0, <1>1, ReceiveView
<1>4. n \notin woken
  BY <1>1 DEF Owed
<1>5. ASSUME hasRole(View.sbn[n], "inbound") PROVE AlikeInbound(Known(n), Known(n)', n)
  <2>1. ASSUME NEW e \in DOMAIN View.eob, ~Far("eob", View.eob[e], View.sbn[n].region)
        PROVE  GetExternalCredentials(Known(n), e) = GetExternalCredentials(Known(n)', e)
    <3>1. n \in inboundsAffectedByExternalOutbound(View', e, View'.eob[e].region)
      BY <1>3, <1>5, <2>1, Zenon DEF inboundsAffectedByExternalOutbound, inbounds, Far
    <3>2. e \in credentialsSecretMapper(View', View.eob[e].ref)
      BY <1>3 DEF credentialsSecretMapper
    <3>3. n \in externalCredentialSecretMapper(View', View.eob[e].ref)
      BY <3>1, <3>2 DEF externalCredentialSecretMapper
    <3>4. View.eob[e].ref \notin Changed(old, new)
      BY <1>4, <3>3
    <3>5. Same(old, new, View.eob[e].ref)
      BY <3>4, ZenonT(30) DEF Changed, Same
    <3> QED BY <1>2, <1>3, <3>5, KnownFields, KnownNext, ZenonT(30)
               DEF GetExternalCredentials, Same
  <2>2. /\ \A u : /\ groupList(Known(n), u, "allowed") = groupList(Known(n)', u, "allowed")
                  /\ groupList(Known(n), u, "denied") = groupList(Known(n)', u, "denied")
        /\ selecting(Known(n), n) = selecting(Known(n)', n)
    <3>1. /\ Known(n).sbn = Known(n)'.sbn /\ Known(n).policy = Known(n)'.policy
          /\ Known(n).user = Known(n)'.user /\ Known(n).group = Known(n)'.group
      BY <1>3, KnownFields, KnownNext, Zenon
    <3> QED BY <3>1, GroupsItself, SelectingItself
  <2>3. /\ Known(n).sbn = Known(n)'.sbn /\ Known(n).eob = Known(n)'.eob
        /\ Known(n).policy = Known(n)'.policy /\ Known(n).user = Known(n)'.user
        /\ Known(n).sbn = View.sbn /\ Known(n).eob = View.eob
    BY <1>3, KnownFields, KnownNext, Zenon
  <2> QED BY <2>1, <2>2, <2>3, InboundItself
<1> QED BY <1>2, <1>3, <1>5, AlikeKnown

(* An event leaves what is owed to a node owed.                            *)
LEMMA OwedStays ==
  ASSUME Histories, Watch, NEW n \in DOMAIN View'.sbn, ~Owed(n)'
  PROVE  ~Owed(n) /\ n \in DOMAIN View.sbn
<1>0. /\ {"node", "policy", "external", "user", "group"} \subseteq Controllers
      /\ {"sbn", "eob", "policy", "user", "group", "secrets"} \subseteq Kinds
  BY DEF Controllers, Kinds
<1>1. /\ queue.node \subseteq queue'.node /\ queue.policy \subseteq queue'.policy
      /\ missed \subseteq missed' /\ pass' = pass
  <2>1. \E r : Enqueue(r)
    BY ZenonT(30)
       DEF Watch, singBoxNodeEvent, externalOutboundEvent, egressPolicyEvent, userEvent,
           userGroupEvent, secretEvent
  <2>2. (missed' = missed \/ UsersMiss) /\ pass' = pass
    BY Zenon DEF Watch, singBoxNodeEvent, externalOutboundEvent, egressPolicyEvent, userEvent,
           userGroupEvent, secretEvent, Receive
  <2> QED BY <1>0, <2>1, <2>2, Enqueued DEF UsersMiss
<1>2. /\ UpToDate(obj'["sbn"], n) /\ n \notin queue'.node
      /\ \A p \in DOMAIN View'.policy : n \in egressPolicyMapper(View', View'.policy[p]) =>
           p \notin queue'.policy /\ (pass'.policy.key = p => n \notin pass'.policy.todo)
  BY DEF Owed, OwedByPolicy, FreshFor
<1>3. ASSUME n \in DOMAIN View.sbn, View'.sbn[n] = View.sbn[n], UpToDate(obj["sbn"], n),
             \A p \in DOMAIN View.policy : n \in egressPolicyMapper(View, View.policy[p]) =>
               p \in DOMAIN View'.policy /\ n \in egressPolicyMapper(View', View'.policy[p])
      PROVE  ~Owed(n)
  BY <1>1, <1>2, <1>3 DEF Owed, OwedByPolicy, FreshFor
<1>4. CASE singBoxNodeEvent
  <2> DEFINE all == Changed(obj.sbn.cache, Head(obj.sbn.watch))
  <2>1. Receive("sbn") /\ all \subseteq queue'.node
    BY <1>0, <1>4, Enqueued DEF singBoxNodeEvent
  <2>2. View'.policy = View.policy /\ obj'["sbn"].cache = Head(obj["sbn"].watch)
    BY <1>0, <2>1, ReceiveDelivers, ReceiveView
  <2>3. UpToDate(obj["sbn"], n) /\ Same(obj["sbn"].cache, obj'["sbn"].cache, n)
    BY <1>0, <1>2, <2>1, <2>2, ReceiveDelivers
  <2>4. n \in DOMAIN View.sbn /\ View'.sbn[n] = View.sbn[n]
    BY <2>3 DEF View, Same
  <2>5. \A p \in DOMAIN View.policy : n \in egressPolicyMapper(View, View.policy[p]) =>
          n \in egressPolicyMapper(View', View'.policy[p])
    BY <2>2, <2>4 DEF egressPolicyMapper, inbounds
  <2> QED BY <1>3, <2>2, <2>3, <2>4, <2>5
<1>5. CASE egressPolicyEvent
  <2> DEFINE old  == obj.policy.cache
             new  == Head(obj.policy.watch)
             all  == Changed(old, new)
             spec == {x \in all : GenerationChanged(x, old, new)}
  <2>1. /\ Receive("policy")
        /\ UNION {UNION {egressPolicyMapper(View', o) : o \in Versions(x, old, new)} : x \in spec}
             \subseteq queue'.node
    BY <1>0, <1>5, Enqueued DEF egressPolicyEvent
  <2>2. /\ View'.sbn = View.sbn /\ obj'["sbn"] = obj["sbn"]
        /\ View.policy = old /\ View'.policy = new /\ Follows("policy", old, new)
    BY <1>0, <2>1, ReceiveDelivers, ReceiveView, ZenonT(30) DEF View
  <2>3. ASSUME NEW p \in DOMAIN View.policy, n \in egressPolicyMapper(View, View.policy[p])
        PROVE  p \in DOMAIN View'.policy /\ n \in egressPolicyMapper(View', View'.policy[p])
    <3>1. n \in egressPolicyMapper(View', old[p])
      BY <2>2, <2>3 DEF egressPolicyMapper, inbounds
    <3>2. p \notin spec
      <4>1. old[p] \in Versions(p, old, new)
        BY <2>2 DEF Versions
      <4> QED BY <1>2, <2>1, <3>1, <4>1
    <3>3. p \in DOMAIN new /\ old[p].ingress = new[p].ingress
      <4>1. CASE p \notin all
        BY <2>2, <4>1 DEF Changed, Same
      <4>2. CASE p \in all
        <5>1. p \in DOMAIN new /\ old[p].gen = new[p].gen
          BY <2>2, <3>2, <4>2 DEF GenerationChanged
        <5>2. "ingress" \in SpecOf("policy") /\ "policy" \in Watched
          BY DEF SpecOf, Editable, Watched
        <5> QED BY <2>2, <5>1, <5>2 DEF Follows
      <4> QED BY <4>1, <4>2
    <3> QED BY <2>2, <3>1, <3>3 DEF egressPolicyMapper
  <2> QED BY <1>2, <1>3, <2>2, <2>3
<1>6. CASE externalOutboundEvent \/ userEvent \/ userGroupEvent \/ secretEvent
  <2>1. PICK k \in {"eob", "user", "group", "secrets"} : Receive(k)
    BY <1>6, Zenon DEF externalOutboundEvent, userEvent, userGroupEvent, secretEvent
  <2>2. View'.sbn = View.sbn /\ obj'["sbn"] = obj["sbn"] /\ View'.policy = View.policy
    BY <1>0, <2>1, ReceiveView
  <2>3. \A o : egressPolicyMapper(View', o) = egressPolicyMapper(View, o)
    BY <2>2 DEF egressPolicyMapper, inbounds
  <2> QED BY <1>2, <1>3, <2>2, <2>3
<1> QED BY <1>4, <1>5, <1>6 DEF Watch

LEMMA ConfigWatch ==
  ASSUME Histories, ConfigInv, Watch
  PROVE  ConfigInv'
<1> SUFFICES ASSUME NEW n \in DOMAIN View'.sbn, ~Owed(n)'
             PROVE  /\ n \in DOMAIN config'
                    /\ config'[n] = Compute(InputBeside(Known(n)', n, seen'[n].names))
  BY DEF ConfigInv
<1>1. ~Owed(n) /\ n \in DOMAIN View.sbn
  BY OwedStays
<1>2. n \in DOMAIN config /\ config[n] = Compute(InputBeside(Known(n), n, seen[n].names))
  BY <1>1 DEF ConfigInv
<1>3. config' = config /\ seen' = seen
  BY Zenon DEF Watch, singBoxNodeEvent, externalOutboundEvent, egressPolicyEvent, userEvent,
         userGroupEvent, secretEvent, Receive
<1>4. Alike(Known(n), Known(n)', n)
  BY NodeEventAlike, ExternalEventAlike, PolicyEventAlike, UserEventAlike, GroupEventAlike,
     SecretEventAlike DEF Watch
<1> HIDE DEF Known
<1>5. Compute(InputBeside(Known(n), n, seen[n].names))
        = Compute(InputBeside(Known(n)', n, seen[n].names))
  BY <1>4, AlikeComputes
<1> QED BY <1>2, <1>3, <1>5

(* A node just triggered has an event to come, or is noted as missed.      *)
LEMMA TriggerOwes ==
  ASSUME TypeInv, NEW n \in DOMAIN View.sbn, triggerNodeReconcile(n), FreshFor("sbn", n),
         UpToDate(obj'["sbn"], n), n \notin queue.node
  PROVE  <<"node", n>> \in missed'
<1>0. Histories /\ "sbn" \in Kinds /\ View.sbn = obj["sbn"].cache
  BY TypeInvParts DEF Kinds, View
<1> DEFINE o == [View.sbn[n] EXCEPT !.stamp = clock]
<1>1. obj' = Update("sbn", n, o)
  BY DEF triggerNodeReconcile, triggerFails
<1>2. View.sbn[n] = o
  BY <1>0, <1>1, UpdateShown
<1>3. "stamp" \in DOMAIN View.sbn[n]
  BY <1>0, CachedObjects, ZenonT(30) DEF Objects, Kept
<1>4. View.sbn[n].stamp = clock
  BY <1>2, <1>3
<1> QED BY <1>4 DEF triggerNodeReconcile, triggerFails

(* What a pass of node n computes is right for what it saw.                *)
LEMMA PassIsRight ==
  ASSUME NEW n, View' = View, config' = With(config, n, Wanted(View, n)),
         seen' = With(seen, n, SeenBy(View))
  PROVE  /\ n \in DOMAIN config'
         /\ config'[n] = Compute(InputBeside(Known(n)', n, seen'[n].names))
<1>1. seen'[n].relay = View.relay /\ seen'[n].auth = View.auth /\ seen'[n].names = DOMAIN View.sbn
  BY DEF With, SeenBy
<1>2. Known(n)' = View
  <2>1. Known(n)' = [View EXCEPT !.relay = View.relay, !.auth = View.auth]
    BY <1>1 DEF Known
  <2>2. View = [f \in DOMAIN View |-> View[f]]
    BY DEF View
  <2> HIDE DEF View
  <2> QED BY <2>1, <2>2, ZenonT(30)
<1>3. InputBeside(View, n, seen'[n].names) = collectInput(View, n)
  BY <1>1, InputBesideAll
<1>4. n \in DOMAIN config' /\ config'[n] = Compute(collectInput(View, n))
  BY WantedIs DEF With
<1> QED BY <1>2, <1>3, <1>4

LEMMA ConfigQuietly ==
  ASSUME TypeInv, ConfigInv, Quietly
  PROVE  ConfigInv'
<1>0. /\ Histories /\ clock \in Nat /\ \E all \in Scripts : script \subseteq all
      /\ "sbn" \in Kinds /\ {"node", "policy"} \subseteq Controllers
      /\ queue \in [Controllers -> SUBSET Nat]
      /\ pass \in [{"policy", "user"} -> Passes] /\ pass.policy \in Passes
      /\ DOMAIN config = DOMAIN seen
  BY TypeInvParts DEF Controls, Kinds, Controllers
<1>1. Writes
  BY <1>0, QuietlyWrites
<1>2. View' = View /\ \A x : UpToDate(obj'["sbn"], x) => UpToDate(obj["sbn"], x)
  BY <1>0, <1>1, WritesKeepCaches
<1> SUFFICES ASSUME NEW n \in DOMAIN View.sbn, ~Owed(n)'
             PROVE  /\ n \in DOMAIN config'
                    /\ config'[n] = Compute(InputBeside(Known(n)', n, seen'[n].names))
  BY <1>2 DEF ConfigInv
<1> DEFINE picks(p)  == p \in DOMAIN View.policy /\ n \in egressPolicyMapper(View, View.policy[p])
           due(p)    == p \in queue.policy \/ (pass.policy.key = p /\ n \in pass.policy.todo)
           dueNow(p) == p \in queue'.policy \/ (pass'.policy.key = p /\ n \in pass'.policy.todo)
<1>3. /\ UpToDate(obj'["sbn"], n) /\ n \notin queue'.node /\ <<"node", n>> \notin missed'
      /\ \A p : picks(p) => ~dueNow(p)
  BY <1>2 DEF Owed, OwedByPolicy, FreshFor
<1>4. FreshFor("sbn", n)
  BY <1>2, <1>3 DEF FreshFor
<1>5. ASSUME n \in queue.node => n \in queue'.node,
             <<"node", n>> \in missed => <<"node", n>> \in missed',
             \A p : picks(p) /\ due(p) => dueNow(p),
             n \in DOMAIN config => /\ n \in DOMAIN config'
                                    /\ config'[n] = config[n] /\ seen'[n] = seen[n]
      PROVE  /\ n \in DOMAIN config'
             /\ config'[n] = Compute(InputBeside(Known(n)', n, seen'[n].names))
  <2>1. ~Owed(n)
    BY <1>3, <1>4, <1>5 DEF Owed, OwedByPolicy
  <2>2. n \in DOMAIN config /\ config[n] = Compute(InputBeside(Known(n), n, seen[n].names))
    BY <2>1 DEF ConfigInv
  <2>3. Known(n)' = Known(n)
    BY <1>2, <1>5, <2>2, Zenon DEF Known
  <2> QED BY <1>5, <2>2, <2>3
<1>6. CASE Tick \/ UserEdit \/ UNCHANGED vars
  BY <1>5, <1>6, Zenon DEF Tick, UserEdit, vars
<1>7. CASE Resync
  BY <1>0, <1>3, <1>7, Enqueued DEF Resync
<1>8. CASE ExternalController
  BY <1>0, <1>5, <1>8 DEF ExternalController, externalPass
<1>9. CASE GroupController
  BY <1>0, <1>5, <1>9 DEF GroupController, userGroupPass
<1>10. CASE UserController
  <2>1. /\ config' = config /\ seen' = seen /\ queue'.node = queue.node
        /\ queue'.policy = queue.policy /\ pass'.policy = pass.policy
    BY <1>0, <1>10, ZenonT(30) DEF UserController, userPass, userTrigger, userUpdateStatus
  <2>2. <<"node", n>> \in missed => <<"node", n>> \in missed'
    BY <1>10, ZenonT(30)
       DEF UserController, userPass, userTrigger, userUpdateStatus, triggerNodeReconcile
  <2> QED BY <1>5, <2>1, <2>2
<1>11. CASE NodeController
  <2>1. PICK m \in queue.node : nodePass(m) \/ nodeGone(m)
    BY <1>11 DEF NodeController
  <2>2. CASE m = n
    <3>1. nodePass(n)
      BY <2>1, <2>2 DEF nodeGone
    <3>2. config' = With(config, n, Wanted(View, n)) /\ seen' = With(seen, n, SeenBy(View))
      BY <3>1 DEF nodePass
    <3> QED BY <1>2, <3>2, PassIsRight
  <2>3. CASE m # n
    <3>1. /\ queue'.policy = queue.policy /\ pass' = pass
          /\ queue'.node \in {queue.node, queue.node \ {m}} /\ missed' = missed \ {<<"node", m>>}
      BY <1>0, <2>1 DEF nodePass, nodeGone
    <3>2. \/ config' = Without(config, m) /\ seen' = Without(seen, m)
          \/ \E v, w : config' = With(config, m, v) /\ seen' = With(seen, m, w)
      BY <2>1 DEF nodePass, nodeGone
    <3>3. n \in DOMAIN config => n \in DOMAIN config' /\ config'[n] = config[n] /\ seen'[n] = seen[n]
      BY <1>0, <2>3, <3>2 DEF With, Without
    <3> QED BY <1>5, <2>3, <3>1, <3>3
  <2> QED BY <2>2, <2>3
<1>12. CASE \E q \in queue.policy : policyPass(q)
  <2>1. PICK q \in queue.policy : policyPass(q)
    BY <1>12
  <2>2. /\ queue'.node = queue.node /\ queue'.policy = queue.policy \ {q} /\ missed' = missed
        /\ config' = config /\ seen' = seen /\ pass.policy.todo = {}
        /\ q \in DOMAIN View.policy => pass'.policy = policyResolution(View, q)
    BY <1>0, <2>1 DEF policyPass, Idle
  <2>3. /\ policyResolution(View, q).key = q
        /\ policyResolution(View, q).todo = egressPolicyMapper(View, View.policy[q])
    BY DEF policyResolution
  <2> QED BY <1>5, <2>2, <2>3
<1>13. CASE policyUpdateStatus
  <2>1. config' = config /\ seen' = seen /\ missed' = missed
    BY <1>13 DEF policyUpdateStatus
  <2>2. \/ EndPolicyPass(TRUE)
        \/ EndPolicyPass(FALSE) /\ pass.policy.todo = {}
        \/ pass' = [pass EXCEPT !.policy.at = "trigger"] /\ queue' = queue
    BY <1>13, Zenon DEF policyUpdateStatus
  <2>3. CASE EndPolicyPass(TRUE)
    <3>1. queue'.node = queue.node /\ queue'.policy = queue.policy \cup {pass.policy.key}
      BY <1>0, <2>3 DEF EndPolicyPass
    <3> QED BY <1>5, <2>1, <3>1
  <2>4. CASE EndPolicyPass(FALSE) /\ pass.policy.todo = {}
    BY <1>5, <2>1, <2>4 DEF EndPolicyPass
  <2>5. CASE pass' = [pass EXCEPT !.policy.at = "trigger"] /\ queue' = queue
    <3>1. pass'.policy.key = pass.policy.key /\ pass'.policy.todo = pass.policy.todo
      BY <1>0, <2>5 DEF Passes
    <3> QED BY <1>5, <2>1, <2>5, <3>1
  <2> QED BY <2>2, <2>3, <2>4, <2>5, Zenon
<1>14. CASE policyTrigger
  <2>1. PICK m \in pass.policy.todo :
          /\ triggerNodeReconcile(m)
          /\ IF triggerFails(m) THEN EndPolicyPass(TRUE)
             ELSE IF pass.policy.todo = {m} THEN EndPolicyPass(FALSE)
             ELSE pass' = [pass EXCEPT !.policy.todo = @ \ {m}] /\ UNCHANGED queue
    BY <1>14, ZenonT(30) DEF policyTrigger
  <2>2. /\ config' = config /\ seen' = seen
        /\ <<"node", n>> \in missed => <<"node", n>> \in missed'
    BY <1>14, <2>1 DEF policyTrigger, triggerNodeReconcile
  <2>3. queue'.node = queue.node /\ queue.policy \subseteq queue'.policy
    BY <1>0, <2>1 DEF EndPolicyPass
  <2>4. m # n
    BY <1>3, <1>4, <2>1, <2>3, TriggerOwes
  <2>5. ASSUME NEW p, pass.policy.key = p, n \in pass.policy.todo PROVE dueNow(p)
    <3>1. CASE EndPolicyPass(TRUE)
      BY <1>0, <2>5, <3>1 DEF EndPolicyPass
    <3>2. CASE pass' = [pass EXCEPT !.policy.todo = @ \ {m}]
      <4>1. pass'.policy = [pass.policy EXCEPT !.todo = pass.policy.todo \ {m}]
        BY <1>0, <3>2
      <4>2. pass'.policy.key = pass.policy.key /\ pass'.policy.todo = pass.policy.todo \ {m}
        BY <1>0, <4>1 DEF Passes
      <4> QED BY <2>4, <2>5, <4>2
    <3> QED BY <2>1, <2>4, <2>5, <3>1, <3>2, ZenonT(30)
  <2> QED BY <1>5, <2>2, <2>3, <2>5
<1> QED BY <1>6, <1>7, <1>8, <1>9, <1>10, <1>11, <1>12, <1>13, <1>14
        DEF Quietly, Controller, PolicyController

(* Config and caches at first: the ConfigMap rendered from the cluster the *)
(* story begins with.                                                      *)
LEMMA ConfigInit ==
  ASSUME Init
  PROVE  ConfigInv
<1> SUFFICES ASSUME NEW n \in DOMAIN View.sbn
             PROVE  /\ n \in DOMAIN config
                    /\ config[n] = Compute(InputBeside(Known(n), n, seen[n].names))
  BY DEF ConfigInv
<1> DEFINE c == StartCluster
<1>1. /\ View.eob = c.eob /\ View.policy = c.policy /\ View.user = c.user
      /\ View.group = c.group /\ View.secret = c.secret
      /\ View.sbn = [m \in DOMAIN c.sbn |-> [c.sbn[m] EXCEPT !.hash = Wanted(c, m)]]
      /\ c.sbn = Start["sbn"]
  BY AtFirst DEF StartCluster
<1>2. /\ n \in DOMAIN config /\ config[n] = Wanted(c, n)
      /\ seen[n].relay = c.relay /\ seen[n].auth = c.auth /\ seen[n].names = DOMAIN c.sbn
  BY <1>1 DEF Init, SeenBy
<1>3. Agree(c.sbn, View.sbn, Editable["sbn"])
  <2>1. Objects("sbn", c.sbn)
    BY <1>1, StartAssumption DEF Kinds
  <2>2. \A m \in DOMAIN c.sbn : Editable["sbn"] \subseteq DOMAIN c.sbn[m]
    BY <2>1 DEF Objects, Kept
  <2>3. "hash" \notin Editable["sbn"]
    BY DEF Editable
  <2> HIDE DEF c
  <2> QED BY <1>1, <2>2, <2>3 DEF Agree
<1> HIDE DEF c
<1>4. NearAlike("sbn", c.sbn, View.sbn, c.sbn[n].region)
  BY <1>3 DEF Agree, NearAlike, SpecOf
<1>5. c.sbn[n].roles = View.sbn[n].roles /\ n \in DOMAIN c.sbn
  BY <1>1, <1>3 DEF Agree, Editable
<1>6. selecting(c, n) = selecting(Known(n), n)
  <2>1. c.sbn[n].labels = View.sbn[n].labels
    BY <1>1, <1>3 DEF Agree, Editable
  <2> QED BY <1>1, <2>1, KnownFields, Zenon DEF selecting, Matches
<1>7. /\ \A u : /\ groupList(c, u, "allowed") = groupList(Known(n), u, "allowed")
                /\ groupList(c, u, "denied") = groupList(Known(n), u, "denied")
      /\ \A e : GetExternalCredentials(c, e) = GetExternalCredentials(Known(n), e)
  BY <1>1, KnownFields DEF groupList, GetExternalCredentials
<1>8. AlikeInbound(c, Known(n), n)
  BY <1>1, <1>3, <1>4, <1>6, <1>7, KnownFields, NearItself, AgreeItself
     DEF AlikeInbound
<1>9. Alike(c, Known(n), n)
  <2>1. \A f \in Editable["sbn"] : c.sbn[n][f] = Known(n).sbn[n][f]
    BY <1>3, <1>5, KnownFields DEF Agree
  <2>2. n \in DOMAIN Known(n).sbn /\ c.relay = Known(n).relay /\ c.auth = Known(n).auth
    BY <1>2, KnownFields
  <2> QED BY <1>5, <1>8, <2>1, <2>2 DEF Alike
<1>10. InputBeside(c, n, seen[n].names) = collectInput(c, n)
  BY <1>2, InputBesideAll
<1> QED BY <1>2, <1>9, <1>10, WantedIs, AlikeComputes

(* Once the controllers rest, the ConfigMap of every node is the one its   *)
(* spec, the nodes and outbounds of its region, the Users and their        *)
(* groups, the outbounds' Secrets and the EgressPolicies that select it    *)
(* ask for: a change of any of them, delivered in any order, wakes the     *)
(* node through a mapper of SetupWithManager or through the trigger of a   *)
(* policy that is itself woken, and a refused write is retried.  Excepted  *)
(* are nodes whose trigger fell into the second of an earlier one.         *)
THEOREM ConfigsFollow == Spec => []ConfigsFollowTheirInputs
<1>1. TypeInv /\ ConfigInv /\ [Next]_vars => ConfigInv'
  <2> SUFFICES ASSUME TypeInv, ConfigInv, [Next]_vars PROVE ConfigInv'
    OBVIOUS
  <2>1. CASE Restart
    <3>1. View' = Now /\ queue'.node = DOMAIN Now.sbn
      BY <2>1, RestartLists DEF TypeInv, Restart
    <3> QED BY <3>1, ZenonT(30) DEF ConfigInv, Owed
  <2> QED BY <2>1, TypeInvParts, ConfigQuietly, ConfigWatch DEF Next, Quietly
<1>2. TypeInv /\ ConfigInv => ConfigsFollowTheirInputs
  <2> SUFFICES ASSUME TypeInv, ConfigInv, Quiet,
                      NEW n \in DOMAIN Now.sbn, <<"node", n>> \notin missed,
                      (DOMAIN Now.sbn \cup seen[n].names) \cap DOMAIN Now.eob = {}
               PROVE  config[n] = Wanted(AsSeen(n), n)
    BY DEF ConfigsFollowTheirInputs
  <2>1. View = Now /\ FreshFor("sbn", n) /\ queue.node = {} /\ queue.policy = {}
    BY AtRest DEF TypeInv, Kinds, Quiet, Controllers
  <2>2. pass.policy.todo = {}
    BY DEF Quiet, Idle, TypeInv, TypeOK
  <2>3. ~Owed(n)
    BY <2>1, <2>2 DEF Owed, OwedByPolicy
  <2>4. config[n] = Compute(InputBeside(Known(n), n, seen[n].names)) /\ Known(n) = AsSeen(n)
    BY <2>1, <2>3, Zenon DEF ConfigInv, Known, AsSeen
  <2>5. DOMAIN Known(n).eob \ seen[n].names = DOMAIN Known(n).eob \ DOMAIN Known(n).sbn
    BY <2>1, KnownFields
  <2>6. InputBeside(Known(n), n, seen[n].names) = collectInput(Known(n), n)
    BY <2>5, InputBesideAll
  <2> QED BY <2>4, <2>6, WantedIs
<1> QED BY <1>1, <1>2, ConfigInit, TypeInvariance, PTL DEF Spec
=============================================================================
