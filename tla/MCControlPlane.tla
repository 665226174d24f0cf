--------------------------- MODULE MCControlPlane ---------------------------
(***************************************************************************)
(* An inbound node 1, an outbound node 2 with a relay port and an External-*)
(* Outbound 3 in one region; policy 1 routes what node 1 receives to the   *)
(* outbound labelled gold, at first 3; one user in one group.  Users edit  *)
(* every kind, and a SingBoxNode in another region may take the name 3.    *)
(***************************************************************************)
EXTENDS ControlPlane

Node(roles, port) ==
  [roles |-> roles, region |-> "east", relayPort |-> port, allowedInbounds |-> {},
   allowedOutbounds |-> {}, protocols |-> {"hysteria2"}, inboundProtocol |-> "",
   labels |-> {}, gen |-> 1, observed |-> 1, stamp |-> 0, hash |-> [none |-> 0]]

External ==
  [region |-> "east", allowedInbounds |-> {}, protocol |-> "trojan", tls |-> "named",
   hysteria2 |-> "none", ref |-> 1, labels |-> {"gold"}, gen |-> 1, observed |-> 1,
   accepted |-> "Valid"]

Selector(names, labels) == [names |-> names, labels |-> labels]

Policy ==
  [ingress |-> Selector({}, {}), egress |-> Selector({}, {"gold"}), action |-> "route",
   priority |-> 1, fallback |-> FALSE, match |-> "fields", resolved |-> 3,
   ingresses |-> {1}, reason |-> "Resolved", gen |-> 1, observed |-> 1]

MCStart ==
  [sbn     |-> <<Node({"inbound"}, 0), Node({"outbound"}, 7)>>,
   eob     |-> [e \in {3} |-> External],
   policy  |-> <<Policy>>,
   user    |-> << [group |-> 1, active |-> {1}, groupReady |-> "true", gen |-> 1,
                   observed |-> 1, stamp |-> 0] >>,
   group   |-> << [allowed |-> {}, denied |-> {}, gen |-> 1] >>,
   secrets |-> [relay |-> [n \in {2} |-> 2], auth |-> <<1>>,
                secret |-> [s \in {1, 2} |-> [keys |-> {"password"}, goodMethod |-> TRUE]]]]

Edit(kind, name, field, value) == [kind |-> kind, name |-> name, field |-> field, value |-> value]

(* One change of every kind, and pairs that meet in a config, a status or  *)
(* a trigger.                                                              *)
MCScripts ==
  { {Edit("sbn", 2, "labels", {"gold"}), Edit("eob", 3, "labels", {})},
    {Edit("policy", 1, "egress", Selector({2}, {})), Edit("sbn", 2, "none", None)},
    {Edit("eob", 3, "ref", 2), Edit("secret", 1, "keys", {})},
    {Edit("user", 1, "group", NoName), Edit("group", 1, "denied", {1, 2})},
    {Edit("group", 1, "denied", {1}), Edit("group", 1, "none", None)},
    {Edit("eob", 3, "none", None), Restarts},
    {Edit("sbn", 1, "none", None), Edit("user", 1, "group", NoName)},
    {Edit("sbn", 3, "object", [Node({"outbound"}, 7) EXCEPT !.region = "west"])},
    {Edit("sbn", 1, "allowedOutbounds", {3}), Edit("policy", 1, "none", None),
     Edit("auth", 1, "none", None)},
    {Edit("sbn", 1, "roles", Roles), Edit("sbn", 2, "region", "west")} }
=============================================================================
