------------------------------ MODULE MCConfigs ------------------------------
(***************************************************************************)
(* One user in one group, a dual-role node 1, an outbound node 2 with its  *)
(* relay port and an ExternalOutbound 3, in one region; policy 1 routes to *)
(* a label, policy 2 rejects.  Users may create an ExternalOutbound with   *)
(* the name of node 2.                                                     *)
(***************************************************************************)
EXTENDS Configs

Node(roles, port) ==
  [roles |-> roles, region |-> "east", relayPort |-> port, allowedInbounds |-> {},
   allowedOutbounds |-> {}, protocols |-> {"hysteria2", "vless"}, inboundProtocol |-> "",
   groups |-> {"hk"}, labels |-> {}, ready |-> "absent", entry |-> {"hysteria2"}]

External ==
  [region |-> "east", allowedInbounds |-> {}, protocol |-> "trojan", tls |-> "named",
   hysteria2 |-> "none", ref |-> 1, groups |-> {"jp"}, labels |-> {"gold"}]

Policy(action, priority) ==
  [ingress |-> [names |-> {}, labels |-> {}], egress |-> [names |-> {}, labels |-> {"gold"}],
   action |-> action, priority |-> priority, fallback |-> FALSE, match |-> "fields",
   ruleSets |-> {}, resolved |-> NoName]

MCStart ==
  [sbn    |-> <<Node(Roles, 0), Node({"outbound"}, 7)>>,
   eob    |-> [e \in {3} |-> External],
   policy |-> <<Policy("route", 2), Policy("reject", 1)>>,
   user   |-> << [group |-> 1] >>,
   group  |-> << [allowed |-> {}, denied |-> {}] >>,
   relay  |-> <<1>>,
   secret |-> << [keys |-> {"password"}, goodMethod |-> TRUE] >>,
   auth   |-> <<1>>]

MCNodeFields ==
  [roles            |-> {{"inbound"}, {"outbound"}, Roles},
   region           |-> {"west"},
   relayPort        |-> {0, 7},
   allowedInbounds  |-> {{2}},
   allowedOutbounds |-> {{2}, {3}},
   inboundProtocol  |-> {"vless"},
   protocols        |-> {{"vless"}},
   groups           |-> {{}, {"hk", "ai"}},
   labels           |-> {{"gold"}}]

MCExternalFields ==
  [region          |-> {"", "west"},
   allowedInbounds |-> {{2}},
   protocol        |-> {"shadowsocks", "hysteria2", "socks5"},
   tls             |-> {"none", "anonymous"},
   hysteria2       |-> {"plain", "obfs"},
   ref             |-> {NoName, 2},
   groups          |-> {{}, {"jp", "ai"}},
   labels          |-> {{}}]

MCPolicyFields ==
  [ingress  |-> {[names |-> {2}, labels |-> {}]},
   egress   |-> {[names |-> {1}, labels |-> {}], [names |-> {2}, labels |-> {}]},
   action   |-> {"reject", "route"},
   priority |-> {3},
   fallback |-> {TRUE},
   match    |-> {"empty"},
   ruleSets |-> {{"geosite"}}]

MCGroupFields == [allowed |-> {{3}}, denied |-> {{1}, {3}}]

MCNewExternals == [e \in {2} |-> [External EXCEPT !.labels = {}]]

MCSecrets ==
  {[keys |-> K, goodMethod |-> TRUE] :
     K \in {{"method", "password"}, {"username"}, {"password", "obfsPassword"}}}

MCTemplates ==
  {[rules |-> <<"sniff", "hijack-dns", "domestic", "proxy", "proxyMode", "other">>,
    sets |-> {"geosite"}, proxyDNS |-> TRUE, reserved |-> {}],
   [rules |-> <<"other">>, sets |-> {}, proxyDNS |-> FALSE, reserved |-> {}]}
=============================================================================
