------------------------------ MODULE Admission ------------------------------
(***************************************************************************)
(* What a resource must satisfy to be stored (the validating webhooks) and *)
(* the verdict the ExternalOutbound controller writes into the Accepted    *)
(* condition.  An ExternalOutbound's tls is "none", "named" (a serverName),*)
(* "insecure" or "anonymous" (neither); its hysteria2 options are "none",  *)
(* "plain" or "obfs"; the method of a shadowsocks Secret is supported or   *)
(* not (goodMethod).  Checks on fields the configs do not depend on        *)
(* (addresses, ports, duplicate list entries, name syntax) are left out.   *)
(***************************************************************************)
EXTENDS Cluster

(* At least one role, no empty name in a list, and a port for the protocol *)
(* of an inbound node.                                                     *)
validateSingBoxNode(node) ==
  /\ node.roles # {} /\ node.roles \subseteq Roles
  /\ NoName \notin node.allowedInbounds \cup node.allowedOutbounds
  /\ hasRole(node, "inbound") => EffectiveInboundProtocol(node) \in node.protocols

NeedsTLS     == {"trojan", "hysteria2", "tuic", "anytls"}
ForbidsTLS   == {"socks5", "shadowsocks"}
OptionalAuth == {"socks5", "http"}

(* Mutant: any tls block satisfies the protocols that need TLS.            *)
tlsWithoutName(eob) ==
  /\ eob.protocol \in NeedsTLS => eob.tls # "none"
  /\ eob.protocol \in ForbidsTLS => eob.tls = "none"
  /\ eob.hysteria2 # "none" => eob.protocol = "hysteria2"
  /\ eob.ref = NoName => eob.protocol \in OptionalAuth

validateExternalOutbound(eob) ==
  /\ eob.protocol \in NeedsTLS => eob.tls \in {"named", "insecure"}
  /\ eob.protocol \in ForbidsTLS => eob.tls = "none"
  /\ eob.hysteria2 # "none" => eob.protocol = "hysteria2"
  /\ eob.ref = NoName => eob.protocol \in OptionalAuth

validateEgressPolicy(policy) ==
  /\ policy.action \in {"route", "reject"}
  /\ MatchValid(policy)
  /\ policy.action = "route" => policy.egress.names # {} \/ policy.egress.labels # {}
-----------------------------------------------------------------------------
(* ExternalOutboundReconciler: the first violation found is the verdict.   *)

specViolation(eob) ==
  IF eob.protocol \in NeedsTLS /\ eob.tls \in {"none", "anonymous"} THEN "InvalidSpec"
  ELSE IF eob.protocol \in ForbidsTLS /\ eob.tls # "none"           THEN "InvalidSpec"
  ELSE IF eob.hysteria2 # "none" /\ eob.protocol # "hysteria2"      THEN "InvalidSpec"
  ELSE IF eob.ref = NoName /\ eob.protocol \notin OptionalAuth      THEN "InvalidSpec"
  ELSE "Valid"

nameConflict(c, e) == IF e \in DOMAIN c.sbn THEN "NameConflict" ELSE "Valid"

credentialViolation(c, e) ==
  LET eob    == c.eob[e]
      secret == c.secret[eob.ref]
  IN  IF eob.ref = NoName THEN "Valid"
      ELSE IF eob.ref \notin DOMAIN c.secret THEN "SecretNotFound"
      ELSE IF eob.protocol \in OptionalAuth
      THEN (IF ("username" \in secret.keys) # ("password" \in secret.keys)
            THEN "SecretKeyMissing" ELSE "Valid")
      ELSE IF ~(requiredCredentialKeys(eob) \subseteq secret.keys) THEN "SecretKeyMissing"
      ELSE IF eob.protocol = "shadowsocks" /\ ~secret.goodMethod   THEN "InvalidMethod"
      ELSE "Valid"

acceptedReason(c, e) ==
  IF specViolation(c.eob[e]) # "Valid" THEN specViolation(c.eob[e])
  ELSE IF nameConflict(c, e) # "Valid" THEN nameConflict(c, e)
  ELSE credentialViolation(c, e)
=============================================================================
