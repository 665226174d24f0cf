CONSTANTS
  Nodes = {n1}
  Dead = {}
  Users = {u}
  Outs = {o}
  Bytes = {b1, b2}
  Replicas = {r1}
  Times = {t1, t2, t3}
  None = None
  Limits <- WriteLimits
SPECIFICATION Spec
INVARIANTS AtLeastOnce
