CONSTANTS
  Nodes = {n1, n2}
  Dead = {n2}
  Users = {u}
  Outs = {o}
  Bytes = {b1}
  Replicas = {r1, r2}
  Times = {t1, t2, t3}
  None = None
  Limits <- OutageLimits
SPECIFICATION FairSpec
PROPERTIES EventuallyCollected
