CONSTANTS
  Nodes = {n1, n2}
  Dead = {}
  Users = {u}
  Outs = {o1, o2}
  Bytes = {b1, b2}
  Replicas = {r1, r2}
  Times = {t1, t2, t3, t4}
  None = None
  Limits <- FaultLimits
SPECIFICATION Spec
SYMMETRY Symmetry
INVARIANTS TypeOK CountedOnce BilledToItsUser AckedIsStored
PROPERTIES ImplementsAccounting
