CONSTANTS
  None = None
  Cfgs = {a}
  Relays = {a}
  Hosts = {h, i}
  Peers = {p}
  Starts <- MoveStarts
SPECIFICATION Spec
INVARIANTS
  RunsOnNodeRef
CHECK_DEADLOCK FALSE
