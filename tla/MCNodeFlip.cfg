CONSTANTS
  None = None
  Cfgs = {a, b}
  Relays = {a, b}
  Hosts = {h}
  Peers = {p}
  Starts <- FlipStarts
SPECIFICATION Spec
INVARIANTS
  ConfigHashIsCurrent
CHECK_DEADLOCK FALSE
