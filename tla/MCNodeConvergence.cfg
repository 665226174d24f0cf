CONSTANTS
  None = None
  Cfgs = {a, b}
  Relays = {a}
  Hosts = {h}
  Peers = {p, q}
  Starts <- ConvergenceStarts
SPECIFICATION FairSpec
PROPERTIES
  EventuallyConverged
CHECK_DEADLOCK FALSE
