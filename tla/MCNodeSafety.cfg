CONSTANTS
  None = None
  Cfgs = {a, b}
  Relays = {a, b}
  Hosts = {h}
  Peers = {p}
  Starts <- SafetyStarts
SPECIFICATION Spec
SYMMETRY CfgSymmetry
INVARIANTS
  TypeOK
  RolloutOrder
  NoLostEdit
  NoLostWakeup
  NoStuckDeletion
PROPERTIES
  StatusNeverGoesBack
CHECK_DEADLOCK FALSE
