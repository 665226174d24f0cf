SPECIFICATION FairSpec
CONSTANTS
  None = None
  Start <- MCStart
  Scripts <- MCScripts
  MaxClock = 2
INVARIANTS
  TypeOK
  ConfigsFollowTheirInputs
  PolicyStatusesAreCurrent
  
  
PROPERTIES
  NoEditIsUndone
  RestsWithCurrentConfigs
