SPECIFICATION Spec
CONSTANTS
  None = None
  Start <- MCStart
  Scripts <- MCScripts
  MaxClock = 2
INVARIANT PolicyRulesFollowResources
