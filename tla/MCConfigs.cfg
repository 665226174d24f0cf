SPECIFICATION Spec
CONSTANTS
  Start <- MCStart
  NodeFields <- MCNodeFields
  ExternalFields <- MCExternalFields
  PolicyFields <- MCPolicyFields
  GroupFields <- MCGroupFields
  NewExternals <- MCNewExternals
  Secrets <- MCSecrets
  Templates <- MCTemplates
  MaxEdits = 3
INVARIANTS
  TypeOK
  RulesHaveOutbounds
  
  RoutedUsersAreCounted
  AcceptedIsRendered
  AdmittedSpecsAreValid
  AdvertisedPathsAreServed
  
CHECK_DEADLOCK FALSE
