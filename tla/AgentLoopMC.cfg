SPECIFICATION FairSpec
CONSTANTS
  maxTurns = 2
  MaxBlocks = 2
  TokenCosts = {1, 2}
  MaxArtifacts = 1
  tokenLimit = 3
  Deployments <- MCDeployments
INVARIANTS
  TypeOK
  RequestsArePaired
  CutShortHistoryIsPaired
  RefusedNeverRun
  AbortBoundsWork
  TurnsReportedAreTurnsAnswered
PROPERTIES
  ImplementsProtocol
  Terminates
CHECK_DEADLOCK FALSE
