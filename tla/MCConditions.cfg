SPECIFICATION Spec
CONSTANTS
  Reasons <- MCReasons
  MaxTime = 3
  Reports <- MCReports
INVARIANTS
  TypeOK
  ReadyExplains
PROPERTY
  TimeFollowsStatus
