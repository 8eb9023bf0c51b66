SPECIFICATION FairSpec
CONSTANTS
  Names = {n1}
  Services = {s1}
  Deployed <- AllDeployed
  Secrets = {x1}
  Wants = {a, b}
  Metas = {m}
  Reasons <- MCReasons
  Reports <- MCReports
  NoSecret = NoSecret
  Nil = Nil
  Missing = Missing
  MaxAttempts = 2
  MaxTime = 0
  MaxEdits = 3
  MaxLag = 1
  MaxFaults = 1
  NameReuse = TRUE
  Intruders = TRUE
INVARIANTS
  TypeOK
  ReadyAggregates
  ObservedWithinGeneration
  RestsOnlyWhenBound
PROPERTIES
  WritesOnlyOwnProjections
  Converges
CHECK_DEADLOCK FALSE
