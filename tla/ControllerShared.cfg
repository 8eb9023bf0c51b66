SPECIFICATION Spec
CONSTANTS
  Names = {n1, n2}
  Services = {s1}
  Deployed <- AllDeployed
  Secrets = {x1}
  Wants = {a}
  Metas = {m}
  Reasons <- MCReasons
  Reports = {}
  NoSecret = NoSecret
  Nil = Nil
  Missing = Missing
  MaxAttempts = 1
  MaxTime = 1
  MaxEdits = 3
  MaxLag = 1
  MaxFaults = 0
  NameReuse = FALSE
  Intruders = FALSE
SYMMETRY Symmetry
INVARIANT
  RestsOnlyWhenBound
CHECK_DEADLOCK FALSE
