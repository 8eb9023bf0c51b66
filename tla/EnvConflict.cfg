SPECIFICATION Spec
CONSTANTS
  Bindings <- MCBindings
  Projections <- MCProjections
  Services <- MCServices
  Name = "object"
  Nil = Nil
  Targets = {"named", "neither"}
  MaxEnv = 3
  MaxRequests = 1
INVARIANTS
  ConflictsAreReported
CHECK_DEADLOCK FALSE
