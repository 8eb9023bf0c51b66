SPECIFICATION Spec
CONSTANTS
  Bindings <- MCBindings
  Projections <- MCProjections
  Services <- MCServices
  Name = "object"
  Nil = Nil
  Targets = {"named", "selected", "untyped", "foreign", "both", "neither"}
  MaxEnv = 3
  MaxRequests = 2
INVARIANTS
  TypeOK
  AdmitsExactlySound
  MadeProjectionsAreValid
CHECK_DEADLOCK FALSE
