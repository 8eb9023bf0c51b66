SPECIFICATION FairSpec
CONSTANTS
  Implements = {"Finalizer", "ReadOnlyInterface", "ReadOnlyFinalizer"}
  Outcomes = {"nil", "normal", "error"}
  MaxAttempts = 2
  MaxEdits = 3
  MaxLag = 2
  MaxFaults = 2
INVARIANTS
  TypeOK
  NeverLeaks
  RestsOnlyWhenDone
PROPERTIES
  DeletionCompletes
CHECK_DEADLOCK FALSE
