SPECIFICATION FairSpec
CONSTANTS
  Keys = {"k1", "k2", "k3"}
  Secrets = {1, 2, 3}
  Containers = {"init", "app"}
  Texts = {"mysql"}
  Specs <- MCSpecs
  Manifest <- MCManifest
  Extras <- MCExtras
  MaxEdits = 7
INVARIANTS
  TypeOK
  UserContentKept
  Recorded
  WellFormedPod
  Idempotent
  UndoReverts
  RestsOnlyWhenBound
PROPERTY
  Converges
CHECK_DEADLOCK FALSE
