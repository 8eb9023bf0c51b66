SPECIFICATION Spec
CONSTANTS
  Keys = {"k1", "k2"}
  Secrets = {1, 2}
  Containers = {"init", "app"}
  Texts = {"mysql"}
  Specs <- MCSpecsLong
  Manifest <- MCManifestLong
  Extras <- MCExtrasLong
  MaxEdits = 4
INVARIANT
  UserContentKept
CHECK_DEADLOCK FALSE
