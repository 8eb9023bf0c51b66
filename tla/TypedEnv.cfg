SPECIFICATION FairSpec
CONSTANTS
  Keys = {"k1", "k2"}
  Secrets = {1, 2}
  Containers = {"init", "app"}
  Texts = {"mysql"}
  Specs <- MCSpecsTyped
  Manifest <- MCManifest
  Extras <- MCExtras
  MaxEdits = 4
PROPERTY
  Converges
CHECK_DEADLOCK FALSE
