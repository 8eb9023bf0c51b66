SPECIFICATION FairSpec
CONSTANTS
  Names = {p}
  Workloads = {w1}
  Everything = Everything
  References = {w1}
  Secrets = {s1, s2}
  NoSecret = NoSecret
  Excluded = {}
  Included = {}
  SelectionMode = "exclusion"
  MaxEdits = 3
  MaxLag = 1
  MaxFaults = 1
PROPERTIES
  Converges
  DeletionCompletes
CHECK_DEADLOCK FALSE
