SPECIFICATION Spec
CONSTANTS
  Names = {p}
  Workloads = {w1, w2}
  Everything = Everything
  References = {w1, Everything}
  Secrets = {s1, s2}
  NoSecret = NoSecret
  Excluded = {w2}
  Included = {}
  SelectionMode = "exclusion"
  MaxEdits = 3
  MaxLag = 1
  MaxFaults = 1
INVARIANTS
  TypeOK
  RestsOnlyWhenProjected
CHECK_DEADLOCK FALSE
