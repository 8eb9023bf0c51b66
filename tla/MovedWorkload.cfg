SPECIFICATION Spec
CONSTANTS
  Names = {p}
  Workloads = {w1, w2}
  Everything = Everything
  References = {w1, w2}
  Secrets = {s1, s2}
  NoSecret = NoSecret
  Excluded = {}
  Included = {}
  SelectionMode = "exclusion"
  MaxEdits = 4
  MaxLag = 1
  MaxFaults = 0
INVARIANTS
  OnlyItsWorkloads
CHECK_DEADLOCK FALSE
