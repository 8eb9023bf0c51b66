SPECIFICATION FairSpec
CONSTANTS
  Replicas = {r1, r2}
  Names = {a}
  Secrets = {s1, s2}
  NoSecret = NoSecret
  Nobody = Nobody
  MaxAttempts = 2
  MaxEdits = 3
  MaxLag = 1
  MaxFaults = 1
  NameReuse = TRUE
INVARIANTS
  TypeOK
  RestsOnlyWhenPublished
  CurrentClaimIsTrue
PROPERTIES
  ImplementsFollower
  FollowerSettles
CHECK_DEADLOCK FALSE
