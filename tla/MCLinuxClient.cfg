CONSTANTS
  Servers = {s1, s2, s3}
  Devices = {d1}
  None = None
SPECIFICATION FairSpec
CHECK_DEADLOCK FALSE
INVARIANTS
  TypeOK
  WalkIntact
PROPERTIES
  EveryServerShown
