CONSTANTS
  Servers = {s1, s2}
  Clicked = {s1}
  Misnamed = {s2}
  None = None
SPECIFICATION FairSpec
CHECK_DEADLOCK FALSE
INVARIANTS
  TypeOK
  ServerKnownOnce
  OnlyDeadlock
PROPERTIES
  EveryServerWatched
