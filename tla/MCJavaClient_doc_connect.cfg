CONSTANTS
  Servers = {s1}
  Clicked = {s1}
  Misnamed = {}
  None = None
SPECIFICATION FairSpec
CHECK_DEADLOCK FALSE
PROPERTIES
  ConnectReturns
