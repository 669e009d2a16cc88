CONSTANTS
  Servers = {s1, s2}
  Devices = {d1}
  None = None
SPECIFICATION Spec
CHECK_DEADLOCK FALSE
PROPERTIES
  OnlyQuitterRemoved
