CONSTANTS
  Inputs <- MCInputs
  Numbers = {"7", "8"}
  None = None
SPECIFICATION Spec
CHECK_DEADLOCK FALSE
INVARIANTS
  TypeOK
  SettingsAsWritten
  DevicesAsWritten
  PeerSaysWhatItWasTold
PROPERTIES
  WellPlacedFilesRead
