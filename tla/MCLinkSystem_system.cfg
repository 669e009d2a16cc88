CONSTANTS
  Clients = {c1, c2}
  Devices = {d1}
  NoClient = NoClient
  Outcomes = {"ok"}
  g_retries = 1
  g_connect_timeout = 1
  g_disconnect_timeout = 1
  g_client_timeout = 1
  MaxAge = 2
  MaxReports = 5
SPECIFICATION SystemSpec
SYMMETRY Symmetry
INVARIANTS
  SystemTypeOK
  ListsAgree
  LineOnlyForUsers
  UpIsUp
  InUseWhileWanted
PROPERTIES
  SharedLinkPromise
