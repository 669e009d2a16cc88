CONSTANTS
  Clients = {c1, c2, c3}
  Devices = {d1}
  NoClient = NoClient
  Outcomes = {"ok", "failed", "error"}
  g_retries = 1
  g_connect_timeout = 1
  g_disconnect_timeout = 1
  g_client_timeout = 1
  MaxAge = 2
SPECIFICATION Spec
SYMMETRY Symmetry
PROPERTIES
  OnlyUpFromConnecting
  LinkKeptWhileUsed
  UsersLeaveOneAtATime
  RedialKillsFirst
  SharedLinkPromise
