CONSTANTS
  Clients = {c1, c2}
  Devices = {d1}
  NoClient = NoClient
  Outcomes = {"ok", "failed", "error"}
  g_retries = 1
  g_connect_timeout = 0
  g_disconnect_timeout = 0
  g_client_timeout = 0
  MaxAge = 1
SPECIFICATION FairOrderSpec
PROPERTIES
  SilentClientForgotten
