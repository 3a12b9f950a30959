CONSTANTS
  x1 = x1
  x2 = x2
  xt = xt
  d1 = d1
  e1 = e1
  e2 = e2
  XsmpClients = {x1}
  DbusClients = {}
  Dbus2Clients = {e1}
  Xterms = {}
  Interactive = {x1}
  Requesters = {}
  Reusers = {}
  RequestTypes = {"ASK", "LOGOUT"}
  FailsafeMode = FALSE
SPECIFICATION FairSpec
PROPERTY SaveEnds
CHECK_DEADLOCK FALSE
