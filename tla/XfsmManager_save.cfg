CONSTANTS
  x1 = x1
  x2 = x2
  xt = xt
  d1 = d1
  e1 = e1
  e2 = e2
  XsmpClients = {x1, x2}
  DbusClients = {d1}
  Dbus2Clients = {e1}
  Xterms = {}
  Interactive = {x1, x2}
  Requesters = {}
  Reusers = {}
  RequestTypes = {"LOGOUT"}
  FailsafeMode = FALSE
SPECIFICATION Spec
INVARIANTS OneInteracting SaveWaitsForSomeone LastClientEndsSession
PROPERTIES PhaseTwoBarrier Implements
CHECK_DEADLOCK FALSE
