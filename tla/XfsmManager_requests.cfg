CONSTANTS
  x1 = x1
  x2 = x2
  xt = xt
  d1 = d1
  e1 = e1
  e2 = e2
  XsmpClients = {x1,xt}
  DbusClients = {}
  Dbus2Clients = {e1}
  Xterms = {xt}
  Interactive = {}
  Requesters = {x1}
  Reusers = {e1}
  RequestTypes = {"ASK", "LOGOUT", "SUSPEND"}
  FailsafeMode = TRUE
SPECIFICATION Spec
INVARIANT SaveTimerArmed
INVARIANT NoSaveOutsideSave
INVARIANT DiePhaseBounded
INVARIANT StoredAsAllowed
CHECK_DEADLOCK FALSE
