CONSTANTS
  x1 = x1
  x2 = x2
  Apps = {x1, x2}
  Interested = {x1, x2}
  Extended = {x1}
  Graceful = {x1}
  Nesting = {"quit-requested"}
  Reconnecting = {x1}
  MaxFrames = 2
  MaxQueue = 3
  Breaking = {x2}
  Asking = {x1}
  MayQuit = {x2}
  Slow = {x2}
  Orderly = TRUE
SPECIFICATION FairSpec
INVARIANTS EndsAgree 
PROPERTIES NeverDropped NoQuitUnasked SaveEndsUntimed NobodyStaysFrozen
CHECK_DEADLOCK FALSE
