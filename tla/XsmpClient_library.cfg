CONSTANTS
  x1 = x1
  Apps = {x1}
  Interested = {x1}
  Extended = {x1}
  Graceful = {x1}
  Nesting = {"quit-requested", "save-state", "save-state-extended"}
  Reconnecting = {x1}
  MaxFrames = 2
  MaxQueue = 3
SPECIFICATION LibSpec
INVARIANTS CancelledInHandler StateOfHandler NeverComesBackUnasked
CHECK_DEADLOCK FALSE
