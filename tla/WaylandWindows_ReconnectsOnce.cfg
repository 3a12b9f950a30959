SPECIFICATION WaylandSpec
CONSTANTS
  Windows = {w1}
  Names = {a}
  Sessions = {1, 2, 3, 4}
  Addresses = {p1, p2}
  AutoReconnect = TRUE
  DiscardsOffline = FALSE
  MaxRetries = 3
INVARIANTS ReconnectsOnce
CHECK_DEADLOCK FALSE
