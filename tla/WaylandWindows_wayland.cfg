SPECIFICATION WaylandSpec
CONSTANTS
  Windows = {w1, w2}
  Names = {a, b}
  Sessions = {1, 2}
  Addresses = {p1, p2, p3, p4}
  AutoReconnect = TRUE
  DiscardsOffline = FALSE
  MaxRetries = 2
SYMMETRY Symmetry
INVARIANTS
  NeverRefused
  NamesAgree
  OnScreenIsTracked
  RemovedIsForgotten
CHECK_DEADLOCK FALSE
